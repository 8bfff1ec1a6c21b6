----------------------------- MODULE RebuildProofs ------------------------------
(***************************************************************************)
(* For any number of seats, rounds and rebuilds, however they race, die or *)
(* deadlock: a rebuild that succeeds has repaired all three projections of *)
(* a finished match, the two tables change together, and no cursor moves   *)
(* past what its seat has seen.                                            *)
(***************************************************************************)
EXTENDS Rebuild, FiniteSetTheorems, WellFoundedInduction, TLAPS

-------------------------------------------------------------------------------
(* Finite sets of numbers.                                                   *)

\* Among sets of members of a finite set, one contains no other.
LEMMA HasMinimal ==
  ASSUME NEW S, IsFiniteSet(S), NEW T, T \subseteq SUBSET S, T # {}
  PROVE  \E x \in T : \A y \in T : ~(<<y, x>> \in StrictSubsetOrdering(S))
<1>1. IsWellFoundedOn(StrictSubsetOrdering(S), FiniteSubsetsOf(S))
  BY FS_StrictSubsetOrderingWellFounded
<1>2. T \subseteq FiniteSubsetsOf(S)
  BY FS_Subset DEF FiniteSubsetsOf
<1> QED BY <1>1, <1>2, WFMin

\* A non-empty finite set of numbers has a least one: of the sets of what lies
\* below each, one contains no other.
LEMMA HasLeast ==
  ASSUME NEW S \in SUBSET Nat, S # {}, IsFiniteSet(S)
  PROVE  \E b \in S : \A c \in S : b <= c
<1> DEFINE Below(b) == {c \in S : c < b}
           Belows   == {Below(b) : b \in S}
<1>1. Belows \subseteq SUBSET S /\ Belows # {}
  OBVIOUS
<1>2. PICK T \in Belows : \A U \in Belows : ~(<<U, T>> \in StrictSubsetOrdering(S))
  <2> HIDE DEF Belows
  <2> QED BY <1>1, HasMinimal
<1>3. PICK b \in S : T = Below(b)
  OBVIOUS
<1>4. ASSUME NEW c \in S, c < b PROVE FALSE
  <2>1. c \in Nat /\ b \in Nat /\ ~(c < c) /\ \A d \in S : d \in Nat /\ (d < c => d < b)
    BY <1>4
  <2>2. Below(c) \subseteq Below(b) /\ c \in Below(b) /\ c \notin Below(c)
    BY <1>4, <2>1
  <2>3. Below(c) \in SUBSET S /\ Below(b) \in SUBSET S /\ Below(c) # Below(b)
    BY <2>2
  <2>4. <<Below(c), Below(b)>> \in StrictSubsetOrdering(S)
    <3> HIDE DEF Below
    <3> QED BY <2>2, <2>3 DEF StrictSubsetOrdering
  <2> QED BY <1>2, <1>3, <2>4
<1> QED BY <1>4

\* Rounds are finitely many numbers from one on, and so are any of them.
LEMMA RoundsFinite ==
  ASSUME NEW H \in SUBSET RoundNos
  PROVE  /\ IsFiniteSet(H) /\ Cardinality(H) \in Nat /\ Cardinality(H) <= Rounds
         /\ \A r \in H : r \in Nat /\ r >= 1 /\ r <= Rounds
<1>1. IsFiniteSet(1 .. Rounds) /\ Cardinality(1 .. Rounds) = Rounds
  BY RebuildAssumption, FS_Interval
<1>2. IsFiniteSet(H) /\ Cardinality(H) <= Rounds
  BY <1>1, FS_Subset DEF RoundNos
<1> QED BY <1>2, RebuildAssumption, FS_CardinalityType DEF RoundNos

-------------------------------------------------------------------------------
(* What a seat has seen, from the rounds H it submitted itself.              *)

Human(l, s) == {r \in RoundNos : l[r][s].source = "human"}
Later(H, r) == {q \in H : q > r}

\* c is no more than the clamp of any of those rounds allows; and it is as much.
AtMost(H, c) ==
  /\ c \in Nat /\ c <= Cardinality(H)
  /\ \A r \in H : c <= r - 1 + Cardinality(Later(H, r))
SeenBy(H, c) ==
  /\ AtMost(H, c)
  /\ c = Cardinality(H) \/ \E r \in H : c = r - 1 + Cardinality(Later(H, r))

\* No two numbers are as much.
LEMMA SeenOnce ==
  ASSUME NEW H \in SUBSET RoundNos, NEW c, NEW d, SeenBy(H, c), AtMost(H, d)
  PROVE  d <= c /\ (SeenBy(H, d) => c = d)
<1>1. c \in Nat /\ d \in Nat
  BY DEF SeenBy, AtMost
<1>2. d <= c
  BY <1>1 DEF SeenBy, AtMost
<1>3. ASSUME SeenBy(H, d) PROVE c <= d
  BY <1>1, <1>3 DEF SeenBy, AtMost
<1> QED BY <1>1, <1>2, <1>3

\* The closed form says just that.
LEMMA SeenIs ==
  ASSUME NEW l, NEW s \in Seats
  PROVE  SeenBy(Human(l, s), SeenRounds(l)[s])
<1>1. PICK H : H = Human(l, s)
  OBVIOUS
<1>2. H \in SUBSET RoundNos
  BY <1>1 DEF Human
<1>3. PICK f : f = [r \in H |-> r - 1 + Cardinality(Later(H, r))]
  OBVIOUS
<1>4. PICK V : V = {Cardinality(H)} \cup {f[r] : r \in H}
  OBVIOUS
<1>5. SeenRounds(l)[s] = Min(V)
  <2>1. {f[r] : r \in H} = {r - 1 + Cardinality({q \in H : q > r}) : r \in H}
    BY <1>3 DEF Later
  <2>2. SeenRounds(l)[s] =
          Min({Cardinality(H)} \cup {r - 1 + Cardinality({q \in H : q > r}) : r \in H})
    BY <1>1 DEF SeenRounds, Human
  <2> QED BY <1>4, <2>1, <2>2
<1>6. Cardinality(H) \in Nat /\ Cardinality(H) <= Rounds /\ \A r \in H : r \in Nat /\ r >= 1 /\ r <= Rounds
  BY <1>2, RoundsFinite
<1>7. \A r \in H : f[r] \in 0 .. Rounds + Rounds
  <2> SUFFICES ASSUME NEW r \in H PROVE f[r] \in 0 .. Rounds + Rounds
    OBVIOUS
  <2>1. Later(H, r) \in SUBSET RoundNos
    BY <1>2 DEF Later
  <2>2. PICK n : n = Cardinality(Later(H, r))
    OBVIOUS
  <2>3. n \in Nat /\ n <= Rounds
    BY <2>1, <2>2, RoundsFinite
  <2>4. f[r] = r - 1 + n
    BY <1>3, <2>2
  <2> QED BY <1>6, <2>3, <2>4, RebuildAssumption
<1>8. V \in SUBSET Nat /\ V # {} /\ IsFiniteSet(V)
  <2>1. V \in SUBSET (0 .. Rounds + Rounds)
    BY <1>4, <1>6, <1>7, RebuildAssumption
  <2>2. IsFiniteSet(0 .. Rounds + Rounds)
    BY FS_Interval, RebuildAssumption
  <2>3. IsFiniteSet(V)
    BY <2>1, <2>2, FS_Subset
  <2> QED BY <1>4, <2>1, <2>3
<1>9. PICK m \in V : \A v \in V : m <= v
  BY <1>8, HasLeast
<1>10. Min(V) \in V /\ \A v \in V : Min(V) <= v
  BY <1>9 DEF Min
<1>11. PICK c : c = SeenRounds(l)[s]
  OBVIOUS
<1>12. c \in V /\ (\A v \in V : c <= v) /\ c \in Nat
  BY <1>5, <1>8, <1>10, <1>11
<1>13. c <= Cardinality(H) /\ \A r \in H : c <= f[r]
  BY <1>4, <1>12
<1>14. c = Cardinality(H) \/ \E r \in H : c = f[r]
  BY <1>4, <1>12
<1>15. \A r \in H : f[r] = r - 1 + Cardinality(Later(H, r))
  BY <1>3
<1>16. AtMost(H, c)
  BY <1>12, <1>13, <1>15 DEF AtMost
<1>17. SeenBy(H, c)
  BY <1>14, <1>15, <1>16 DEF SeenBy
<1> QED BY <1>1, <1>11, <1>17

\* A round after all of them: the cursor moves on by one, as far as that round.
LEMMA OneMoreRound ==
  ASSUME NEW H \in SUBSET RoundNos, NEW k \in RoundNos, \A q \in H : q < k, NEW c, AtMost(H, c)
  PROVE  /\ AtMost(H \cup {k}, Advance(c, k))
         /\ SeenBy(H, c) => SeenBy(H \cup {k}, Advance(c, k))
<1>1. k \in Nat /\ k >= 1 /\ c \in Nat
  BY RoundsFinite DEF AtMost
<1>2. PICK n : n = Cardinality(H)
  OBVIOUS
<1>3. n \in Nat /\ IsFiniteSet(H) /\ k \notin H
  BY <1>1, <1>2, RoundsFinite
<1>4. Cardinality(H \cup {k}) = n + 1
  BY <1>2, <1>3, FS_AddElement
<1>5. Cardinality(Later(H \cup {k}, k)) = 0
  <2>1. ~(k > k) /\ \A q \in H : ~(q > k)
    BY <1>1, RoundsFinite
  <2>2. Later(H \cup {k}, k) = {}
    BY <2>1 DEF Later
  <2> QED BY <2>2, FS_EmptySet
<1>6. ASSUME NEW r \in H
      PROVE  /\ Cardinality(Later(H \cup {k}, r)) = Cardinality(Later(H, r)) + 1
             /\ Cardinality(Later(H, r)) \in Nat /\ r \in Nat
  <2>1. Later(H, r) \in SUBSET RoundNos /\ k \notin Later(H, r)
    BY <1>3 DEF Later
  <2>2. Later(H \cup {k}, r) = Later(H, r) \cup {k}
    BY <1>6 DEF Later
  <2>3. IsFiniteSet(Later(H, r)) /\ Cardinality(Later(H, r)) \in Nat
    BY <2>1, RoundsFinite
  <2> QED BY <2>1, <2>2, <2>3, FS_AddElement, RoundsFinite
<1>7. PICK d : d = Advance(c, k)
  OBVIOUS
<1>8. d \in Nat /\ d <= c + 1 /\ d <= k - 1 /\ (d = c + 1 \/ d = k - 1)
  <2>1. d = IF c + 1 <= k - 1 THEN c + 1 ELSE k - 1
    <3>1. \A x, y \in Int : Min({x, y}) = IF x <= y THEN x ELSE y
      <4> SUFFICES ASSUME NEW x \in Int, NEW y \in Int PROVE Min({x, y}) = IF x <= y THEN x ELSE y
        OBVIOUS
      <4>1. PICK m : m = IF x <= y THEN x ELSE y
        OBVIOUS
      <4>2. m \in {x, y} /\ \A z \in {x, y} : m <= z
        BY <4>1
      <4>3. Min({x, y}) \in {x, y} /\ \A z \in {x, y} : Min({x, y}) <= z
        BY <4>2 DEF Min
      <4> QED BY <4>3
    <3>2. c + 1 \in Int /\ k - 1 \in Int
      BY <1>1
    <3> QED BY <1>7, <3>1, <3>2 DEF Advance
  <2> QED BY <1>1, <2>1
<1>9. PICK G : G = H \cup {k}
  OBVIOUS
<1>10. AtMost(G, d)
  <2>1. d <= Cardinality(G)
    BY <1>1, <1>2, <1>3, <1>4, <1>8, <1>9 DEF AtMost
  <2>2. ASSUME NEW r \in H PROVE d <= r - 1 + Cardinality(Later(G, r))
    <3>1. c <= r - 1 + Cardinality(Later(H, r))
      BY DEF AtMost
    <3> QED BY <1>1, <1>6, <1>8, <1>9, <3>1
  <2>3. d <= k - 1 + Cardinality(Later(G, k))
    BY <1>1, <1>5, <1>8, <1>9
  <2> QED BY <1>8, <1>9, <2>1, <2>2, <2>3 DEF AtMost
<1>11. ASSUME SeenBy(H, c) PROVE SeenBy(G, d)
  <2>1. CASE d = k - 1
    BY <1>1, <1>5, <1>9, <1>10, <2>1 DEF SeenBy
  <2>2. CASE d = c + 1 /\ c = n
    BY <1>4, <1>9, <1>10, <2>2 DEF SeenBy
  <2>3. CASE d = c + 1 /\ \E r \in H : c = r - 1 + Cardinality(Later(H, r))
    <3>1. PICK r \in H : c = r - 1 + Cardinality(Later(H, r))
      BY <2>3
    <3>2. d = r - 1 + Cardinality(Later(G, r)) /\ r \in G
      BY <1>6, <1>9, <2>3, <3>1
    <3> QED BY <1>10, <3>2 DEF SeenBy
  <2> QED BY <1>2, <1>8, <1>11, <2>1, <2>2, <2>3 DEF SeenBy
<1> QED BY <1>7, <1>9, <1>10, <1>11

\* Rounds after those a cursor counts never hold it back.
LEMMA LaterRounds ==
  ASSUME NEW A \in SUBSET RoundNos, NEW H \in SUBSET RoundNos, A \subseteq H,
         \A r \in H \ A : \A q \in A : q < r, NEW c, AtMost(A, c)
  PROVE  AtMost(H, c)
<1>1. c \in Nat /\ Cardinality(A) \in Nat /\ Cardinality(H) \in Nat /\ Cardinality(A) <= Cardinality(H)
  BY RoundsFinite, FS_Subset DEF AtMost
<1>2. c <= Cardinality(H)
  BY <1>1 DEF AtMost
<1>3. ASSUME NEW r \in H PROVE c <= r - 1 + Cardinality(Later(H, r))
  <2>1. /\ r \in Nat /\ r >= 1 /\ Later(H, r) \in SUBSET RoundNos /\ Later(A, r) \in SUBSET Later(H, r)
    BY RoundsFinite DEF Later
  <2>2. PICK m, n : m = Cardinality(Later(A, r)) /\ n = Cardinality(Later(H, r))
    OBVIOUS
  <2>3. m \in Nat /\ n \in Nat /\ m <= n
    BY <2>1, <2>2, RoundsFinite, FS_Subset
  <2>4. CASE r \in A
    BY <1>1, <2>1, <2>2, <2>3, <2>4 DEF AtMost
  <2>5. CASE r \notin A
    <3>1. A \in SUBSET (1 .. r - 1)
      BY <2>1, <2>5, RoundsFinite
    <3>2. PICK k : k = r - 1
      OBVIOUS
    <3>3. k \in Nat /\ 1 \in Int /\ k \in Int
      BY <2>1, <3>2
    <3>4. IsFiniteSet(1 .. k) /\ Cardinality(1 .. k) = k
      BY <3>3, FS_Interval
    <3>5. A \in SUBSET (1 .. k)
      BY <3>1, <3>2
    <3>6. Cardinality(A) <= k
      BY <3>4, <3>5, FS_Subset
    <3> QED BY <1>1, <2>1, <2>2, <2>3, <3>2, <3>6 DEF AtMost
  <2> QED BY <2>4, <2>5
<1> QED BY <1>1, <1>2, <1>3 DEF AtMost

-------------------------------------------------------------------------------
(* The recursive cursor of lastSeenRoundsFromOrders.                         *)

\* up[r] is what the loop has reached after round r.
Counts(H, up) ==
  up = [r \in 0 .. Rounds |->
          IF r = 0 THEN 0 ELSE IF r \in H THEN Advance(up[r - 1], r) ELSE up[r - 1]]

\* The loop takes one round after another, so it has an outcome.
LEMMA LoopEnds ==
  ASSUME NEW H \in SUBSET RoundNos
  PROVE  \E up : Counts(H, up)
<1> DEFINE Value(f, r) == IF r = 0 THEN 0
                          ELSE IF r \in H THEN Advance(f[r - 1], r) ELSE f[r - 1]
           Reached(n) == \E f : DOMAIN f = 0 .. n /\ \A r \in 0 .. n : f[r] = Value(f, r)
           Stuck == {n \in 0 .. Rounds : ~Reached(n)}
<1>1. ASSUME Stuck # {} PROVE FALSE
  <2>1. Stuck \in SUBSET Nat /\ IsFiniteSet(Stuck)
    <3>1. IsFiniteSet(0 .. Rounds) /\ Stuck \in SUBSET (0 .. Rounds)
      BY FS_Interval, RebuildAssumption
    <3>2. 0 .. Rounds \in SUBSET Nat
      BY RebuildAssumption
    <3> HIDE DEF Stuck
    <3> QED BY <3>1, <3>2, FS_Subset
  <2>2. PICK n \in Stuck : \A c \in Stuck : n <= c
    <3> HIDE DEF Stuck
    <3> QED BY <1>1, <2>1, HasLeast
  <2>3. n \in Nat /\ n <= Rounds /\ ~Reached(n)
    BY RebuildAssumption
  <2>4. CASE n = 0
    <3>1. PICK f : f = [r \in 0 .. 0 |-> 0]
      OBVIOUS
    <3>2. DOMAIN f = 0 .. n /\ \A r \in 0 .. n : f[r] = Value(f, r)
      BY <2>4, <3>1
    <3> QED BY <2>3, <3>2
  <2>5. CASE n # 0
    <3>1. n - 1 \in Nat /\ n - 1 \in 0 .. Rounds /\ ~(n <= n - 1)
      BY <2>3, <2>5, RebuildAssumption
    <3>2. n - 1 \notin Stuck
      BY <2>2, <3>1
    <3>3. Reached(n - 1)
      BY <3>1, <3>2
    <3>4. PICK f : DOMAIN f = 0 .. n - 1 /\ \A r \in 0 .. n - 1 : f[r] = Value(f, r)
      BY <3>3
    <3>5. PICK g : g = [r \in 0 .. n |-> IF r = n THEN Value(f, n) ELSE f[r]]
      OBVIOUS
    <3>6. ASSUME NEW r \in 0 .. n PROVE g[r] = Value(g, r)
      <4>1. r \in Nat /\ (r # 0 => r - 1 \in 0 .. n /\ r - 1 # n)
        BY <2>3, <3>6
      <4>2. r # 0 => g[r - 1] = f[r - 1]
        BY <3>5, <4>1
      <4>3. Value(g, r) = Value(f, r)
        BY <4>2
      <4>4. CASE r = n
        BY <3>5, <4>3, <4>4
      <4>5. CASE r # n
        <5>1. r \in 0 .. n - 1
          BY <2>3, <3>6, <4>5
        <5> HIDE DEF Value
        <5> QED BY <3>4, <3>5, <3>6, <4>3, <4>5, <5>1
      <4> QED BY <4>4, <4>5
    <3>7. DOMAIN g = 0 .. n
      BY <3>5
    <3> HIDE DEF Value
    <3> QED BY <2>3, <3>6, <3>7
  <2> QED BY <2>4, <2>5
<1>2. Rounds \in 0 .. Rounds
  BY RebuildAssumption
<1>3. Reached(Rounds)
  BY <1>1, <1>2
<1>4. PICK f : DOMAIN f = 0 .. Rounds /\ \A r \in 0 .. Rounds : f[r] = Value(f, r)
  BY <1>3
<1>5. PICK g : g = [r \in 0 .. Rounds |-> f[r]]
  OBVIOUS
<1>6. \A r \in 0 .. Rounds : g[r] = Value(g, r)
  <2> SUFFICES ASSUME NEW r \in 0 .. Rounds PROVE g[r] = Value(g, r)
    OBVIOUS
  <2>1. r # 0 => r - 1 \in 0 .. Rounds
    BY RebuildAssumption
  <2>2. Value(g, r) = Value(f, r)
    BY <1>5, <2>1
  <2> HIDE DEF Value
  <2> QED BY <1>4, <1>5, <2>2
<1>7. g = [r \in 0 .. Rounds |-> Value(g, r)]
  <2> HIDE DEF Value
  <2> QED BY <1>5, <1>6
<1> QED BY <1>7 DEF Counts

\* And the outcome is what the seat has seen.
LEMMA LoopCounts ==
  ASSUME NEW H \in SUBSET RoundNos, NEW up, Counts(H, up)
  PROVE  SeenBy(H, up[Rounds])
<1> DEFINE First(k) == {q \in H : q <= k}
           Wrong == {k \in 0 .. Rounds : ~SeenBy(First(k), up[k])}
<1>1. ASSUME Wrong # {} PROVE FALSE
  <2>1. Wrong \in SUBSET Nat /\ IsFiniteSet(Wrong)
    <3>1. IsFiniteSet(0 .. Rounds) /\ Wrong \in SUBSET (0 .. Rounds)
      BY FS_Interval, RebuildAssumption
    <3>2. 0 .. Rounds \in SUBSET Nat
      BY RebuildAssumption
    <3> HIDE DEF Wrong
    <3> QED BY <3>1, <3>2, FS_Subset
  <2>2. PICK k \in Wrong : \A c \in Wrong : k <= c
    <3> HIDE DEF Wrong
    <3> QED BY <1>1, <2>1, HasLeast
  <2>3. k \in Nat /\ k <= Rounds /\ k \in 0 .. Rounds /\ ~SeenBy(First(k), up[k])
    BY RebuildAssumption
  <2>4. First(k) \in SUBSET RoundNos /\ \A q \in H : q \in Nat /\ q >= 1 /\ q <= Rounds
    BY RoundsFinite
  <2>5. CASE k = 0
    <3>1. First(k) = {}
      BY <2>4, <2>5
    <3>2. up[k] = 0
      BY <2>3, <2>5 DEF Counts
    <3>3. SeenBy({}, 0)
      BY FS_EmptySet DEF SeenBy, AtMost
    <3> HIDE DEF First
    <3> QED BY <2>3, <3>1, <3>2, <3>3
  <2>6. CASE k # 0
    <3>1. PICK j : j = k - 1
      OBVIOUS
    <3>2. j \in 0 .. Rounds /\ j \in Nat /\ ~(k <= j) /\ k = j + 1
      BY <2>3, <2>6, <3>1, RebuildAssumption
    <3>3. SeenBy(First(j), up[j])
      <4>1. j \notin Wrong
        BY <2>2, <3>2
      <4> QED BY <3>2, <4>1
    <3>4. up[k] = IF k \in H THEN Advance(up[j], k) ELSE up[j]
      BY <2>3, <2>6, <3>1 DEF Counts
    <3>5. First(j) \in SUBSET RoundNos /\ \A q \in First(j) : q < k
      BY <2>4, <3>2
    <3>6. CASE k \in H
      <4>0. k <= k /\ \A q \in H : q <= k <=> (q <= j \/ q = k)
        BY <2>3, <2>4, <3>2
      <4>1. First(k) = First(j) \cup {k}
        BY <3>6, <4>0
      <4>2. k \in RoundNos /\ AtMost(First(j), up[j])
        BY <3>3, <3>6 DEF SeenBy
      <4> HIDE DEF First
      <4> QED BY <2>3, <3>3, <3>4, <3>5, <3>6, <4>1, <4>2, OneMoreRound
    <3>7. CASE k \notin H
      <4>1. First(k) = First(j)
        BY <2>3, <2>4, <3>2, <3>7
      <4> HIDE DEF First
      <4> QED BY <2>3, <3>3, <3>4, <3>7, <4>1
    <3> QED BY <3>6, <3>7
  <2> QED BY <2>5, <2>6
<1>2. Rounds \in 0 .. Rounds
  BY RebuildAssumption
<1>3. SeenBy(First(Rounds), up[Rounds])
  BY <1>1, <1>2
<1>4. First(Rounds) = H
  BY RoundsFinite
<1> HIDE DEF First
<1> QED BY <1>3, <1>4

\* So the loop and the closed form agree.
LEMMA CursorsExact ==
  ASSUME NEW l
  PROVE  Cursors(l) = SeenRounds(l)
<1>1. ASSUME NEW s \in Seats PROVE Cursors(l)[s] = SeenRounds(l)[s]
  <2>1. PICK H : H = Human(l, s)
    OBVIOUS
  <2>2. H \in SUBSET RoundNos /\ \A r \in 0 .. Rounds : r # 0 => (r \in H <=> l[r][s].source = "human")
    BY <2>1, RebuildAssumption DEF Human, RoundNos
  <2>3. PICK up : up = [r \in 0 .. Rounds |->
                          IF r = 0 THEN 0
                          ELSE IF l[r][s].source = "human" THEN Advance(up[r - 1], r)
                          ELSE up[r - 1]]
                  /\ up[Rounds] = Cursors(l)[s]
    <3>1. PICK f : Counts(H, f)
      BY <2>2, LoopEnds
    <3>2. f = [r \in 0 .. Rounds |->
                 IF r = 0 THEN 0
                 ELSE IF l[r][s].source = "human" THEN Advance(f[r - 1], r) ELSE f[r - 1]]
      BY <2>2, <3>1 DEF Counts
    <3> QED BY <3>2 DEF Cursors
  <2>4. Counts(H, up)
    BY <2>2, <2>3 DEF Counts
  <2>5. SeenBy(H, Cursors(l)[s])
    BY <2>2, <2>3, <2>4, LoopCounts
  <2>6. SeenBy(H, SeenRounds(l)[s])
    BY <2>1, SeenIs
  <2> QED BY <2>2, <2>5, <2>6, SeenOnce DEF SeenBy
<1>2. /\ DOMAIN Cursors(l) = Seats /\ Cursors(l) = [s \in Seats |-> Cursors(l)[s]]
      /\ DOMAIN SeenRounds(l) = Seats /\ SeenRounds(l) = [s \in Seats |-> SeenRounds(l)[s]]
  BY DEF Cursors, SeenRounds
<1> QED BY <1>1, <1>2

-------------------------------------------------------------------------------
(* The match, and what its orders say.                                       *)

\* The rounds the tick has filled.
Filled(r) == r < round \/ (r = round /\ (tick # "open" \/ status = "finished"))

MatchInv ==
  /\ status \in {"lobby", "active", "finished"} /\ tick \in {"open", "events", "summary"}
  /\ round \in 0 .. Rounds
  /\ status = "lobby" => round = 0 /\ tick = "open"
  /\ status = "active" => round >= 1
  /\ status = "finished" => round = Rounds /\ tick = "open"
  /\ orders = [r \in RoundNos |-> [s \in Seats |-> orders[r][s]]]
  /\ \A r \in RoundNos, s \in Seats :
       /\ orders[r][s] = NoOrder \/ orders[r][s].source \in {"human", "bot", "default"}
       /\ Filled(r) => orders[r][s] # NoOrder
       /\ r = round /\ ~Filled(r) =>
            orders[r][s] = NoOrder \/ (orders[r][s].source = "human" /\ s \notin Bots)
       /\ r > round => orders[r][s] = NoOrder

\* A round in which nothing happens has no events to write.
QuietInv == \A r \in Quiet : events[r] = NoEvents

Stages == {"idle", "loaded", "folded", "deleting events", "cleared",
           "deleting summary", "writing", "committed", "done", "failed"}

RunInv ==
  /\ pc \in [Rebuilders -> Stages]
  /\ log = [p \in Rebuilders |-> log[p]] /\ begun = [p \in Rebuilders |-> begun[p]]
  /\ cursor = [s \in Seats |-> cursor[s]]

\* A rebuild leaves the match alone, and the match leaves the rebuilds alone.
LEMMA TwoWorlds ==
  ASSUME [Next]_vars
  PROVE  \/ Playing /\ UNCHANGED <<pc, log, begun>>
         \/ UNCHANGED match /\ (cursor' = cursor \/ \E p \in Rebuilders : RebuildLastSeenRounds(p))
<1>1. CASE Playing
  BY <1>1 DEF Playing, OpenMatch, AppendOrder, Tick, WriteEvents, UpsertSummary
<1>2. CASE \E p \in Rebuilders : LoadMatch(p) \/ Rebuilding(p) \/ Crash(p)
  BY <1>2 DEF LoadMatch, Rebuilding, ListOrders, StartDelete, EndDelete, InsertEvents,
       PutSummary, Commit, RebuildLastSeenRounds, DeadlockDetected, Crash
<1>3. CASE UNCHANGED vars
  BY <1>3 DEF vars
<1> QED BY <1>1, <1>2, <1>3 DEF Next, AllQuiet

LEMMA MatchInvInit ==
  ASSUME Init
  PROVE  MatchInv
<1>1. status = "lobby" /\ round = 0 /\ tick = "open" /\ orders = [r \in RoundNos |-> [s \in Seats |-> NoOrder]]
  BY DEF Init
<1>2. \A r \in RoundNos : r > 0 /\ ~(r < 0) /\ r # 0
  BY RebuildAssumption DEF RoundNos
<1> QED BY <1>1, <1>2, RebuildAssumption DEF MatchInv, Filled

LEMMA MatchInvStep ==
  ASSUME MatchInv, [Next]_vars
  PROVE  MatchInv'
<1>1. CASE UNCHANGED match
  BY <1>1 DEF match, MatchInv, Filled
<1>2. CASE Playing
  <2>0. Rounds \in Nat /\ Rounds >= 1 /\ (\A r \in RoundNos : r \in Nat /\ r >= 1 /\ r <= Rounds) /\ round \in Nat
    BY RebuildAssumption DEF RoundNos, MatchInv
  <2>1. CASE OpenMatch
    BY <2>0, <2>1 DEF OpenMatch, MatchInv, Filled
  <2>2. ASSUME NEW t \in Seats, NEW d \in Drafts[t], AppendOrder(t, d) PROVE MatchInv'
    <3>1. /\ status = "active" /\ tick = "open" /\ t \notin Bots /\ round \in RoundNos
          /\ status' = status /\ tick' = tick /\ round' = round
      BY <2>0, <2>2 DEF AppendOrder, MatchInv, RoundNos
    <3>2. PICK o : o = [source |-> "human", draft |-> d]
      OBVIOUS
    <3>3. o # NoOrder /\ o.source = "human"
      BY <3>2 DEF NoOrder
    <3>4. orders' = [r \in RoundNos |-> [s \in Seats |->
                       IF r = round /\ s = t THEN o ELSE orders[r][s]]]
      BY <2>2, <3>1, <3>2 DEF AppendOrder, MatchInv
    <3> QED BY <2>0, <3>1, <3>3, <3>4 DEF MatchInv, Filled
  <2>3. CASE Tick
    <3>1. /\ status = "active" /\ tick = "open" /\ round \in RoundNos
          /\ status' = status /\ tick' = "events" /\ round' = round
      BY <2>0, <2>3 DEF Tick, MatchInv, RoundNos
    <3>2. PICK f : f = [s \in Seats |->
                     IF s \in Bots THEN [source |-> "bot", draft |-> Min(Drafts[s])]
                     ELSE IF orders[round][s] = NoOrder THEN Default ELSE orders[round][s]]
      OBVIOUS
    <3>3. \A s \in Seats : f[s] # NoOrder /\ f[s].source \in {"human", "bot", "default"}
      BY <3>1, <3>2 DEF NoOrder, Default, MatchInv, Filled
    <3>4. orders' = [r \in RoundNos |-> [s \in Seats |->
                       IF r = round THEN f[s] ELSE orders[r][s]]]
      BY <2>3, <3>1, <3>2 DEF Tick, MatchInv
    <3> QED BY <2>0, <3>1, <3>3, <3>4 DEF MatchInv, Filled
  <2>4. CASE WriteEvents
    BY <2>0, <2>4 DEF WriteEvents, MatchInv, Filled
  <2>5. CASE UpsertSummary
    <3>1. status = "active" /\ tick = "summary" /\ tick' = "open" /\ orders' = orders /\ round >= 1
      BY <2>5 DEF UpsertSummary, MatchInv
    <3>2. CASE round = Rounds
      <4>1. status' = "finished" /\ round' = round
        BY <2>5, <3>2 DEF UpsertSummary
      <4>2. \A r \in RoundNos : Filled(r)' <=> Filled(r)
        BY <2>0, <3>1, <4>1 DEF Filled
      <4> QED BY <2>0, <3>1, <3>2, <4>1, <4>2 DEF MatchInv, Filled
    <3>3. CASE round # Rounds
      <4>1. status' = "active" /\ round' = round + 1 /\ round' \in 0 .. Rounds
        BY <2>0, <2>5, <3>1, <3>3 DEF UpsertSummary, MatchInv
      <4>2. \A r \in RoundNos : (Filled(r)' <=> Filled(r)) /\ (r >= round' => r > round)
                               /\ (r > round' => r > round)
        BY <2>0, <3>1, <4>1 DEF Filled
      <4>3. \A r \in RoundNos, s \in Seats :
              /\ orders'[r][s] = NoOrder \/ orders'[r][s].source \in {"human", "bot", "default"}
              /\ Filled(r)' => orders'[r][s] # NoOrder
              /\ r = round' => orders'[r][s] = NoOrder
              /\ r > round' => orders'[r][s] = NoOrder
        BY <2>0, <3>1, <4>1, <4>2 DEF MatchInv
      <4> QED BY <2>0, <3>1, <4>1, <4>3 DEF MatchInv
    <3> QED BY <3>2, <3>3
  <2> QED BY <1>2, <2>1, <2>2, <2>3, <2>4, <2>5 DEF Playing
<1> QED BY <1>1, <1>2, TwoWorlds

\* What a seat has submitted itself only grows, by a round after the others;
\* it grows with the cursor.
LEMMA Submissions ==
  ASSUME MatchInv, RunInv, [Next]_vars, NEW s \in Seats
  PROVE  \/ /\ Human(orders, s)' = Human(orders, s)
            /\ cursor'[s] = cursor[s] \/ \E p \in Rebuilders : RebuildLastSeenRounds(p)
         \/ /\ Human(orders, s)' = Human(orders, s) \cup {round} /\ round \in RoundNos
            /\ \A q \in Human(orders, s) : q < round
            /\ cursor'[s] = Advance(cursor[s], round)
<1>1. CASE UNCHANGED match /\ (cursor' = cursor \/ \E p \in Rebuilders : RebuildLastSeenRounds(p))
  <2>1. Human(orders, s)' = Human(orders, s)
    BY <1>1 DEF match, Human
  <2> QED BY <1>1, <2>1
<1>2. CASE Playing
  <2>0. Rounds \in Nat /\ Rounds >= 1 /\ (\A r \in RoundNos : r \in Nat /\ r >= 1 /\ r <= Rounds) /\ round \in Nat
    BY RebuildAssumption DEF RoundNos, MatchInv
  <2>1. CASE OpenMatch \/ WriteEvents \/ UpsertSummary
    <3>1. Human(orders, s)' = Human(orders, s)
      BY <2>1 DEF OpenMatch, WriteEvents, UpsertSummary, Human
    <3>2. cursor' = cursor
      BY <2>1 DEF OpenMatch, WriteEvents, UpsertSummary
    <3> QED BY <3>1, <3>2
  <2>2. ASSUME NEW t \in Seats, NEW d \in Drafts[t], AppendOrder(t, d)
        PROVE  \/ Human(orders, s)' = Human(orders, s) /\ cursor'[s] = cursor[s]
               \/ /\ Human(orders, s)' = Human(orders, s) \cup {round} /\ round \in RoundNos
                  /\ \A q \in Human(orders, s) : q < round
                  /\ cursor'[s] = Advance(cursor[s], round)
    <3>1. /\ status = "active" /\ tick = "open" /\ t \notin Bots /\ round \in RoundNos
      BY <2>0, <2>2 DEF AppendOrder, MatchInv, RoundNos
    <3>2. PICK o : o = [source |-> "human", draft |-> d]
      OBVIOUS
    <3>3. o.source = "human"
      BY <3>2
    <3>4. orders' = [r \in RoundNos |-> [v \in Seats |->
                       IF r = round /\ v = t THEN o ELSE orders[r][v]]]
      BY <2>2, <3>1, <3>2 DEF AppendOrder, MatchInv
    <3>5. CASE s # t
      <4>1. Human(orders, s)' = Human(orders, s)
        BY <3>4, <3>5 DEF Human
      <4>2. cursor'[s] = cursor[s]
        BY <2>2, <3>5 DEF AppendOrder, RunInv
      <4> QED BY <4>1, <4>2
    <3>6. CASE s = t /\ orders[round][s] # NoOrder
      <4>1. orders[round][s].source = "human"
        BY <3>1, <3>6, <2>0 DEF MatchInv, Filled
      <4>2. Human(orders, s)' = Human(orders, s)
        BY <3>1, <3>3, <3>4, <3>6, <4>1 DEF Human
      <4>3. cursor'[s] = cursor[s]
        BY <2>2, <3>6 DEF AppendOrder
      <4> QED BY <4>2, <4>3
    <3>7. CASE s = t /\ orders[round][s] = NoOrder
      <4>1. \A q \in Human(orders, s) : q \in RoundNos /\ q # round /\ ~(q > round)
        BY <2>0, <3>1, <3>7 DEF Human, MatchInv, NoOrder
      <4>2. \A q \in Human(orders, s) : q < round
        BY <2>0, <4>1
      <4>3. Human(orders, s)' = Human(orders, s) \cup {round}
        BY <3>1, <3>3, <3>4, <3>7 DEF Human
      <4>4. cursor'[s] = Advance(cursor[s], round)
        BY <2>2, <3>7 DEF AppendOrder, RunInv
      <4> QED BY <3>1, <4>2, <4>3, <4>4
    <3> QED BY <3>5, <3>6, <3>7
  <2>3. CASE Tick
    <3>1. status = "active" /\ tick = "open" /\ round \in RoundNos
      BY <2>0, <2>3 DEF Tick, MatchInv, RoundNos
    <3>2. PICK f : f = [v \in Seats |->
                     IF v \in Bots THEN [source |-> "bot", draft |-> Min(Drafts[v])]
                     ELSE IF orders[round][v] = NoOrder THEN Default ELSE orders[round][v]]
      OBVIOUS
    <3>3. f[s].source = "human" <=> orders[round][s].source = "human"
      BY <2>0, <3>1, <3>2 DEF NoOrder, Default, MatchInv, Filled
    <3>4. orders' = [r \in RoundNos |-> [v \in Seats |->
                       IF r = round THEN f[v] ELSE orders[r][v]]]
      BY <2>3, <3>1, <3>2 DEF Tick, MatchInv
    <3>5. Human(orders, s)' = Human(orders, s)
      BY <3>3, <3>4 DEF Human
    <3>6. cursor' = cursor
      BY <2>3 DEF Tick
    <3> QED BY <3>5, <3>6
  <2> QED BY <1>2, <2>1, <2>2, <2>3 DEF Playing
<1> QED BY <1>1, <1>2, TwoWorlds

-------------------------------------------------------------------------------
(* Each rebuild, beside the match.                                           *)

LEMMA RunInvStep ==
  ASSUME RunInv, [Next]_vars
  PROVE  RunInv'
<1>1. CASE Playing
  <2>1. pc' = pc /\ log' = log /\ begun' = begun
    BY <1>1 DEF Playing, OpenMatch, AppendOrder, Tick, WriteEvents, UpsertSummary
  <2>2. cursor' = [s \in Seats |-> cursor'[s]]
    BY <1>1 DEF RunInv, Playing, OpenMatch, AppendOrder, Tick, WriteEvents, UpsertSummary
  <2> QED BY <2>1, <2>2 DEF RunInv
<1>2. ASSUME NEW p \in Rebuilders, LoadMatch(p) \/ Rebuilding(p) \/ Crash(p)
      PROVE  RunInv'
  <2>1. pc' \in [Rebuilders -> Stages]
    <3>1. PICK to : to \in Stages /\ (pc' = [pc EXCEPT ![p] = to] \/ pc' = pc)
      BY <1>2 DEF LoadMatch, Rebuilding, ListOrders, StartDelete, EndDelete, InsertEvents, PutSummary,
         Commit, RebuildLastSeenRounds, DeadlockDetected, Crash, RollBack, Go, Deleting, AfterCommit, Stages
    <3> QED BY <3>1 DEF RunInv
  <2>2. log' = [q \in Rebuilders |-> log'[q]] /\ begun' = [q \in Rebuilders |-> begun'[q]]
    <3>1. CASE ListOrders(p)
      BY <3>1 DEF ListOrders, RunInv
    <3>2. CASE ~ListOrders(p)
      <4>1. log' = log /\ begun' = begun
        BY <1>2, <3>2 DEF LoadMatch, Rebuilding, StartDelete, EndDelete, InsertEvents, PutSummary,
           Commit, RebuildLastSeenRounds, DeadlockDetected, Crash
      <4> QED BY <4>1 DEF RunInv
    <3> QED BY <3>1, <3>2
  <2>3. cursor' = [s \in Seats |-> cursor'[s]]
    <3>1. CASE RebuildLastSeenRounds(p)
      BY <3>1 DEF RebuildLastSeenRounds, Cursors
    <3>2. CASE ~RebuildLastSeenRounds(p)
      <4>1. cursor' = cursor
        BY <1>2, <3>2 DEF LoadMatch, Rebuilding, ListOrders, StartDelete, EndDelete, InsertEvents, PutSummary,
           Commit, DeadlockDetected, Crash
      <4> QED BY <4>1 DEF RunInv
    <3> QED BY <3>1, <3>2
  <2> QED BY <2>1, <2>2, <2>3 DEF RunInv
<1>3. CASE UNCHANGED vars
  BY <1>3 DEF vars, RunInv
<1> QED BY <1>1, <1>2, <1>3 DEF Next, AllQuiet

LEMMA QuietInvStep ==
  ASSUME QuietInv, [Next]_vars
  PROVE  QuietInv'
<1>0. \A l, r : r \in Quiet => EventsOf(l, r) = NoEvents
  BY DEF EventsOf
<1>1. CASE WriteEvents
  <2> SUFFICES ASSUME NEW r \in Quiet PROVE events'[r] = NoEvents
    BY DEF QuietInv
  <2>1. CASE r = round
    BY <1>0, <1>1, <2>1 DEF WriteEvents, QuietInv
  <2>2. CASE r # round
    BY <1>1, <2>2 DEF WriteEvents, QuietInv
  <2> QED BY <2>1, <2>2
<1>2. ASSUME NEW p \in Rebuilders, Commit(p) PROVE QuietInv'
  BY <1>0, <1>2, RebuildAssumption DEF Commit, QuietInv
<1>3. CASE UNCHANGED events
  BY <1>3 DEF QuietInv
<1> QED BY <1>1, <1>2, <1>3 DEF Next, Playing, OpenMatch, AppendOrder, Tick, UpsertSummary, LoadMatch,
        Rebuilding, ListOrders, StartDelete, EndDelete, InsertEvents, PutSummary, RebuildLastSeenRounds,
        DeadlockDetected, Crash, AllQuiet, vars, rows

\* The log a rebuild works from is the one it had, or the one it lists now.
LEMMA Listing ==
  ASSUME RunInv, [Next]_vars, NEW p \in Rebuilders
  PROVE  \/ log'[p] = log[p] /\ begun'[p] = begun[p]
         \/ log'[p] = orders /\ begun'[p] = status /\ UNCHANGED match
<1>1. CASE Playing \/ UNCHANGED vars
  BY <1>1 DEF Playing, OpenMatch, AppendOrder, Tick, WriteEvents, UpsertSummary, vars
<1>2. ASSUME NEW q \in Rebuilders, LoadMatch(q) \/ Rebuilding(q) \/ Crash(q)
      PROVE  \/ log'[p] = log[p] /\ begun'[p] = begun[p]
             \/ log'[p] = orders /\ begun'[p] = status /\ UNCHANGED match
  <2>1. CASE ListOrders(q)
    BY <2>1 DEF ListOrders, RunInv
  <2>2. CASE ~ListOrders(q)
    <3>1. log' = log /\ begun' = begun
      BY <1>2, <2>2 DEF LoadMatch, Rebuilding, StartDelete, EndDelete, InsertEvents, PutSummary,
         Commit, RebuildLastSeenRounds, DeadlockDetected, Crash
    <3> QED BY <3>1
  <2> QED BY <2>1, <2>2
<1> QED BY <1>1, <1>2 DEF Next, AllQuiet

\* Where a rebuild's next step takes it.
LEMMA Progress ==
  ASSUME RunInv, [Next]_vars, NEW p \in Rebuilders
  PROVE  \/ pc'[p] = pc[p]
         \/ pc'[p] \in {"loaded", "failed"}
         \/ ListOrders(p) /\ pc'[p] = "folded"
         \/ /\ pc[p] \in {"folded", "deleting events", "cleared", "deleting summary", "writing"}
            /\ pc'[p] \in {"deleting events", "cleared", "deleting summary", "writing"}
         \/ Commit(p) /\ pc[p] = "writing" /\ pc'[p] = "committed"
         \/ RebuildLastSeenRounds(p) /\ pc[p] = "committed" /\ pc'[p] = "done"
<1>1. CASE Playing \/ UNCHANGED vars
  BY <1>1 DEF Playing, OpenMatch, AppendOrder, Tick, WriteEvents, UpsertSummary, vars
<1>2. ASSUME NEW q \in Rebuilders, q # p, LoadMatch(q) \/ Rebuilding(q) \/ Crash(q)
      PROVE  pc'[p] = pc[p]
  <2>1. PICK to : pc' = [pc EXCEPT ![q] = to] \/ pc' = pc
    BY <1>2 DEF LoadMatch, Rebuilding, ListOrders, StartDelete, EndDelete, InsertEvents, PutSummary,
       Commit, RebuildLastSeenRounds, DeadlockDetected, Crash, RollBack, Go
  <2> QED BY <1>2, <2>1 DEF RunInv
<1>3. CASE LoadMatch(p)
  BY <1>3 DEF LoadMatch, RunInv
<1>4. CASE ListOrders(p)
  BY <1>4 DEF ListOrders, RunInv
<1>5. CASE \/ StartDelete(p, "events", "folded") \/ EndDelete(p, "events", "cleared")
           \/ StartDelete(p, "summary", "cleared") \/ EndDelete(p, "summary", "writing")
  BY <1>5 DEF StartDelete, EndDelete, Go, Deleting, RunInv
<1>6. CASE InsertEvents(p) \/ PutSummary(p)
  BY <1>6 DEF InsertEvents, PutSummary, RollBack, RunInv
<1>7. CASE Commit(p)
  BY <1>7 DEF Commit, AfterCommit, RunInv
<1>8. CASE RebuildLastSeenRounds(p)
  BY <1>8 DEF RebuildLastSeenRounds, Go, RunInv
<1>9. CASE DeadlockDetected(p) \/ Crash(p)
  BY <1>9 DEF DeadlockDetected, Crash, RollBack, RunInv
<1> QED BY <1>1, <1>2, <1>3, <1>4, <1>5, <1>6, <1>7, <1>8, <1>9 DEF Next, Rebuilding, AllQuiet

-------------------------------------------------------------------------------
(* The projections of a finished match.                                      *)

\* Every round of a finished match is in its log.
LEMMA FinishedIsFull ==
  ASSUME MatchInv, status = "finished"
  PROVE  Present(orders) = RoundNos
<1>1. 0 \in Seats
  BY RebuildAssumption DEF Seats
<1>2. \A r \in RoundNos : Filled(r)
  BY RebuildAssumption DEF MatchInv, Filled, RoundNos
<1>3. \A r \in RoundNos : orders[r][0] # NoOrder
  BY <1>1, <1>2 DEF MatchInv
<1> QED BY <1>1, <1>3 DEF Present

\* A transaction commits only when it has written every row, so that what it
\* leaves is the projection of the log it was computed from.
LEMMA CommitIsExact ==
  ASSUME MatchInv, QuietInv, status = "finished", NEW p \in Rebuilders, log[p] = orders, Commit(p)
  PROVE  rows' = Projection(orders)
<1>1. Present(orders) = RoundNos
  BY FinishedIsFull
<1>2. RoundNos \ Quiet \subseteq written[p]["events"] /\ RoundNos \subseteq written[p]["summary"]
  BY <1>1 DEF Commit, EventsLeft, SummaryLeft
<1>3. events' = [r \in RoundNos |-> EventsOf(orders, r)]
  <2>1. \A r \in RoundNos :
          (IF r \in written[p]["events"] THEN EventsOf(log[p], r)
           ELSE IF r \in dropped[p]["events"] THEN NoEvents ELSE events[r])
          = EventsOf(orders, r)
    <3> SUFFICES ASSUME NEW r \in RoundNos
                 PROVE  (IF r \in written[p]["events"] THEN EventsOf(log[p], r)
                         ELSE IF r \in dropped[p]["events"] THEN NoEvents ELSE events[r])
                        = EventsOf(orders, r)
      OBVIOUS
    <3>1. CASE r \in Quiet
      <4>1. EventsOf(orders, r) = NoEvents /\ events[r] = NoEvents
        BY <3>1 DEF EventsOf, QuietInv
      <4> QED BY <4>1
    <3>2. CASE r \notin Quiet
      BY <1>2, <3>2
    <3> QED BY <3>1, <3>2
  <2> QED BY <2>1 DEF Commit
<1>4. summary' = [r \in RoundNos |-> SubmittedOf(orders, r)]
  BY <1>2 DEF Commit
<1> QED BY <1>1, <1>3, <1>4 DEF rows, Projection

-------------------------------------------------------------------------------
(* While the match is played.                                                *)

\* A rebuild's log says of a seat what the match said up to some submission.
LogInv ==
  \A p \in Rebuilders, s \in Seats :
    /\ Human(log[p], s) \subseteq Human(orders, s)
    /\ \A r \in Human(orders, s) \ Human(log[p], s) : \A q \in Human(log[p], s) : q < r
CursorInv == \A s \in Seats : AtMost(Human(orders, s), cursor[s])

\* The log of a finished match is the whole of it, and stays so.
SettledInv ==
  \A p \in Rebuilders : begun[p] = "finished" => status = "finished" /\ log[p] = orders

PlayInv == MatchInv /\ RunInv /\ QuietInv /\ LogInv /\ CursorInv /\ SettledInv

LEMMA PlayInvInit ==
  ASSUME Init
  PROVE  PlayInv
<1>1. MatchInv
  BY MatchInvInit
<1>2. RunInv
  BY DEF Init, Idle, RunInv, Stages
<1>3. QuietInv
  BY RebuildAssumption DEF Init, QuietInv
<1>4. ASSUME NEW l, l = [r \in RoundNos |-> [s \in Seats |-> NoOrder]], NEW s \in Seats
      PROVE  Human(l, s) = {}
  BY <1>4 DEF Human, NoOrder
<1>5. LogInv
  <2>1. ASSUME NEW p \in Rebuilders, NEW s \in Seats PROVE Human(log[p], s) = {} /\ Human(orders, s) = {}
    BY <1>4 DEF Init, Idle
  <2> QED BY <2>1 DEF LogInv
<1>6. CursorInv
  <2>1. ASSUME NEW s \in Seats PROVE Human(orders, s) = {} /\ cursor[s] = 0
    BY <1>4 DEF Init
  <2>2. AtMost({}, 0)
    BY FS_EmptySet DEF AtMost
  <2> QED BY <2>1, <2>2 DEF CursorInv
<1>7. SettledInv
  BY DEF Init, Idle, SettledInv
<1> QED BY <1>1, <1>2, <1>3, <1>5, <1>6, <1>7 DEF PlayInv

LEMMA PlayInvStep ==
  ASSUME PlayInv, [Next]_vars
  PROVE  PlayInv'
<1>0. MatchInv /\ RunInv /\ QuietInv /\ LogInv /\ CursorInv /\ SettledInv
  BY DEF PlayInv
<1>1. MatchInv' /\ RunInv' /\ QuietInv'
  BY <1>0, MatchInvStep, RunInvStep, QuietInvStep
<1>2. LogInv'
  <2> SUFFICES ASSUME NEW p \in Rebuilders, NEW s \in Seats
               PROVE  /\ Human(log'[p], s) \subseteq Human(orders', s)
                      /\ \A r \in Human(orders', s) \ Human(log'[p], s) :
                           \A q \in Human(log'[p], s) : q < r
    BY DEF LogInv
  <2>1. CASE log'[p] = orders /\ UNCHANGED match
    BY <2>1 DEF match
  <2>2. CASE log'[p] = log[p]
    <3>1. PICK A, H, G : A = Human(log[p], s) /\ H = Human(orders, s) /\ G = Human(orders', s)
      OBVIOUS
    <3>2. A \subseteq H /\ \A r \in H \ A : \A q \in A : q < r
      BY <1>0, <3>1 DEF LogInv
    <3>3. Human(orders, s)' = Human(orders', s)
      BY DEF Human
    <3>4. G = H \/ (G = H \cup {round} /\ \A q \in H : q < round)
      BY <1>0, <3>1, <3>3, Submissions
    <3>5. A \subseteq G /\ \A r \in G \ A : \A q \in A : q < r
      BY <3>2, <3>4
    <3> QED BY <2>2, <3>1, <3>5
  <2> QED BY <1>0, <2>1, <2>2, Listing
<1>3. CursorInv'
  <2> SUFFICES ASSUME NEW s \in Seats PROVE AtMost(Human(orders, s), cursor[s])'
    BY DEF CursorInv
  <2>1. PICK H, G, c, d : /\ H = Human(orders, s) /\ G = Human(orders, s)'
                          /\ c = cursor[s] /\ d = cursor'[s]
    OBVIOUS
  <2>2. AtMost(H, c) /\ H \in SUBSET RoundNos
    BY <1>0, <2>1 DEF CursorInv, Human
  <2>3. CASE G = H /\ d = c
    BY <2>1, <2>2, <2>3 DEF AtMost
  <2>4. CASE G = H /\ \E p \in Rebuilders : RebuildLastSeenRounds(p)
    <3>1. PICK p \in Rebuilders : cursor' = Cursors(log[p])
      BY <2>4 DEF RebuildLastSeenRounds
    <3>2. PICK A : A = Human(log[p], s)
      OBVIOUS
    <3>3. PICK l : l = log[p]
      OBVIOUS
    <3>4. A \in SUBSET RoundNos /\ AtMost(A, d)
      BY <2>1, <3>1, <3>2, <3>3, CursorsExact, SeenIs DEF SeenBy, Human
    <3>5. A \subseteq H /\ \A r \in H \ A : \A q \in A : q < r
      BY <1>0, <2>1, <3>2 DEF LogInv
    <3>6. AtMost(H, d)
      BY <2>2, <3>4, <3>5, LaterRounds
    <3> QED BY <2>1, <2>4, <3>6 DEF AtMost
  <2>5. CASE G = H \cup {round} /\ round \in RoundNos /\ (\A q \in H : q < round) /\ d = Advance(c, round)
    <3>1. PICK k : k = round
      OBVIOUS
    <3>2. AtMost(G, d)
      BY <2>2, <2>5, <3>1, OneMoreRound
    <3> QED BY <2>1, <3>2 DEF AtMost
  <2> QED BY <1>0, <2>1, <2>3, <2>4, <2>5, Submissions
<1>4. SettledInv'
  <2> SUFFICES ASSUME NEW p \in Rebuilders, begun'[p] = "finished"
               PROVE  status' = "finished" /\ log'[p] = orders'
    BY DEF SettledInv
  <2>1. CASE log'[p] = orders /\ begun'[p] = status /\ UNCHANGED match
    BY <2>1 DEF match
  <2>2. CASE log'[p] = log[p] /\ begun'[p] = begun[p]
    <3>1. status = "finished" /\ log[p] = orders /\ tick = "open"
      BY <1>0, <2>2 DEF SettledInv, MatchInv
    <3>2. UNCHANGED match
      BY <3>1, TwoWorlds DEF Playing, OpenMatch, AppendOrder, Tick, WriteEvents, UpsertSummary, match
    <3> QED BY <2>2, <3>1, <3>2 DEF match
  <2> QED BY <1>0, <2>1, <2>2, Listing
<1> QED BY <1>1, <1>2, <1>3, <1>4 DEF PlayInv

\* However rebuilds race the submissions of a match that is being played, with
\* however old a log, no Recap cursor is past a round its seat has not seen
\* (D52, RebuildLastSeenRounds).
THEOREM CursorsBehind == Spec => []CursorNeverAhead
<1>1. Init => PlayInv
  BY PlayInvInit
<1>2. PlayInv /\ [Next]_vars => PlayInv'
  BY PlayInvStep
<1>3. PlayInv => CursorNeverAhead
  <2> SUFFICES ASSUME PlayInv, NEW s \in Seats PROVE cursor[s] <= SeenRounds(orders)[s]
    BY DEF CursorNeverAhead
  <2>1. PICK H, c, d : H = Human(orders, s) /\ c = SeenRounds(orders)[s] /\ d = cursor[s]
    OBVIOUS
  <2>2. PICK l : l = orders
    OBVIOUS
  <2>3. SeenBy(H, c) /\ AtMost(H, d) /\ H \in SUBSET RoundNos
    BY <2>1, <2>2, SeenIs DEF PlayInv, CursorInv, Human
  <2> QED BY <2>1, <2>3, SeenOnce
<1> QED BY <1>1, <1>2, <1>3, PTL DEF Spec

\* A rebuild that listed the log of a finished match and commits leaves the
\* tables that log stands for, whatever rebuilds with older logs have
\* committed since (rebuildMatch, writeEventsTx).
THEOREM SettledRebuilds == Spec => SettledCommitIsExact
<1>1. Init => PlayInv
  BY PlayInvInit
<1>2. PlayInv /\ [Next]_vars => PlayInv'
  BY PlayInvStep
<1>3. PlayInv /\ [Next]_vars =>
        \A p \in Rebuilders : pc[p] = "writing" /\ pc'[p] = "committed" /\ begun[p] = "finished"
                                => rows' = Projection(orders)
  <2> SUFFICES ASSUME PlayInv, [Next]_vars, NEW p \in Rebuilders,
                      pc[p] = "writing", pc'[p] = "committed", begun[p] = "finished"
               PROVE  rows' = Projection(orders)
    OBVIOUS
  <2>1. Commit(p)
    BY Progress DEF PlayInv
  <2>2. status = "finished" /\ log[p] = orders
    BY DEF PlayInv, SettledInv
  <2> QED BY <2>1, <2>2, CommitIsExact DEF PlayInv
<1> QED BY <1>1, <1>2, <1>3, PTL DEF Spec, SettledCommitIsExact

-------------------------------------------------------------------------------
(* Repairing a finished match.                                               *)

\* The stages after the log was listed, and those after the tables are in.
Listed    == {"folded", "deleting events", "cleared", "deleting summary", "writing",
              "committed", "done"}
TablesIn  == {"committed", "done"}

RepairInv ==
  /\ MatchInv /\ RunInv /\ QuietInv
  /\ status = "finished"
  /\ \A p \in Rebuilders :
       /\ pc[p] \in Listed => log[p] = orders
       /\ pc[p] \in TablesIn => rows = Projection(orders)
       /\ pc[p] = "done" => cursor = SeenRounds(orders)

LEMMA RepairInvInit ==
  ASSUME Damaged
  PROVE  RepairInv
<1>1. MatchInv
  <2>1. /\ status = "finished" /\ round = Rounds /\ tick = "open"
        /\ orders \in [RoundNos -> [Seats -> {Default} \cup
                         [source : {"human", "bot"}, draft : {1}]]]
    BY DEF Damaged
  <2>2. ASSUME NEW r \in RoundNos, NEW s \in Seats
        PROVE  orders[r][s] # NoOrder /\ orders[r][s].source \in {"human", "bot", "default"}
    <3>1. orders[r][s] = Default \/ orders[r][s] \in [source : {"human", "bot"}, draft : {1}]
      BY <2>1
    <3>2. CASE orders[r][s] = Default
      BY <3>2 DEF Default, NoOrder
    <3>3. CASE orders[r][s] \in [source : {"human", "bot"}, draft : {1}]
      BY <3>3 DEF NoOrder
    <3> QED BY <3>1, <3>2, <3>3
  <2>3. orders = [r \in RoundNos |-> [s \in Seats |-> orders[r][s]]]
    BY <2>1
  <2>4. Rounds \in Nat /\ \A r \in RoundNos : ~(r > Rounds) /\ Filled(r)
    BY <2>1, RebuildAssumption DEF RoundNos, Filled
  <2> QED BY <2>1, <2>2, <2>3, <2>4 DEF MatchInv
<1>2. RunInv
  BY DEF Damaged, Idle, RunInv, Stages
<1>3. QuietInv
  <2> SUFFICES ASSUME NEW r \in Quiet PROVE events[r] = NoEvents
    BY DEF QuietInv
  <2>1. r \in RoundNos /\ EventsOf(orders, r) = NoEvents
    BY RebuildAssumption DEF EventsOf
  <2>2. Projection(orders)[1][r] = NoEvents
    BY <2>1 DEF Projection
  <2>3. PICK lost : events = [q \in RoundNos |-> IF q \in lost THEN NoEvents
                                                 ELSE Projection(orders)[1][q]]
    BY DEF Damaged
  <2> QED BY <2>1, <2>2, <2>3
<1>4. \A p \in Rebuilders : pc[p] = "idle"
  BY DEF Damaged, Idle
<1> QED BY <1>1, <1>2, <1>3, <1>4 DEF RepairInv, Damaged, Listed, TablesIn

\* Only a commit touches the tables of a finished match.
LEMMA OnlyCommits ==
  ASSUME MatchInv, status = "finished", [Next]_vars
  PROVE  /\ UNCHANGED match
         /\ rows' = rows \/ \E p \in Rebuilders : Commit(p)
         /\ cursor' = cursor \/ \E p \in Rebuilders : RebuildLastSeenRounds(p)
<1>1. tick = "open"
  BY DEF MatchInv
<1>2. ~Playing
  BY <1>1 DEF Playing, OpenMatch, AppendOrder, Tick, WriteEvents, UpsertSummary
<1>3. rows' = rows \/ \E p \in Rebuilders : Commit(p)
  BY <1>2 DEF Next, LoadMatch, Rebuilding, ListOrders, StartDelete, EndDelete, InsertEvents,
     PutSummary, RebuildLastSeenRounds, DeadlockDetected, Crash, AllQuiet, vars
<1> QED BY <1>2, <1>3, TwoWorlds

LEMMA RepairInvStep ==
  ASSUME RepairInv, [Next]_vars
  PROVE  RepairInv'
<1>0. MatchInv /\ RunInv /\ QuietInv /\ status = "finished"
  BY DEF RepairInv
<1>1. MatchInv' /\ RunInv' /\ QuietInv'
  BY <1>0, MatchInvStep, RunInvStep, QuietInvStep
<1>2. orders' = orders /\ status' = "finished"
  BY <1>0, OnlyCommits DEF match
<1>3. \A q \in Rebuilders : Commit(q) => rows' = Projection(orders)
  <2> SUFFICES ASSUME NEW q \in Rebuilders, Commit(q) PROVE rows' = Projection(orders)
    OBVIOUS
  <2>1. log[q] = orders
    BY DEF Commit, RepairInv, Listed
  <2> QED BY <1>0, <2>1, CommitIsExact
<1>4. \A q \in Rebuilders : RebuildLastSeenRounds(q) => cursor' = SeenRounds(orders) /\ rows' = rows
  <2> SUFFICES ASSUME NEW q \in Rebuilders, RebuildLastSeenRounds(q)
               PROVE  cursor' = SeenRounds(orders) /\ rows' = rows
    OBVIOUS
  <2>1. log[q] = orders /\ cursor' = Cursors(log[q]) /\ rows' = rows
    BY DEF RebuildLastSeenRounds, Go, RepairInv, Listed
  <2>2. PICK l : l = orders
    OBVIOUS
  <2>3. Cursors(l) = SeenRounds(l)
    BY CursorsExact
  <2> QED BY <2>1, <2>2, <2>3
<1>5. rows' = rows \/ rows' = Projection(orders)
  BY <1>0, <1>3, OnlyCommits
<1>6. cursor' = cursor \/ cursor' = SeenRounds(orders)
  BY <1>0, <1>4, OnlyCommits
<1>7. Projection(orders)' = Projection(orders) /\ SeenRounds(orders)' = SeenRounds(orders)
  BY <1>2 DEF Projection, SeenRounds, Present, EventsOf, SubmittedOf
<1>8. ASSUME NEW p \in Rebuilders
      PROVE  /\ pc'[p] \in Listed => log'[p] = orders'
             /\ pc'[p] \in TablesIn => rows' = Projection(orders)
             /\ pc'[p] = "done" => cursor' = SeenRounds(orders)
  <2>1. log'[p] = log[p] \/ log'[p] = orders
    BY <1>0, Listing
  <2>2. ListOrders(p) => log'[p] = orders
    BY <1>0 DEF ListOrders, RunInv
  <2>3. pc'[p] \in Listed => log[p] = orders \/ log'[p] = orders
    BY <1>0, <2>2, Progress DEF RepairInv, Listed
  <2>4. pc'[p] \in TablesIn => pc[p] \in TablesIn \/ Commit(p)
    BY <1>0, Progress DEF TablesIn
  <2>5. pc'[p] = "done" => pc[p] = "done" \/ RebuildLastSeenRounds(p)
    BY <1>0, Progress
  <2>6. pc[p] \in TablesIn => rows = Projection(orders)
    BY DEF RepairInv
  <2>7. pc[p] = "done" => cursor = SeenRounds(orders)
    BY DEF RepairInv
  <2> QED BY <1>2, <1>3, <1>4, <1>5, <1>6, <2>1, <2>3, <2>4, <2>5, <2>6, <2>7
<1>9. ASSUME NEW p \in Rebuilders
      PROVE  (/\ pc[p] \in Listed => log[p] = orders
              /\ pc[p] \in TablesIn => rows = Projection(orders)
              /\ pc[p] = "done" => cursor = SeenRounds(orders))'
  BY <1>7, <1>8 DEF Listed, TablesIn, rows
<1> QED BY <1>1, <1>2, <1>9 DEF RepairInv

\* The two tables of a finished match change together and only to what its log
\* says, whichever rebuilds run, die or deadlock (projections.go).
THEOREM NeverHalf == RepairSpec => NeverHalfRebuilt
<1>1. Damaged => RepairInv
  BY RepairInvInit
<1>2. RepairInv /\ [Next]_vars => RepairInv'
  BY RepairInvStep
<1>3. RepairInv /\ [Next]_vars => (rows' # rows => rows' = Projection(orders))
  <2> SUFFICES ASSUME RepairInv, [Next]_vars, rows' # rows PROVE rows' = Projection(orders)
    OBVIOUS
  <2>1. PICK p \in Rebuilders : Commit(p)
    BY OnlyCommits DEF RepairInv
  <2>2. log[p] = orders
    BY <2>1 DEF Commit, RepairInv, Listed
  <2> QED BY <2>1, <2>2, CommitIsExact DEF RepairInv
<1> QED BY <1>1, <1>2, <1>3, PTL DEF RepairSpec, NeverHalfRebuilt

\* A rebuild that reports success has repaired all three projections, whatever
\* was damaged and whatever other rebuilds did or died doing (rebuildMatch).
THEOREM SuccessRepairs == RepairSpec => []SuccessIsExact
<1>1. Damaged => RepairInv
  BY RepairInvInit
<1>2. RepairInv /\ [Next]_vars => RepairInv'
  BY RepairInvStep
<1>3. RepairInv => SuccessIsExact
  BY DEF RepairInv, SuccessIsExact, TablesIn
<1> QED BY <1>1, <1>2, <1>3, PTL DEF RepairSpec

-------------------------------------------------------------------------------
(* Types.                                                                    *)

\* The least member of a non-empty set of numbers is one of them.
LEMMA MinMember ==
  ASSUME NEW D, D \subseteq Nat, D # {}
  PROVE  Min(D) \in D
<1>1. PICK d : d \in D
  OBVIOUS
<1>2. PICK Low : Low = {c \in D : c <= d}
  OBVIOUS
<1>3. Low \in SUBSET Nat /\ Low # {} /\ IsFiniteSet(Low)
  <2>1. d \in Nat /\ Low \subseteq 0 .. d /\ d \in Low
    <3>1. d \in Nat /\ d <= d /\ \A c \in D : c \in Nat
      BY <1>1
    <3>2. \A c \in D : c <= d => c \in 0 .. d
      BY <3>1
    <3> QED BY <1>1, <1>2, <3>1, <3>2
  <2>2. IsFiniteSet(0 .. d)
    BY <2>1, FS_Interval
  <2> QED BY <1>2, <2>1, <2>2, FS_Subset
<1>4. PICK b \in Low : \A c \in Low : b <= c
  BY <1>3, HasLeast
<1>5. b \in D /\ \A c \in D : b <= c
  <2> SUFFICES ASSUME NEW c \in D PROVE b <= c
    BY <1>2
  <2>1. b \in Nat /\ b <= d /\ c \in Nat /\ d \in Nat
    BY <1>1, <1>2
  <2>2. CASE c <= d
    BY <1>2, <1>4, <2>2
  <2>3. CASE ~(c <= d)
    BY <2>1, <2>3
  <2> QED BY <2>2, <2>3
<1> QED BY <1>5 DEF Min

\* What a seat has seen stays short of the last round.
LEMMA NeverTheLast ==
  ASSUME NEW H \in SUBSET RoundNos, NEW c, AtMost(H, c)
  PROVE  c \in 0 .. Rounds - 1
<1>1. c \in Nat /\ Rounds \in Nat /\ Rounds >= 1
  BY RebuildAssumption DEF AtMost
<1>2. CASE H = {}
  BY <1>1, <1>2, FS_EmptySet DEF AtMost
<1>3. CASE H # {}
  <2>1. PICK r \in H : TRUE
    BY <1>3
  <2>2. r \in Nat /\ r >= 1 /\ r <= Rounds
    BY RoundsFinite
  <2>3. PICK n : n = Cardinality(Later(H, r))
    OBVIOUS
  <2>4. c <= r - 1 + n
    BY <2>3 DEF AtMost
  <2>5. Later(H, r) \in SUBSET (r + 1 .. Rounds)
    <3>1. \A q \in H : q \in Nat /\ q <= Rounds
      BY RoundsFinite
    <3>2. \A q \in H : q > r => q \in r + 1 .. Rounds
      BY <1>1, <2>2, <3>1
    <3> QED BY <3>2 DEF Later
  <2>6. IsFiniteSet(r + 1 .. Rounds) /\ Cardinality(r + 1 .. Rounds) = Rounds - r
    <3>1. PICK k : k = r + 1
      OBVIOUS
    <3>2. k \in Int /\ Rounds \in Int /\ (k > Rounds => Rounds - r = 0) /\ Rounds - k + 1 = Rounds - r
      BY <1>1, <2>2, <3>1
    <3> QED BY <3>1, <3>2, FS_Interval
  <2>7. n \in Nat /\ n <= Rounds - r
    <3>1. PICK W : W = r + 1 .. Rounds
      OBVIOUS
    <3>2. Cardinality(W) = Rounds - r /\ IsFiniteSet(W) /\ Later(H, r) \in SUBSET W
      BY <2>5, <2>6, <3>1
    <3>3. IsFiniteSet(Later(H, r)) /\ Cardinality(Later(H, r)) <= Cardinality(W)
      BY <3>2, FS_Subset
    <3>4. n \in Nat
      BY <2>3, <3>3, FS_CardinalityType
    <3> QED BY <2>3, <3>2, <3>3, <3>4
  <2> QED BY <1>1, <2>2, <2>4, <2>7
<1> QED BY <1>2, <1>3

OrderType ==
  \A r \in RoundNos, s \in Seats :
    /\ orders[r][s].source \in {"none", "human", "bot", "default"}
    /\ orders[r][s].draft \in Drafts[s] \cup {0}
RowType ==
  /\ \A r \in RoundNos : Len(events[r]) \in {0, r} /\ summary[r] \in (SUBSET Seats) \cup {NoSummary}
  /\ events = [r \in RoundNos |-> events[r]] /\ summary = [r \in RoundNos |-> summary[r]]
TxType ==
  /\ seen \in [Rebuilders -> SUBSET RoundNos]
  /\ dropped \in [Rebuilders -> [Tables -> SUBSET RoundNos]]
  /\ written \in [Rebuilders -> [Tables -> SUBSET RoundNos]]
  /\ runs \in 0 .. MaxRuns

LEMMA OrderTypeStep ==
  ASSUME MatchInv, OrderType, [Next]_vars
  PROVE  OrderType'
<1>0. MatchInv /\ \A r \in RoundNos : r \in Nat /\ r >= 1 /\ r <= Rounds
  BY RebuildAssumption DEF RoundNos
<1>1. CASE UNCHANGED orders
  BY <1>1 DEF OrderType
<1>2. ASSUME NEW t \in Seats, NEW d \in Drafts[t], AppendOrder(t, d) PROVE OrderType'
  <2>1. PICK o : o = [source |-> "human", draft |-> d]
    OBVIOUS
  <2>2. o.source = "human" /\ o.draft = d
    BY <2>1
  <2>3. orders' = [r \in RoundNos |-> [s \in Seats |->
                     IF r = round /\ s = t THEN o ELSE orders[r][s]]]
    BY <1>0, <1>2, <2>1 DEF AppendOrder, MatchInv
  <2> QED BY <2>2, <2>3 DEF OrderType
<1>3. CASE Tick
  <2>1. round \in RoundNos
    BY <1>3, RebuildAssumption DEF Tick, MatchInv, RoundNos
  <2>2. PICK f : f = [s \in Seats |->
                   IF s \in Bots THEN [source |-> "bot", draft |-> Min(Drafts[s])]
                   ELSE IF orders[round][s] = NoOrder THEN Default ELSE orders[round][s]]
    OBVIOUS
  <2>3. \A s \in Seats : Min(Drafts[s]) \in Drafts[s]
    BY MinMember, RebuildAssumption
  <2>4. \A s \in Seats : /\ f[s].source \in {"none", "human", "bot", "default"}
                         /\ f[s].draft \in Drafts[s] \cup {0}
    BY <2>1, <2>2, <2>3 DEF OrderType, Default
  <2>5. orders' = [r \in RoundNos |-> [s \in Seats |-> IF r = round THEN f[s] ELSE orders[r][s]]]
    BY <1>3, <2>1, <2>2 DEF Tick, MatchInv
  <2> QED BY <2>4, <2>5 DEF OrderType
<1> QED BY <1>1, <1>2, <1>3, TwoWorlds DEF match, Playing, OpenMatch, WriteEvents, UpsertSummary

LEMMA RowTypeStep ==
  ASSUME MatchInv, RowType, [Next]_vars
  PROVE  RowType'
<1>0. /\ \A l, r : r \in RoundNos => Len(EventsOf(l, r)) \in {0, r}
      /\ \A l, r : SubmittedOf(l, r) \in SUBSET Seats
  <2>1. ASSUME NEW l, NEW r \in RoundNos PROVE Len(EventsOf(l, r)) \in {0, r}
    <3>1. r \in Nat
      BY RebuildAssumption DEF RoundNos
    <3>2. CASE r \in Quiet
      <4>1. EventsOf(l, r) = << >>
        BY <3>2 DEF EventsOf, NoEvents
      <4> QED BY <4>1
    <3>3. CASE r \notin Quiet
      <4>1. PICK x : x = [q \in 1 .. r |-> [s \in Seats |-> l[q][s].draft]]
        OBVIOUS
      <4>2. Len(x) = r
        BY <3>1, <4>1
      <4>3. EventsOf(l, r) = x
        BY <3>3, <4>1 DEF EventsOf
      <4> QED BY <4>2, <4>3
    <3> QED BY <3>2, <3>3
  <2> QED BY <2>1 DEF SubmittedOf
<1>1. Len(NoEvents) = 0
  BY DEF NoEvents
<1>2. CASE WriteEvents
  <2>1. summary' = summary
    BY <1>2 DEF WriteEvents
  <2>2. events' = events \/ events' = [events EXCEPT ![round] = EventsOf(orders, round)]
    BY <1>2 DEF WriteEvents
  <2>3. PICK x : x = EventsOf(orders, round)
    OBVIOUS
  <2>4. round \in RoundNos => Len(x) \in {0, round}
    BY <1>0, <2>3
  <2> QED BY <2>1, <2>2, <2>3, <2>4 DEF RowType
<1>3. CASE UpsertSummary
  BY <1>0, <1>3 DEF UpsertSummary, RowType
<1>4. ASSUME NEW p \in Rebuilders, Commit(p) PROVE RowType'
  <2>1. PICK e : e = [r \in RoundNos |-> EventsOf(log[p], r)]
    OBVIOUS
  <2>2. \A r \in RoundNos : Len(e[r]) \in {0, r}
    BY <1>0, <2>1
  <2>3. /\ events' = [r \in RoundNos |-> events'[r]]
        /\ \A r \in RoundNos : events'[r] = e[r] \/ events'[r] = NoEvents \/ events'[r] = events[r]
    BY <1>4, <2>1 DEF Commit
  <2>4. \A r \in RoundNos : Len(events'[r]) \in {0, r}
    BY <1>1, <2>2, <2>3 DEF RowType
  <2>5. /\ summary' = [r \in RoundNos |-> summary'[r]]
        /\ \A r \in RoundNos : \/ summary'[r] = SubmittedOf(log[p], r)
                               \/ summary'[r] = NoSummary \/ summary'[r] = summary[r]
    BY <1>4 DEF Commit
  <2>6. \A r \in RoundNos : summary'[r] \in (SUBSET Seats) \cup {NoSummary}
    BY <1>0, <2>5 DEF RowType
  <2> QED BY <2>3, <2>4, <2>5, <2>6 DEF RowType
<1>5. CASE UNCHANGED rows
  BY <1>5 DEF rows, RowType
<1> QED BY <1>2, <1>3, <1>4, <1>5 DEF Next, Playing, OpenMatch, AppendOrder, Tick, LoadMatch,
        Rebuilding, ListOrders, StartDelete, EndDelete, InsertEvents, PutSummary, RebuildLastSeenRounds,
        DeadlockDetected, Crash, AllQuiet, vars

LEMMA TxTypeStep ==
  ASSUME TxType, [Next]_vars
  PROVE  TxType'
<1>0. Tables = {"events", "summary"} /\ NoRows \in [Tables -> SUBSET RoundNos] /\ MaxRuns \in Nat
  BY RebuildAssumption DEF NoRows, Tables
<1>1. CASE Playing \/ UNCHANGED vars
  BY <1>1 DEF Playing, OpenMatch, AppendOrder, Tick, WriteEvents, UpsertSummary, vars, tx, TxType
<1>2. ASSUME NEW p \in Rebuilders, LoadMatch(p) PROVE TxType'
  BY <1>0, <1>2 DEF LoadMatch, tx, TxType
<1>3. ASSUME NEW p \in Rebuilders, ListOrders(p) \/ RebuildLastSeenRounds(p) PROVE TxType'
  BY <1>3 DEF ListOrders, RebuildLastSeenRounds, tx, TxType
<1>4. ASSUME NEW p \in Rebuilders, NEW t \in Tables, NEW from, StartDelete(p, t, from) PROVE TxType'
  <2>1. Found(t) \subseteq RoundNos
    BY DEF Found
  <2> QED BY <1>4, <2>1 DEF StartDelete, TxType
<1>5. ASSUME NEW p \in Rebuilders, NEW t \in Tables, NEW to, EndDelete(p, t, to) PROVE TxType'
  BY <1>5 DEF EndDelete, TxType
<1>6. ASSUME NEW p \in Rebuilders, NEW to, RollBack(p, to), runs' = runs PROVE TxType'
  BY <1>0, <1>6 DEF RollBack, TxType
<1>7. ASSUME NEW p \in Rebuilders, NEW t \in Tables, NEW r \in RoundNos,
             written' = [written EXCEPT ![p][t] = @ \cup {r}], UNCHANGED <<seen, dropped, runs>>
      PROVE  TxType'
  BY <1>7 DEF TxType
<1>8. ASSUME NEW p \in Rebuilders, InsertEvents(p) PROVE TxType'
  <2>1. PICK r : r = Min(EventsLeft(p))
    OBVIOUS
  <2>2. r \in RoundNos
    <3>1. EventsLeft(p) \subseteq RoundNos /\ EventsLeft(p) # {}
      BY <1>8 DEF InsertEvents, EventsLeft, Present
    <3>2. EventsLeft(p) \subseteq Nat
      BY <3>1, RebuildAssumption DEF RoundNos
    <3> QED BY <2>1, <3>1, <3>2, MinMember
  <2>3. \/ RollBack(p, "failed") /\ runs' = runs
        \/ written' = [written EXCEPT ![p]["events"] = @ \cup {r}] /\ UNCHANGED <<seen, dropped, runs>>
    BY <1>8, <2>1 DEF InsertEvents
  <2> QED BY <1>0, <1>6, <1>7, <2>2, <2>3
<1>9. ASSUME NEW p \in Rebuilders, PutSummary(p) PROVE TxType'
  <2>1. PICK r : r = Min(SummaryLeft(p))
    OBVIOUS
  <2>2. r \in RoundNos
    <3>1. SummaryLeft(p) \subseteq RoundNos /\ SummaryLeft(p) # {}
      BY <1>9 DEF PutSummary, SummaryLeft, Present
    <3>2. SummaryLeft(p) \subseteq Nat
      BY <3>1, RebuildAssumption DEF RoundNos
    <3> QED BY <2>1, <3>1, <3>2, MinMember
  <2>3. written' = [written EXCEPT ![p]["summary"] = @ \cup {r}] /\ UNCHANGED <<seen, dropped, runs>>
    BY <1>9, <2>1 DEF PutSummary
  <2> QED BY <1>0, <1>7, <2>2, <2>3
<1>10. ASSUME NEW p \in Rebuilders, Commit(p) PROVE TxType'
  BY <1>0, <1>10 DEF Commit, TxType
<1>11. ASSUME NEW p \in Rebuilders, DeadlockDetected(p) \/ Crash(p) PROVE TxType'
  BY <1>6, <1>11 DEF DeadlockDetected, Crash
<1> QED BY <1>0, <1>1, <1>2, <1>3, <1>4, <1>5, <1>8, <1>9, <1>10, <1>11 DEF Next, Rebuilding, AllQuiet

\* The shapes and ranges of everything, and no cursor reaches the last round.
THEOREM TypeCorrect == Spec => []TypeOK
<1> DEFINE I == PlayInv /\ OrderType /\ RowType /\ TxType
<1>1. Init => I
  <2> SUFFICES ASSUME Init PROVE I
    OBVIOUS
  <2>1. OrderType
    BY DEF Init, OrderType, NoOrder
  <2>2. RowType
    <3>1. events = [r \in RoundNos |-> << >>] /\ summary = [r \in RoundNos |-> NoSummary]
      BY DEF Init, NoEvents
    <3>2. Len(<< >>) = 0 /\ \A r \in RoundNos : events[r] = << >> /\ summary[r] = NoSummary
      BY <3>1
    <3>3. \A r \in RoundNos : Len(events[r]) \in {0, r}
      BY <3>2
    <3> QED BY <3>1, <3>2, <3>3 DEF RowType
  <2>3. TxType
    BY RebuildAssumption DEF Init, Idle, TxType, NoRows
  <2> QED BY <2>1, <2>2, <2>3, PlayInvInit
<1>2. I /\ [Next]_vars => I'
  BY PlayInvStep, OrderTypeStep, RowTypeStep, TxTypeStep DEF PlayInv
<1>3. I => TypeOK
  <2> SUFFICES ASSUME I PROVE TypeOK
    OBVIOUS
  <2>1. cursor \in [Seats -> 0 .. Rounds - 1]
    <3>1. ASSUME NEW s \in Seats PROVE cursor[s] \in 0 .. Rounds - 1
      <4>1. PICK H, c : H = Human(orders, s) /\ c = cursor[s]
        OBVIOUS
      <4>2. H \in SUBSET RoundNos /\ AtMost(H, c)
        BY <4>1 DEF PlayInv, CursorInv, Human
      <4> QED BY <4>1, <4>2, NeverTheLast
    <3> QED BY <3>1 DEF PlayInv, RunInv
  <2>2. /\ status \in {"lobby", "active", "finished"} /\ round \in 0 .. Rounds
        /\ tick \in {"open", "events", "summary"}
    BY DEF PlayInv, MatchInv
  <2>3. /\ \A p \in Rebuilders, t \in Tables :
             dropped[p][t] \cup written[p][t] \cup seen[p] \subseteq RoundNos
        /\ runs \in 0 .. MaxRuns
    BY DEF TxType
  <2> QED BY <2>1, <2>2, <2>3 DEF OrderType, RowType, TypeOK
<1> HIDE DEF I
<1> QED BY <1>1, <1>2, <1>3, PTL DEF Spec

===============================================================================
