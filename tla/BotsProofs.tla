------------------------------- MODULE BotsProofs -------------------------------
(***************************************************************************)
(* For any map, costs, fights and offers: every tier decides a legal order; *)
(* what a Runner or an Operator adds on is covered, one shakedown included;  *)
(* its leases are renewed in time unless they are torched; and a Runner      *)
(* plans to go straight for what it can reach.                               *)
(***************************************************************************)
EXTENDS Bots, FiniteSetTheorems, WellFoundedInduction, TLAPS

\* Among sets of members of a finite set, one contains no other.
LEMMA HasMinimal ==
  ASSUME NEW S, IsFiniteSet(S), NEW T, T \subseteq SUBSET S, T # {}
  PROVE  \E x \in T : \A y \in T : ~(<<y, x>> \in StrictSubsetOrdering(S))
<1>1. IsWellFoundedOn(StrictSubsetOrdering(S), FiniteSubsetsOf(S))
  BY FS_StrictSubsetOrderingWellFounded
<1>2. T \subseteq FiniteSubsetsOf(S)
  BY FS_Subset DEF FiniteSubsetsOf
<1> QED  BY <1>1, <1>2, WFMin

\* R orders S strictly and totally.
Orders(R, S) ==
  /\ \A x \in S : <<x, x>> \notin R
  /\ \A x, y \in S : x # y => <<x, y>> \in R \/ <<y, x>> \in R
  /\ \A x, y, z \in S : <<x, y>> \in R /\ <<y, z>> \in R => <<x, z>> \in R

\* A strict total order has a first member on a finite set.
LEMMA HasFirst ==
  ASSUME NEW S, IsFiniteSet(S), S # {}, NEW R, Orders(R, S)
  PROVE  \E x \in S : \A y \in S \ {x} : <<x, y>> \in R
<1> DEFINE Below(x) == {y \in S : <<y, x>> \in R}
           Belows   == {Below(x) : x \in S}
<1>1. PICK T \in Belows : \A U \in Belows : ~(<<U, T>> \in StrictSubsetOrdering(S))
  <2>1. Belows \subseteq SUBSET S
    BY Zenon
  <2>2. Belows # {}
    <3> PICK s \in S : TRUE
      OBVIOUS
    <3> Below(s) \in Belows
      OBVIOUS
    <3> QED  OBVIOUS
  <2> HIDE DEF Belows
  <2> QED  BY <2>1, <2>2, HasMinimal
<1>2. PICK x \in S : T = Below(x)
  OBVIOUS
<1>3. ASSUME NEW y \in S \ {x}
      PROVE  <<x, y>> \in R
  <2>1. SUFFICES ASSUME <<y, x>> \in R PROVE FALSE
    BY DEF Orders
  <2>2. Below(y) \subseteq Below(x) /\ y \in Below(x) /\ y \notin Below(y)
    BY <2>1 DEF Orders
  <2>3. Below(y) \in SUBSET S /\ Below(x) \in SUBSET S /\ Below(y) # Below(x) /\ Below(y) \in Belows
    BY <2>2
  <2>4. <<Below(y), Below(x)>> \in StrictSubsetOrdering(S)
    <3> HIDE DEF Below
    <3> QED  BY <2>2, <2>3 DEF StrictSubsetOrdering
  <2> QED  BY <1>1, <1>2, <2>3, <2>4
<1> QED  BY <1>3

\* So a non-empty finite set of integers has a least member.
LEMMA HasLeast ==
  ASSUME NEW S \in SUBSET Int, S # {}, IsFiniteSet(S)
  PROVE  \E b \in S : \A c \in S : b <= c
<1> DEFINE R == {p \in S \X S : p[1] < p[2]}
<1>1. \A x, y \in S : <<x, y>> \in R <=> x < y
  OBVIOUS
<1> HIDE DEF R
<1>2. \E x \in S : \A y \in S \ {x} : <<x, y>> \in R
  <2>1. S \subseteq Int
    OBVIOUS
  <2>2. Orders(R, S)
    BY <1>1, <2>1 DEF Orders
  <2> QED  BY <2>2, HasFirst
<1>3. PICK x \in S : \A y \in S \ {x} : <<x, y>> \in R
  BY <1>2
<1>4. \A y \in S : x <= y
  <2> TAKE y \in S
  <2>1. x \in Int /\ y \in Int
    OBVIOUS
  <2>2. CASE x = y
    BY <2>1, <2>2
  <2>3. CASE x # y
    <3>1. <<x, y>> \in R
      BY <1>3, <2>3
    <3>2. x < y
      BY <1>1, <3>1, Zenon
    <3> QED  BY <2>1, <3>2
  <2> QED  BY <2>2, <2>3
<1> QED  BY <1>4

\* First, by number, is the least.
LEMMA FirstIsLeast ==
  ASSUME NEW S \in SUBSET Int, S # {}, IsFiniteSet(S)
  PROVE  First(S, Lower) \in S /\ \A c \in S : First(S, Lower) <= c
<1>1. PICK b \in S : \A c \in S : b <= c
  BY HasLeast
<1>2. \A c \in S \ {b} : b < c
  BY <1>1
<1>3. PICK x : x = First(S, Lower)
  OBVIOUS
<1>4. x \in S /\ \A c \in S \ {x} : x < c
  BY <1>2, <1>3 DEF First, Lower
<1>5. \A c \in S : x <= c
  BY <1>4
<1> QED  BY <1>3, <1>4, <1>5

\* Where a function takes integer values, it is least somewhere.
LEMMA LeastAreLeast ==
  ASSUME NEW S, S # {}, IsFiniteSet(S), NEW f, \A x \in S : f[x] \in Int
  PROVE  /\ LeastOn(S, f) # {} /\ LeastOn(S, f) \subseteq S
         /\ \A x \in LeastOn(S, f), y \in S : f[x] <= f[y]
<1> DEFINE V == {f[x] : x \in S}
<1>1. V \in SUBSET Int /\ V # {}
  OBVIOUS
<1>1a. IsFiniteSet(V)
  <2> DEFINE g == [x \in S |-> f[x]]
  <2>1. g \in Surjection(S, V)
    BY DEF Surjection
  <2> HIDE DEF g, V
  <2> QED  BY <2>1, FS_Surjection
<1>2. First(V, Lower) \in V /\ \A c \in V : First(V, Lower) <= c
  <2> HIDE DEF V
  <2> QED BY <1>1, <1>1a, FirstIsLeast
<1>3. PICK least : least = First(V, Lower)
  OBVIOUS
<1>4. LeastOn(S, f) = {x \in S : f[x] = least}
  BY <1>3 DEF LeastOn
<1> QED  BY <1>2, <1>3, <1>4

-------------------------------------------------------------------------------
(* Recursion.                                                                *)

\* What holds of stage 0, and of each stage if of the one before, holds of all.
LEMMA AllStages ==
  ASSUME NEW n \in Nat, NEW good \in SUBSET (0 .. n), 0 \in good,
         \A k \in 1 .. n : k - 1 \in good => k \in good
  PROVE  \A k \in 0 .. n : k \in good
<1> DEFINE bad == (0 .. n) \ good
<1>1. CASE bad # {}
  <2>1. PICK b \in bad : \A c \in bad : b <= c
    <3>1. bad \in SUBSET (0 .. n) /\ bad \in SUBSET Int
      OBVIOUS
    <3> HIDE DEF bad
    <3>2. IsFiniteSet(0 .. n)
      BY FS_Interval
    <3>3. IsFiniteSet(bad)
      BY <3>1, <3>2, FS_Subset
    <3> QED  BY <1>1, <3>1, <3>3, HasLeast
  <2>2. b \in 1 .. n /\ b - 1 \in 0 .. n /\ ~(b <= b - 1)
    BY <2>1
  <2> QED  BY <2>1, <2>2
<1> QED  BY <1>1

\* R goes from x0 by g, n times.
Runs(R, g, x0, n) == R[0] = x0 /\ \A k \in 1 .. n : R[k] = g[R[k - 1]]

\* What is computed from each stage to the next has a stage for each number.
LEMMA HasStages ==
  ASSUME NEW X, NEW g \in [X -> X], NEW x0 \in X, NEW n \in Nat
  PROVE  \E R \in [0 .. n -> X] : Runs(R, g, x0, n)
<1> DEFINE good == {m \in 0 .. n : \E R \in [0 .. m -> X] : Runs(R, g, x0, m)}
<1>1. 0 \in good
  <2>1. PICK R : R = [k \in 0 .. 0 |-> x0]
    OBVIOUS
  <2>2. R \in [0 .. 0 -> X] /\ Runs(R, g, x0, 0)
    BY <2>1 DEF Runs
  <2> QED  BY <2>2
<1>2. ASSUME NEW b \in 1 .. n, b - 1 \in good
      PROVE  b \in good
  <2>1. PICK Q \in [0 .. b - 1 -> X] : Runs(Q, g, x0, b - 1)
    BY <1>2
  <2>2. PICK R : R = [k \in 0 .. b |-> IF k = b THEN g[Q[b - 1]] ELSE Q[k]]
    OBVIOUS
  <2>3. \A k \in 0 .. b - 1 : R[k] = Q[k] /\ R[k] \in X
    BY <2>2
  <2>4. R[b] = g[R[b - 1]] /\ R[b] \in X
    BY <2>2, <2>3
  <2>5. R \in [0 .. b -> X]
    <3>1. \A k \in 0 .. b : R[k] \in X
      BY <2>3, <2>4
    <3> QED  BY <2>2, <3>1
  <2>6. R[0] = x0
    BY <2>1, <2>3 DEF Runs
  <2>7. ASSUME NEW k \in 1 .. b PROVE R[k] = g[R[k - 1]]
    <3>1. CASE k = b
      BY <2>4, <3>1
    <3>2. CASE k # b
      BY <2>1, <2>3, <3>2 DEF Runs
    <3> QED  BY <3>1, <3>2
  <2>8. Runs(R, g, x0, b)
    BY <2>6, <2>7 DEF Runs
  <2> QED  BY <2>5, <2>8
<1>3. n \in good
  <2>1. good \in SUBSET (0 .. n) /\ n \in 0 .. n
    OBVIOUS
  <2> HIDE DEF good
  <2> QED  BY <1>1, <1>2, <2>1, AllStages
<1> QED  BY <1>3

-------------------------------------------------------------------------------
(* Routes.                                                                   *)

\* The stages of Routes: every walk of a stage, and those one step longer.
Longer(v, X) ==
  X \cup {Append(w[1], w[2]) : w \in
            {x \in X \X Nodes : x[2] \in Edges(v, EndOf(v, x[1])) /\ v.fog[x[2]] # Rumoured}}
\* Routes' own table of routes, by length at most.
RouteStages(v, R) ==
  R = [k \in 0 .. v.steps |-> IF k = 0 THEN {<<>>}
                              ELSE R[k - 1] \cup
         {Append(w[1], w[2]) : w \in
            {x \in R[k - 1] \X Nodes :
               x[2] \in Edges(v, EndOf(v, x[1])) /\ v.fog[x[2]] # Rumoured}}]

\* Routes is what such a table ends with.
LEMMA RoutesGrow ==
  ASSUME NEW v, v.steps \in Nat
  PROVE  \E R : /\ Routes(v) = R[v.steps]
                /\ R[0] = {<<>>}
                /\ \A k \in 1 .. v.steps : R[k] = Longer(v, R[k - 1])
<1>1. PICK X : X = SUBSET Seq(Nodes)
  OBVIOUS
<1>2. PICK g : g = [S \in X |-> Longer(v, S)]
  OBVIOUS
<1>3. g \in [X -> X]
  BY <1>1, <1>2 DEF Longer
<1>4. PICK n \in Nat : n = v.steps
  OBVIOUS
<1>5. PICK R \in [0 .. n -> X] : Runs(R, g, {<<>>}, n)
  <2>1. <<>> \in Seq(Nodes)
    OBVIOUS
  <2>2. {<<>>} \in X
    BY <1>1, <2>1
  <2> QED  BY <1>3, <2>2, HasStages
<1>6. R[0] = {<<>>} /\ \A k \in 1 .. n : R[k] = Longer(v, R[k - 1])
  BY <1>2, <1>5 DEF Runs
<1>7. RouteStages(v, R)
  <2>1. R = [k \in 0 .. n |-> R[k]]
    BY <1>5
  <2>2. ASSUME NEW k \in 0 .. n
        PROVE  R[k] = IF k = 0 THEN {<<>>} ELSE Longer(v, R[k - 1])
    <3>1. k # 0 => k \in 1 .. n
      OBVIOUS
    <3> QED  BY <1>5, <1>6, <3>1
  <2> QED  BY <1>4, <2>1, <2>2 DEF RouteStages, Longer
<1>8. PICK Q : RouteStages(v, Q) /\ Routes(v) = Q[v.steps]
  BY <1>7 DEF Routes, RouteStages
<1>9. Q[0] = {<<>>}
  BY <1>4, <1>8 DEF RouteStages
<1>10. ASSUME NEW k \in 1 .. n PROVE Q[k] = Longer(v, Q[k - 1])
  <2>1. k \in 0 .. v.steps /\ k # 0
    BY <1>4
  <2> QED  BY <1>8, <2>1 DEF RouteStages, Longer
<1> QED  BY <1>4, <1>8, <1>9, <1>10

\* Of the prefixes of a route, where each ends.
LEMMA PrefixEnds ==
  ASSUME NEW v, NEW r \in Seq(Nodes), NEW i \in 1 .. Len(r)
  PROVE  EndOf(v, SubSeq(r, 1, i - 1)) = IF i = 1 THEN v.pos ELSE r[i - 1]
<1>1. PICK p : p = SubSeq(r, 1, i - 1)
  OBVIOUS
<1>2. i \in Nat /\ i - 1 \in 0 .. Len(r) /\ Len(r) \in Nat
  OBVIOUS
<1>3. p \in Seq(Nodes) /\ Len(p) = i - 1 /\ \A j \in 1 .. i - 1 : p[j] = r[j]
  BY <1>1, <1>2
<1>4. CASE i = 1
  <2>1. p = <<>>
    BY <1>3, <1>4
  <2> QED  BY <1>1, <1>4, <2>1 DEF EndOf
<1>5. CASE i # 1
  <2>1. p # <<>> /\ i - 1 \in 1 .. i - 1
    BY <1>2, <1>3, <1>5
  <2> QED  BY <1>1, <1>3, <1>5, <2>1 DEF EndOf
<1> QED  BY <1>4, <1>5

\* What a route must be, step by step (legal.go, LegalRoute).
LEMMA RouteIsLegal ==
  ASSUME NEW v, NEW r \in Seq(Nodes)
  PROVE  LegalRoute(v, r) <=>
           \A i \in 1 .. Len(r) : /\ r[i] \in Edges(v, IF i = 1 THEN v.pos ELSE r[i - 1])
                                  /\ v.fog[r[i]] # Rumoured
                                  /\ v.fog[r[i]] = Hidden => i = Len(r)
  BY PrefixEnds DEF LegalRoute

\* A legal route one step longer is legal.
LEMMA LongerIsLegal ==
  ASSUME NEW v, NEW x \in Seq(Nodes), LegalRoute(v, x),
         NEW m \in Nodes, m \in Edges(v, EndOf(v, x)), v.fog[m] # Rumoured
  PROVE  /\ Append(x, m) \in Seq(Nodes) /\ Len(Append(x, m)) = Len(x) + 1
         /\ LegalRoute(v, Append(x, m))
<1>1. PICK r : r = Append(x, m)
  OBVIOUS
<1>2. PICK n \in Nat : n = Len(x)
  OBVIOUS
<1>3. r \in Seq(Nodes) /\ Len(r) = n + 1 /\ r[n + 1] = m /\ \A i \in 1 .. n : r[i] = x[i]
  BY <1>1, <1>2
<1>4. EndOf(v, x) = IF n = 0 THEN v.pos ELSE x[n]
  BY <1>2 DEF EndOf
<1>5. ASSUME NEW i \in 1 .. n + 1
      PROVE  /\ r[i] \in Edges(v, IF i = 1 THEN v.pos ELSE r[i - 1])
             /\ v.fog[r[i]] # Rumoured
             /\ v.fog[r[i]] = Hidden => i = n + 1
  <2>1. CASE i = n + 1
    BY <1>3, <1>4, <2>1
  <2>2. CASE i # n + 1
    <3>1. i \in 1 .. n /\ (i # 1 => i - 1 \in 1 .. n)
      BY <2>2
    <3>2. /\ x[i] \in Edges(v, IF i = 1 THEN v.pos ELSE x[i - 1])
          /\ v.fog[x[i]] # Rumoured
          /\ v.fog[x[i]] = Hidden => i = n
      BY <1>2, <3>1, RouteIsLegal
    <3>3. v.fog[EndOf(v, x)] # Hidden
      BY DEF Edges, Hidden, Known
    <3>4. v.fog[x[i]] # Hidden
      BY <1>4, <3>1, <3>2, <3>3
    <3> QED  BY <1>3, <3>1, <3>2, <3>4
  <2> QED  BY <2>1, <2>2
<1> QED  BY <1>1, <1>2, <1>3, <1>5, RouteIsLegal

\* Finitely many routes are one step longer.
LEMMA LongerIsFinite ==
  ASSUME IsFiniteSet(Nodes), NEW v, NEW X, IsFiniteSet(X)
  PROVE  IsFiniteSet(Longer(v, X))
<1>1. PICK T : T = {x \in X \X Nodes : x[2] \in Edges(v, EndOf(v, x[1])) /\ v.fog[x[2]] # Rumoured}
  OBVIOUS
<1>2. IsFiniteSet(T)
  <2>1. IsFiniteSet(X \X Nodes)
    BY FS_Product
  <2>2. T \in SUBSET (X \X Nodes)
    BY <1>1
  <2> QED  BY <2>1, <2>2, FS_Subset
<1>3. PICK A : A = {Append(w[1], w[2]) : w \in T}
  OBVIOUS
<1>4. IsFiniteSet(A)
  <2>1. PICK f : f = [w \in T |-> Append(w[1], w[2])]
    OBVIOUS
  <2>2. f \in Surjection(T, A)
    BY <1>3, <2>1 DEF Surjection
  <2> QED  BY <1>2, <2>2, FS_Surjection
<1>5. Longer(v, X) = X \cup A
  BY <1>1, <1>3 DEF Longer
<1> QED  BY <1>4, <1>5, FS_Union

\* Every route the toolkit lists is legal and within the allowance, and there
\* are finitely many; staying is one of them.
LEMMA RoutesAreLegal ==
  ASSUME IsFiniteSet(Nodes), NEW v, v.steps \in Nat
  PROVE  /\ \A r \in Routes(v) : r \in Seq(Nodes) /\ Len(r) <= v.steps /\ LegalRoute(v, r)
         /\ IsFiniteSet(Routes(v))
         /\ <<>> \in Routes(v)
<1>1. PICK R : /\ Routes(v) = R[v.steps]
               /\ R[0] = {<<>>}
               /\ \A k \in 1 .. v.steps : R[k] = Longer(v, R[k - 1])
  BY RoutesGrow
<1> DEFINE Fine(k) == /\ \A r \in R[k] : r \in Seq(Nodes) /\ Len(r) <= k /\ LegalRoute(v, r)
                      /\ IsFiniteSet(R[k])
                      /\ <<>> \in R[k]
           good == {k \in 0 .. v.steps : Fine(k)}
<1>2. Fine(0)
  <2>1. <<>> \in Seq(Nodes) /\ Len(<<>>) = 0 /\ LegalRoute(v, <<>>)
    BY DEF LegalRoute
  <2>2. IsFiniteSet({<<>>})
    BY FS_Singleton
  <2> QED  BY <1>1, <2>1, <2>2
<1>3. ASSUME NEW k \in 1 .. v.steps, Fine(k - 1)
      PROVE  Fine(k)
  <2>1. R[k] = Longer(v, R[k - 1])
    BY <1>1
  <2>2. ASSUME NEW r \in R[k]
        PROVE  r \in Seq(Nodes) /\ Len(r) <= k /\ LegalRoute(v, r)
    <3>1. CASE r \in R[k - 1]
      <4>1. r \in Seq(Nodes) /\ Len(r) <= k - 1 /\ LegalRoute(v, r)
        BY <1>3, <3>1
      <4> QED  BY <4>1
    <3>2. CASE r \notin R[k - 1]
      <4>1. PICK x \in R[k - 1], m \in Nodes :
              r = Append(x, m) /\ m \in Edges(v, EndOf(v, x)) /\ v.fog[m] # Rumoured
        BY <2>1, <3>2 DEF Longer
      <4>2. x \in Seq(Nodes) /\ Len(x) <= k - 1 /\ LegalRoute(v, x)
        BY <1>3
      <4>3. r \in Seq(Nodes) /\ Len(r) = Len(x) + 1 /\ LegalRoute(v, r)
        BY <4>1, <4>2, LongerIsLegal
      <4> QED  BY <4>2, <4>3
    <3> QED  BY <3>1, <3>2
  <2>3. IsFiniteSet(R[k])
    BY <1>3, <2>1, LongerIsFinite
  <2>4. <<>> \in R[k]
    BY <1>3, <2>1 DEF Longer
  <2> QED  BY <2>2, <2>3, <2>4
<1>4. \A k \in 0 .. v.steps : Fine(k)
  <2> HIDE DEF Fine
  <2>1. PICK n \in Nat : n = v.steps
    OBVIOUS
  <2>2. good \in SUBSET (0 .. n) /\ 0 \in good /\ \A k \in 1 .. n : k - 1 \in good => k \in good
    BY <1>2, <1>3, <2>1
  <2>3. \A k \in 0 .. n : k \in good
    <3> HIDE DEF good
    <3> QED  BY <2>2, AllStages
  <2> QED  BY <2>1, <2>3
<1> QED  BY <1>1, <1>4

-------------------------------------------------------------------------------
(* Choosing among routes.                                                    *)

\* Two routes of one length differ somewhere.
Differs(n, p, q) == \E i \in 1 .. n : p[i] # q[i]

\* Where two routes differ, they differ somewhere first.
LEMMA FirstDifference ==
  ASSUME NEW n \in Nat, NEW p, NEW q, Differs(n, p, q)
  PROVE  \E i \in 1 .. n : p[i] # q[i] /\ \A j \in 1 .. i - 1 : p[j] = q[j]
<1> DEFINE D == {i \in 1 .. n : p[i] # q[i]}
<1>1. D # {} /\ D \in SUBSET (1 .. n) /\ D \in SUBSET Int
  BY DEF Differs
<1>2. PICK i \in D : \A j \in D : i <= j
  <2> HIDE DEF D
  <2>1. IsFiniteSet(1 .. n)
    BY FS_Interval
  <2>2. IsFiniteSet(D)
    BY <1>1, <2>1, FS_Subset
  <2> QED  BY <1>1, <2>2, HasLeast
<1>3. ASSUME NEW j \in 1 .. i - 1 PROVE p[j] = q[j]
  <2>1. j \in 1 .. n /\ ~(i <= j)
    OBVIOUS
  <2> QED  BY <1>2, <2>1
<1> QED  BY <1>3

\* slices.Compare orders the routes of one length.
LEMMA PrecedesOrders ==
  ASSUME NEW n \in Nat, NEW S, \A p \in S : p \in Seq(Nat) /\ Len(p) = n
  PROVE  Orders({x \in S \X S : Precedes(x[1], x[2])}, S)
<1> DEFINE R == {x \in S \X S : Precedes(x[1], x[2])}
<1>1. \A p, q \in S : /\ p = q <=> \A i \in 1 .. n : p[i] = q[i]
                      /\ \A i \in 1 .. n : p[i] \in Nat /\ q[i] \in Nat
  OBVIOUS
<1>2. \A p, q \in S :
        <<p, q>> \in R <=> \E i \in 1 .. n : p[i] < q[i] /\ \A j \in 1 .. i - 1 : p[j] = q[j]
  BY DEF Precedes
<1> HIDE DEF R
<1>3. \A p \in S : <<p, p>> \notin R
  BY <1>1, <1>2
<1>4. ASSUME NEW p \in S, NEW q \in S, p # q
      PROVE  <<p, q>> \in R \/ <<q, p>> \in R
  <2>1. PICK i \in 1 .. n : p[i] # q[i] /\ \A j \in 1 .. i - 1 : p[j] = q[j]
    <3>1. \E i \in 1 .. n : p[i] # q[i]
      BY <1>1, <1>4
    <3>2. Differs(n, p, q)
      BY <3>1 DEF Differs
    <3> QED  BY <3>2, FirstDifference
  <2>2. p[i] < q[i] \/ q[i] < p[i]
    BY <1>1, <2>1
  <2> QED  BY <1>2, <2>1, <2>2
<1>5. ASSUME NEW p \in S, NEW q \in S, NEW r \in S, <<p, q>> \in R, <<q, r>> \in R
      PROVE  <<p, r>> \in R
  <2>1. PICK i \in 1 .. n : p[i] < q[i] /\ \A j \in 1 .. i - 1 : p[j] = q[j]
    BY <1>2, <1>5
  <2>2. PICK k \in 1 .. n : q[k] < r[k] /\ \A j \in 1 .. k - 1 : q[j] = r[j]
    BY <1>2, <1>5
  <2>3. CASE i <= k
    <3>1. \A j \in 1 .. i - 1 : j \in 1 .. k - 1
      BY <2>3
    <3>2. p[i] < r[i]
      <4>1. p[i] \in Nat /\ q[i] \in Nat /\ r[i] \in Nat
        BY <1>1
      <4>2. i < k => q[i] = r[i]
        BY <2>2
      <4> QED  BY <2>1, <2>2, <2>3, <4>1, <4>2
    <3> QED  BY <1>2, <2>1, <2>2, <3>1, <3>2
  <2>4. CASE k < i
    <3>1. k \in 1 .. i - 1 /\ \A j \in 1 .. k - 1 : j \in 1 .. i - 1
      BY <2>4
    <3>2. p[k] = q[k] /\ \A j \in 1 .. k - 1 : p[j] = q[j]
      BY <2>1, <3>1
    <3>3. p[k] < r[k] /\ \A j \in 1 .. k - 1 : p[j] = r[j]
      BY <2>2, <3>2
    <3> QED  BY <1>2, <3>3
  <2> QED  BY <2>3, <2>4
<1> QED  BY <1>3, <1>4, <1>5 DEF Orders, R

\* So some route of a finite set comes first.
LEMMA FirstRoute ==
  ASSUME NEW n \in Nat, NEW S, \A p \in S : p \in Seq(Nat) /\ Len(p) = n,
         S # {}, IsFiniteSet(S)
  PROVE  First(S, Precedes) \in S
<1>1. PICK R : R = {x \in S \X S : Precedes(x[1], x[2])}
  OBVIOUS
<1>2. Orders(R, S)
  BY <1>1, PrecedesOrders
<1>3. \E p \in S : \A q \in S \ {p} : <<p, q>> \in R
  BY <1>2, HasFirst
<1>4. \E p \in S : \A q \in S \ {p} : Precedes(p, q)
  BY <1>1, <1>3
<1> QED  BY <1>4 DEF First

-------------------------------------------------------------------------------
(* Distances.                                                                *)

\* The surroundings of a node: each stage adds the Known neighbours of the one before.
Wider(v, X) == X \cup {m \in UNION {Edges(v, n) : n \in X} : v.fog[m] >= Known}
\* KnownBall's own table.
BallStages(v, from, W) ==
  W = [k \in 0 .. Cardinality(Nodes) |->
         IF k = 0 THEN {from}
         ELSE W[k - 1] \cup {m \in UNION {Edges(v, n) : n \in W[k - 1]} : v.fog[m] >= Known}]

\* KnownBall is such a table.
LEMMA BallWidens ==
  ASSUME IsFiniteSet(Nodes), NEW v, NEW from
  PROVE  /\ KnownBall(v, from)[0] = {from}
         /\ \A k \in 1 .. Cardinality(Nodes) :
              KnownBall(v, from)[k] = Wider(v, KnownBall(v, from)[k - 1])
<1>1. PICK X : X = SUBSET (Nodes \cup {from})
  OBVIOUS
<1>2. PICK g : g = [S \in X |-> Wider(v, S)]
  OBVIOUS
<1>3. g \in [X -> X]
  BY <1>1, <1>2 DEF Wider, Edges, Neighbours
<1>4. PICK n \in Nat : n = Cardinality(Nodes)
  BY FS_CardinalityType
<1>5. PICK R \in [0 .. n -> X] : Runs(R, g, {from}, n)
  <2>1. {from} \in X
    BY <1>1
  <2> QED  BY <1>3, <2>1, HasStages
<1>6. R[0] = {from} /\ \A k \in 1 .. n : R[k] = Wider(v, R[k - 1])
  BY <1>2, <1>5 DEF Runs
<1>7. BallStages(v, from, R)
  <2>1. R = [k \in 0 .. n |-> R[k]]
    BY <1>5
  <2>2. ASSUME NEW k \in 0 .. n
        PROVE  R[k] = IF k = 0 THEN {from} ELSE Wider(v, R[k - 1])
    <3>1. k # 0 => k \in 1 .. n
      OBVIOUS
    <3> QED  BY <1>6, <3>1
  <2> QED  BY <1>4, <2>1, <2>2 DEF BallStages, Wider
<1>8. PICK Q : BallStages(v, from, Q) /\ KnownBall(v, from) = Q
  BY <1>7 DEF KnownBall, BallStages
<1>9. Q[0] = {from}
  BY <1>4, <1>8 DEF BallStages
<1>10. ASSUME NEW k \in 1 .. n PROVE Q[k] = Wider(v, Q[k - 1])
  <2>1. k \in 0 .. Cardinality(Nodes) /\ k # 0
    BY <1>4
  <2> QED  BY <1>8, <2>1 DEF BallStages, Wider
<1> QED  BY <1>4, <1>8, <1>9, <1>10

\* What is reached stays reached.
LEMMA BallKeeps ==
  ASSUME IsFiniteSet(Nodes), NEW v, NEW from, NEW n,
         NEW j \in 0 .. Cardinality(Nodes), n \in KnownBall(v, from)[j]
  PROVE  \A k \in j .. Cardinality(Nodes) : n \in KnownBall(v, from)[k]
<1>1. PICK N \in Nat : N = Cardinality(Nodes)
  BY FS_CardinalityType
<1>2. PICK W : W = KnownBall(v, from)
  OBVIOUS
<1>3. \A k \in 1 .. N : W[k] = Wider(v, W[k - 1])
  BY <1>1, <1>2, BallWidens
<1> DEFINE good == {k \in 0 .. N : k >= j => n \in W[k]}
<1>4. good \in SUBSET (0 .. N) /\ 0 \in good
  BY <1>1, <1>2
<1>5. ASSUME NEW k \in 1 .. N, k - 1 \in good
      PROVE  k \in good
  <2>1. CASE k = j
    BY <1>2, <2>1
  <2>2. CASE k # j
    <3>1. n \in W[k - 1] => n \in W[k]
      BY <1>3 DEF Wider
    <3> QED  BY <1>1, <1>5, <2>2, <3>1
  <2> QED  BY <2>1, <2>2
<1>6. \A k \in 0 .. N : k \in good
  <2> HIDE DEF good
  <2> QED  BY <1>4, <1>5, AllStages
<1>7. \A k \in j .. N : k \in 0 .. N /\ k >= j
  BY <1>1
<1> QED  BY <1>1, <1>2, <1>6, <1>7

\* The distance of what is reachable is the first stage it is in.
LEMMA DistIsFirst ==
  ASSUME IsFiniteSet(Nodes), NEW v, NEW from, NEW n, Reachable(v, from, n)
  PROVE  /\ Dist(v, from, n) \in 0 .. Cardinality(Nodes)
         /\ n \in KnownBall(v, from)[Dist(v, from, n)]
         /\ \A j \in 0 .. Cardinality(Nodes) :
              n \in KnownBall(v, from)[j] => Dist(v, from, n) <= j
<1>1. PICK N \in Nat : N = Cardinality(Nodes)
  BY FS_CardinalityType
<1>2. PICK W : W = KnownBall(v, from)
  OBVIOUS
<1> DEFINE in == {k \in 0 .. N : n \in W[k]}
<1>3. N \in in /\ in \in SUBSET (0 .. N) /\ in \in SUBSET Int
  BY <1>1, <1>2 DEF Reachable
<1>4. PICK b \in in : \A c \in in : b <= c
  <2> HIDE DEF in
  <2>1. IsFiniteSet(0 .. N)
    BY FS_Interval
  <2>2. IsFiniteSet(in)
    BY <1>3, <2>1, FS_Subset
  <2> QED  BY <1>3, <2>2, HasLeast
<1>5. b \in 0 .. N /\ n \in W[b] /\ \A j \in 0 .. b - 1 : n \notin W[j]
  BY <1>4
<1>6. PICK d : d = Dist(v, from, n)
  OBVIOUS
<1>7. d \in 0 .. N /\ n \in W[d] /\ \A j \in 0 .. d - 1 : n \notin W[j]
  BY <1>1, <1>2, <1>5, <1>6 DEF Dist
<1>8. ASSUME NEW j \in 0 .. N, n \in W[j] PROVE d <= j
  BY <1>7, <1>8
<1> QED  BY <1>1, <1>2, <1>6, <1>7, <1>8

\* Where a finite set is ordered by three keys, the last telling its members
\* apart, it has a first.
LEMMA HasFirstByKeys ==
  ASSUME NEW S, S # {}, IsFiniteSet(S), NEW f, NEW g, NEW h,
         \A x \in S : f[x] \in Int /\ g[x] \in Int /\ h[x] \in Int,
         \A x, y \in S : h[x] = h[y] => x = y
  PROVE  \E x \in S : \A y \in S \ {x} :
           \/ f[x] < f[y]
           \/ f[x] = f[y] /\ (g[x] < g[y] \/ (g[x] = g[y] /\ h[x] < h[y]))
<1>1. PICK A : A = LeastOn(S, f)
  OBVIOUS
<1>2. A # {} /\ A \subseteq S /\ \A x \in A, y \in S : f[x] <= f[y]
  BY <1>1, LeastAreLeast
<1>3. IsFiniteSet(A)
  BY <1>2, FS_Subset
<1>4. PICK B : B = LeastOn(A, g)
  OBVIOUS
<1>5. B # {} /\ B \subseteq A /\ \A x \in B, y \in A : g[x] <= g[y]
  BY <1>2, <1>3, <1>4, LeastAreLeast
<1>6. IsFiniteSet(B)
  BY <1>3, <1>5, FS_Subset
<1>7. PICK C : C = LeastOn(B, h)
  OBVIOUS
<1>8. C # {} /\ C \subseteq B /\ \A x \in C, y \in B : h[x] <= h[y]
  BY <1>2, <1>5, <1>6, <1>7, LeastAreLeast
<1>9. PICK x \in C : TRUE
  BY <1>8
<1>10. x \in S /\ x \in A /\ x \in B
  BY <1>2, <1>5, <1>8
<1>11. \A y \in S : f[y] = f[x] => y \in A
  <2> TAKE y \in S
  <2>1. PICK least : A = {z \in S : f[z] = least}
    BY <1>1 DEF LeastOn
  <2> QED  BY <1>10, <2>1
<1>12. \A y \in A : g[y] = g[x] => y \in B
  <2> TAKE y \in A
  <2>1. PICK least : B = {z \in A : g[z] = least}
    BY <1>4 DEF LeastOn
  <2> QED  BY <1>10, <2>1
<1>13. ASSUME NEW y \in S \ {x}
       PROVE  \/ f[x] < f[y]
              \/ f[x] = f[y] /\ (g[x] < g[y] \/ (g[x] = g[y] /\ h[x] < h[y]))
  <2>1. f[x] <= f[y] /\ f[x] \in Int /\ f[y] \in Int
    BY <1>2, <1>10
  <2>2. CASE f[x] = f[y]
    <3>1. y \in A
      BY <1>11, <2>2
    <3>2. g[x] <= g[y] /\ g[x] \in Int /\ g[y] \in Int
      BY <1>5, <1>10, <3>1
    <3>3. CASE g[x] = g[y]
      <4>1. y \in B
        BY <1>12, <3>1, <3>3
      <4>2. h[x] <= h[y] /\ h[x] \in Int /\ h[y] \in Int /\ h[x] # h[y]
        BY <1>8, <1>10, <4>1
      <4> QED  BY <2>2, <3>3, <4>2
    <3>4. CASE g[x] # g[y]
      BY <2>2, <3>2, <3>4
    <3> QED  BY <3>3, <3>4
  <2>3. CASE f[x] # f[y]
    BY <2>1, <2>3
  <2> QED  BY <2>2, <2>3
<1> QED  BY <1>10, <1>13

-------------------------------------------------------------------------------
(* What is made for.                                                         *)

\* What a view shows of the ground its seat stands on.
Ground(v) ==
  /\ v.pos \in Nodes
  /\ v.fog \in [Nodes -> Hidden .. InSight]
  /\ v.fog[v.pos] >= Known
  /\ v.balance \in Nat
  /\ v.posts \in [Nodes -> Nat]
  /\ v.steps \in Nat /\ v.penalty \in Int /\ v.round \in Int /\ v.blockRounds \in Int
\* What a view shows of contracts, offers, money and posts.
Papers(v) ==
  /\ v.contracts \in SUBSET Contracts
  /\ \A c, d \in v.contracts : c.id = d.id => c = d
  /\ v.offer \in Seq(Offered)
\* Both.
Sees(v) == Ground(v) /\ Papers(v)

\* The nearest Known Border is a node, or there is none.
LEMMA BorderIsANode ==
  ASSUME Setting, NEW v
  PROVE  NearestKnownBorder(v) \in Nodes \cup {NoNode}
<1> DEFINE known  == {n \in Nodes : TypeOf[n] = "border" /\ v.fog[n] >= Known}
           inWalk == {n \in known : Reachable(v, v.pos, n)}
<1>1. IsFiniteSet(Nodes) /\ Nodes \subseteq Int
  BY DEF Setting
<1>2. ASSUME inWalk # {}
      PROVE  \E x \in inWalk : \A y \in inWalk \ {x} :
               LET i == Dist(v, v.pos, x)  j == Dist(v, v.pos, y)
               IN i < j \/ (i = j /\ x < y)
  <2>1. PICK f : f = [n \in Nodes |-> Dist(v, v.pos, n)]
    OBVIOUS
  <2>2. PICK g : g = [n \in Nodes |-> 0]
    OBVIOUS
  <2>3. PICK h : h = [n \in Nodes |-> n]
    OBVIOUS
  <2>4. PICK S : S = inWalk
    OBVIOUS
  <2>5. S \in SUBSET Nodes /\ S # {}
    BY <1>2, <2>4
  <2>6. ASSUME NEW x \in S
        PROVE  f[x] \in Int /\ g[x] \in Int /\ h[x] \in Int /\ f[x] = Dist(v, v.pos, x) /\ h[x] = x
    <3>1. Reachable(v, v.pos, x) /\ x \in Nodes
      BY <2>4
    <3>2. Dist(v, v.pos, x) \in 0 .. Cardinality(Nodes) /\ Cardinality(Nodes) \in Nat
      BY <1>1, <3>1, DistIsFirst, FS_CardinalityType
    <3> QED  BY <1>1, <2>1, <2>2, <2>3, <3>1, <3>2
  <2>7. IsFiniteSet(S)
    BY <1>1, <2>5, FS_Subset
  <2>8. \A x, y \in S : h[x] = h[y] => x = y
    BY <2>6
  <2>9. \E x \in S : \A y \in S \ {x} :
           \/ f[x] < f[y]
           \/ f[x] = f[y] /\ (g[x] < g[y] \/ (g[x] = g[y] /\ h[x] < h[y]))
    BY <2>5, <2>6, <2>7, <2>8, HasFirstByKeys
  <2> HIDE DEF inWalk
  <2>10. \A x \in S : g[x] = 0
    BY <2>2, <2>5
  <2> QED  BY <2>4, <2>6, <2>9, <2>10
<1>3. ASSUME known # {}
      PROVE  First(known, Lower) \in known
  <2>1. known \in SUBSET Int /\ known \in SUBSET Nodes
    BY <1>1
  <2> HIDE DEF known
  <2>2. IsFiniteSet(known)
    BY <1>1, <2>1, FS_Subset
  <2> QED  BY <1>3, <2>1, <2>2, FirstIsLeast
<1>4. CASE inWalk # {}
  <2>1. NearestKnownBorder(v) \in inWalk
    BY <1>2, <1>4, Zenon DEF NearestKnownBorder, First
  <2> QED  BY <2>1
<1>5. CASE inWalk = {}
  BY <1>3, <1>5, Zenon DEF NearestKnownBorder
<1> QED  BY <1>4, <1>5

\* The order of contracts by urgency (runner.go, runnerObjective).
Urgent(c, d) == c.expires < d.expires \/ (c.expires = d.expires /\ c.id < d.id)

\* Of some contracts, one is the most urgent.
LEMMA MostUrgent ==
  ASSUME Setting, NEW S \in SUBSET Contracts, S # {}, \A c, d \in S : c.id = d.id => c = d
  PROVE  \E c \in S : \A d \in S \ {c} : Urgent(c, d)
<1>1. PICK f : f = [c \in S |-> c.expires]
  OBVIOUS
<1>2. PICK g : g = [c \in S |-> 0]
  OBVIOUS
<1>3. PICK h : h = [c \in S |-> c.id]
  OBVIOUS
<1>4. \A c \in S : c.expires \in Int /\ c.id \in {0, 1}
  BY DEF Contracts
<1>5. IsFiniteSet(S)
  <2>1. h \in Injection(S, {0, 1})
    BY <1>3, <1>4 DEF Injection, IsInjective
  <2>2. IsFiniteSet({0, 1})
    <3>1. IsFiniteSet({0}) /\ {0, 1} = {0} \cup {1}
      BY FS_Singleton
    <3> QED  BY <3>1, FS_AddElement
  <2> QED  BY <2>1, <2>2, FS_Injection
<1>6. \A c \in S : f[c] \in Int /\ g[c] \in Int /\ h[c] \in Int
  BY <1>1, <1>2, <1>3, <1>4
<1>7. \A c, d \in S : h[c] = h[d] => c = d
  BY <1>3
<1>8. \E c \in S : \A d \in S \ {c} :
        \/ f[c] < f[d]
        \/ f[c] = f[d] /\ (g[c] < g[d] \/ (g[c] = g[d] /\ h[c] < h[d]))
  <2>1. S # {}
    OBVIOUS
  <2> QED  BY ONLY <1>5, <1>6, <1>7, <2>1, HasFirstByKeys
<1>9. \A c \in S : f[c] = c.expires /\ g[c] = 0 /\ h[c] = c.id
  BY <1>1, <1>2, <1>3
<1>10. PICK c \in S : \A d \in S \ {c} :
        \/ f[c] < f[d]
        \/ f[c] = f[d] /\ (g[c] < g[d] \/ (g[c] = g[d] /\ h[c] < h[d]))
  BY <1>8
<1>11. \A d \in S \ {c} : Urgent(c, d)
  <2> TAKE d \in S \ {c}
  <2>1. \/ f[c] < f[d]
        \/ f[c] = f[d] /\ (g[c] < g[d] \/ (g[c] = g[d] /\ h[c] < h[d]))
    BY <1>10
  <2>2. c \in S /\ d \in S
    OBVIOUS
  <2> QED  BY <1>9, <2>1, <2>2 DEF Urgent
<1> QED  BY <1>11

\* What is made for is a node, or nothing (runner.go, runnerObjective).
LEMMA ObjectiveIsANode ==
  ASSUME Setting, NEW v, Papers(v)
  PROVE  RunnerObjective(v) \in Nodes \cup {NoNode}
<1> DEFINE its == {c \in v.contracts : c.id = v.cargo}
<1>1. ASSUME NEW S \in SUBSET Contracts, S # {}, \A c, d \in S : c.id = d.id => c = d
      PROVE  (CHOOSE x \in S : \A y \in S \ {x} :
                x.expires < y.expires \/ (x.expires = y.expires /\ x.id < y.id)) \in S
  <2>1. \E c \in S : \A d \in S \ {c} : Urgent(c, d)
    BY <1>1, MostUrgent
  <2> QED  BY <2>1, Zenon DEF Urgent
<1>2. v.contracts \in SUBSET Contracts /\ its \in SUBSET v.contracts /\ its \in SUBSET Contracts
  BY DEF Papers
<1>3. \A c \in v.contracts : c.dest \in Nodes /\ c.origin \in Nodes
  BY <1>2 DEF Contracts
<1>4. CASE v.cargo = LooseCrate
  <2>1. RunnerObjective(v) = NearestKnownBorder(v)
    BY <1>4, Zenon DEF RunnerObjective
  <2> QED  BY <2>1, BorderIsANode
<1>5. CASE v.cargo # LooseCrate /\ v.cargo # NoCargo
  <2>1. CASE its = {}
    <3>1. RunnerObjective(v) = NoNode
      BY <1>5, <2>1, Zenon DEF RunnerObjective
    <3> QED  BY <3>1
  <2>2. CASE its # {}
    <3>1. PICK c : c = CHOOSE x \in its : \A y \in its \ {x} :
                         x.expires < y.expires \/ (x.expires = y.expires /\ x.id < y.id)
      OBVIOUS
    <3>2. \A x, y \in its : x.id = y.id => x = y
      BY DEF Papers
    <3>3. c \in its
      <4> HIDE DEF its
      <4> QED  BY <1>1, <1>2, <2>2, <3>1, <3>2, Zenon
    <3>4. RunnerObjective(v) = c.dest
      BY <1>5, <2>2, <3>1, Zenon DEF RunnerObjective, First
    <3> QED  BY <1>2, <1>3, <3>3, <3>4
  <2> QED  BY <2>1, <2>2
<1>6. CASE v.cargo = NoCargo
  <2>0. v.cargo # LooseCrate
    BY <1>6 DEF NoCargo, LooseCrate
  <2>1. CASE v.contracts = {}
    <3>1. RunnerObjective(v) = NoNode
      BY <1>6, <2>0, <2>1, Zenon DEF RunnerObjective
    <3> QED  BY <3>1
  <2>2. CASE v.contracts # {}
    <3>1. PICK c : c = CHOOSE x \in v.contracts : \A y \in v.contracts \ {x} :
                         x.expires < y.expires \/ (x.expires = y.expires /\ x.id < y.id)
      OBVIOUS
    <3>2. \A x, y \in v.contracts : x.id = y.id => x = y
      BY DEF Papers
    <3>3. c \in v.contracts
      BY <1>1, <1>2, <2>2, <3>1, <3>2, Zenon
    <3>4. RunnerObjective(v) = c.origin
      BY <1>6, <2>0, <2>2, <3>1, Zenon DEF RunnerObjective, First
    <3> QED  BY <1>3, <3>3, <3>4
  <2> QED  BY <2>1, <2>2
<1> QED  BY <1>4, <1>5, <1>6

\* An Operator's chokepoint is a node, or nothing (operator.go, findChokepoint).
LEMMA ChokepointIsANode ==
  ASSUME Setting, NEW v
  PROVE  Chokepoint(v) \in Nodes \cup {NoNode}
<1> DEFINE S == {n \in Nodes : RateOf[n] > 0 /\ n \notin Held(v) /\ Reachable(v, v.pos, n)}
<1>1. IsFiniteSet(Nodes) /\ Nodes \subseteq Int
  BY DEF Setting
<1>2. ASSUME S # {}
      PROVE  \E x \in S : \A y \in S \ {x} :
               LET i == Dist(v, v.pos, x)  j == Dist(v, v.pos, y)
               IN i < j \/ (i = j /\ (RateOf[x] > RateOf[y] \/ (RateOf[x] = RateOf[y] /\ x < y)))
  <2>1. PICK f : f = [n \in Nodes |-> Dist(v, v.pos, n)]
    OBVIOUS
  <2>2. PICK g : g = [n \in Nodes |-> -RateOf[n]]
    OBVIOUS
  <2>3. PICK h : h = [n \in Nodes |-> n]
    OBVIOUS
  <2>4. S \in SUBSET Nodes /\ \A x \in S : Reachable(v, v.pos, x)
    OBVIOUS
  <2> HIDE DEF S
  <2>6. ASSUME NEW x \in S
        PROVE  /\ f[x] \in Int /\ f[x] = Dist(v, v.pos, x)
               /\ g[x] \in Int /\ g[x] = -RateOf[x] /\ RateOf[x] \in Int
               /\ h[x] \in Int /\ h[x] = x
    <3>1. Reachable(v, v.pos, x) /\ x \in Nodes
      BY <2>4
    <3>2. Dist(v, v.pos, x) \in 0 .. Cardinality(Nodes) /\ Cardinality(Nodes) \in Nat
      BY <1>1, <3>1, DistIsFirst, FS_CardinalityType
    <3>3. RateOf[x] \in Int
      BY <3>1 DEF Setting
    <3> QED  BY <1>1, <2>1, <2>2, <2>3, <3>1, <3>2, <3>3
  <2>7. IsFiniteSet(S)
    BY <1>1, <2>4, FS_Subset
  <2>8. \A x, y \in S : h[x] = h[y] => x = y
    BY <2>6
  <2>9. PICK x \in S : \A y \in S \ {x} :
           \/ f[x] < f[y]
           \/ f[x] = f[y] /\ (g[x] < g[y] \/ (g[x] = g[y] /\ h[x] < h[y]))
    BY <1>2, <2>6, <2>7, <2>8, HasFirstByKeys
  <2>10. ASSUME NEW y \in S \ {x}
         PROVE  LET i == Dist(v, v.pos, x)  j == Dist(v, v.pos, y)
                IN i < j \/ (i = j /\ (RateOf[x] > RateOf[y] \/ (RateOf[x] = RateOf[y] /\ x < y)))
    <3>1. \/ f[x] < f[y]
          \/ f[x] = f[y] /\ (g[x] < g[y] \/ (g[x] = g[y] /\ h[x] < h[y]))
      BY <2>9
    <3>2. y \in S
      OBVIOUS
    <3> QED  BY <2>6, <3>1, <3>2
  <2> QED  BY <2>10
<1>3. CASE S # {}
  <2>1. Chokepoint(v) \in S
    BY <1>2, <1>3, Zenon DEF Chokepoint, First
  <2> QED  BY <2>1
<1>4. CASE S = {}
  <2>1. Chokepoint(v) = NoNode
    BY <1>4, Zenon DEF Chokepoint
  <2> QED  BY <2>1
<1> QED  BY <1>3, <1>4

\* The post that runs out first.
LEMMA FirstToLapse ==
  ASSUME Setting, NEW posts, \A n \in Nodes : posts[n] \in Nat,
         NEW held \in SUBSET Nodes, held # {}
  PROVE  LET target == CHOOSE x \in held : \A y \in held \ {x} :
                         posts[x] < posts[y] \/ (posts[x] = posts[y] /\ x < y)
         IN target \in held /\ \A y \in held : posts[target] <= posts[y]
<1>1. PICK f : f = [n \in Nodes |-> posts[n]]
  OBVIOUS
<1>2. PICK g : g = [n \in Nodes |-> 0]
  OBVIOUS
<1>3. PICK h : h = [n \in Nodes |-> n]
  OBVIOUS
<1>4. IsFiniteSet(Nodes) /\ Nodes \subseteq Int
  BY DEF Setting
<1>5. IsFiniteSet(held)
  BY <1>4, FS_Subset
<1>6. \A n \in held : f[n] \in Int /\ g[n] \in Int /\ h[n] \in Int
  BY <1>1, <1>2, <1>3, <1>4
<1>7. \A m, n \in held : h[m] = h[n] => m = n
  BY <1>3
<1>8. PICK x \in held : \A y \in held \ {x} :
        \/ f[x] < f[y]
        \/ f[x] = f[y] /\ (g[x] < g[y] \/ (g[x] = g[y] /\ h[x] < h[y]))
  BY <1>5, <1>6, <1>7, HasFirstByKeys
<1>9. \A y \in held \ {x} : posts[x] < posts[y] \/ (posts[x] = posts[y] /\ x < y)
  <2> TAKE y \in held \ {x}
  <2>1. \/ f[x] < f[y]
        \/ f[x] = f[y] /\ (g[x] < g[y] \/ (g[x] = g[y] /\ h[x] < h[y]))
    BY <1>8
  <2>2. x \in Nodes /\ y \in Nodes
    OBVIOUS
  <2> QED  BY <1>1, <1>2, <1>3, <2>1, <2>2
<1>10. PICK t : t = CHOOSE x_1 \in held : \A y \in held \ {x_1} :
                       posts[x_1] < posts[y] \/ (posts[x_1] = posts[y] /\ x_1 < y)
  OBVIOUS
<1>11. t \in held /\ \A y \in held \ {t} : posts[t] < posts[y] \/ (posts[t] = posts[y] /\ t < y)
  BY <1>9, <1>10, Zenon
<1>12. \A y \in held : posts[t] <= posts[y]
  <2> TAKE y \in held
  <2>1. posts[t] \in Nat /\ posts[y] \in Nat
    BY <1>11
  <2> QED  BY <1>11, <2>1
<1> QED  BY <1>10, <1>11, <1>12

-------------------------------------------------------------------------------
(* Choosing a way.                                                           *)

\* A route of a view ends at a node.
LEMMA EndIsANode ==
  ASSUME NEW v, v.pos \in Nodes, NEW r \in Seq(Nodes)
  PROVE  EndOf(v, r) \in Nodes
<1>1. CASE r = <<>>
  BY <1>1 DEF EndOf
<1>2. CASE r # <<>>
  <2>1. PICK n \in Nat : n = Len(r)
    OBVIOUS
  <2>2. n \in 1 .. Len(r)
    BY <1>2, <2>1
  <2>3. r[n] \in Nodes
    BY <2>2
  <2> QED  BY <1>2, <2>1, <2>3 DEF EndOf
<1> QED  BY <1>1, <1>2

\* Of a non-empty finite set of routes, the best scored, then the first of the
\* shortest or of the longest, is one of them.
LEMMA FirstOfLength ==
  ASSUME Setting, NEW S, S # {}, IsFiniteSet(S), NEW sign \in {1, -1},
         \A r \in S : r \in Seq(Nodes)
  PROVE  LET steps == [r \in S |-> sign * Len(r)]
         IN First(LeastOn(S, steps), Precedes) \in S
<1>1. PICK steps : steps = [r \in S |-> sign * Len(r)]
  OBVIOUS
<1>2. \A r \in S : Len(r) \in Nat /\ steps[r] = sign * Len(r) /\ steps[r] \in Int
  BY <1>1
<1>3. PICK B : B = LeastOn(S, steps)
  OBVIOUS
<1>4. B # {} /\ B \subseteq S /\ \A r \in B, q \in S : steps[r] <= steps[q]
  BY <1>2, <1>3, LeastAreLeast
<1>5. PICK p \in B : TRUE
  BY <1>4
<1>6. PICK n \in Nat : n = Len(p)
  BY <1>2, <1>4
<1>7. \A r \in B : r \in Seq(Nat) /\ Len(r) = n
  <2> TAKE r \in B
  <2>1. r \in S /\ p \in S /\ steps[r] <= steps[p] /\ steps[p] <= steps[r]
    BY <1>4
  <2>2. Len(r) = n
    BY <1>2, <1>6, <2>1
  <2>3. r \in Seq(Nodes) /\ Nodes \subseteq Nat
    BY <2>1 DEF Setting
  <2>4. ASSUME NEW i \in 1 .. Len(r) PROVE r[i] \in Nat
    <3>1. r[i] \in Nodes
      BY <2>3
    <3> QED  BY <2>3, <3>1
  <2>5. r = [i \in 1 .. Len(r) |-> r[i]] /\ Len(r) \in Nat
    BY <2>3
  <2>6. r \in Seq(Nat)
    BY <2>4, <2>5
  <2> QED  BY <2>2, <2>6
<1>8. IsFiniteSet(B)
  BY <1>4, FS_Subset
<1>9. First(B, Precedes) \in B
  BY <1>4, <1>7, <1>8, FirstRoute
<1>10. First(B, Precedes) \in S
  BY <1>4, <1>9
<1> QED  BY <1>1, <1>3, <1>10

\* The way to what can be reached (runner.go, nearestRoute) is a route that ends on
\* ground from which it can be, and none of those has a better score.
LEMMA NearestIsARoute ==
  ASSUME Setting, NEW v, Ground(v), NEW goal, Reachable(v, goal, v.pos),
         NEW score, \A r \in Routes(v) : Reachable(v, goal, EndOf(v, r)) => score[r] \in Int
  PROVE  /\ NearestRoute(v, goal, score) \in Routes(v)
         /\ ~EndsHidden(v, NearestRoute(v, goal, score))
         /\ Reachable(v, goal, EndOf(v, NearestRoute(v, goal, score)))
         /\ \A q \in Routes(v) : ~EndsHidden(v, q) /\ Reachable(v, goal, EndOf(v, q)) =>
              score[NearestRoute(v, goal, score)] <= score[q]
<1>1. PICK known : known = {r \in Routes(v) : ~EndsHidden(v, r) /\ Reachable(v, goal, EndOf(v, r))}
  OBVIOUS
<1>2. /\ \A r \in Routes(v) : r \in Seq(Nodes)
      /\ IsFiniteSet(Routes(v)) /\ <<>> \in Routes(v)
  BY RoutesAreLegal DEF Setting, Ground
<1>3. <<>> \in known
  <2>1. EndOf(v, <<>>) = v.pos
    BY DEF EndOf
  <2>2. ~EndsHidden(v, <<>>)
    BY <2>1 DEF EndsHidden, Ground, Hidden, Known
  <2> QED  BY <1>1, <1>2, <2>1, <2>2
<1>4. IsFiniteSet(known) /\ known \subseteq Routes(v)
  BY <1>1, <1>2, FS_Subset
<1>5. \A r \in known : score[r] \in Int
  BY <1>1
<1>6. PICK A : A = LeastOn(known, score)
  OBVIOUS
<1>7. A # {} /\ A \subseteq known /\ \A x \in A, y \in known : score[x] <= score[y]
  BY <1>3, <1>4, <1>5, <1>6, LeastAreLeast
<1>8. IsFiniteSet(A) /\ \A r \in A : r \in Seq(Nodes)
  BY <1>2, <1>4, <1>7, FS_Subset
<1>9. PICK steps : steps = [r \in known |-> Len(r)]
  OBVIOUS
<1>10. PICK short : short = [r \in A |-> 1 * Len(r)]
  OBVIOUS
<1>11. \A r \in A : steps[r] = short[r]
  <2> TAKE r \in A
  <2>1. r \in known /\ Len(r) \in Nat
    BY <1>7, <1>8
  <2> QED  BY <1>9, <1>10, <2>1
<1>12. LeastOn(A, steps) = LeastOn(A, short)
  BY <1>11, Zenon DEF LeastOn
<1>13. First(LeastOn(A, short), Precedes) \in A
  BY <1>7, <1>8, <1>10, FirstOfLength
<1>14. PICK r : r = First(LeastOn(A, steps), Precedes)
  OBVIOUS
<1>15. r \in A
  BY <1>12, <1>13, <1>14
<1>16. r = NearestRoute(v, goal, score)
  BY <1>1, <1>6, <1>9, <1>14, Zenon DEF NearestRoute
<1> QED  BY <1>1, <1>7, <1>15, <1>16

\* Exploring takes a route the view discloses (runner.go, exploreRoute).
LEMMA ExploreIsARoute ==
  ASSUME Setting, NEW v, Ground(v), NEW goal \in Nodes \cup {NoNode}
  PROVE  ExploreRoute(v, goal) \in Routes(v)
<1>1. PICK routes : routes = Routes(v)
  OBVIOUS
<1>2. /\ \A r \in routes : r \in Seq(Nodes)
      /\ IsFiniteSet(routes) /\ routes # {}
  BY <1>1, RoutesAreLegal DEF Setting, Ground
<1>3. PICK score : score = [r \in routes |-> IF goal = NoNode THEN 0 ELSE ExploreScore(v, r, goal)]
  OBVIOUS
<1>4. \A r \in routes : score[r] \in Int
  <2> TAKE r \in routes
  <2>1. ASSUME goal \in Nodes PROVE ExploreScore(v, r, goal) \in Int
    <3>1. PICK n \in Nat : n = Len(r)
      BY <1>2
    <3>2. EndOf(v, r) \in Nodes
      BY <1>2, EndIsANode DEF Ground
    <3>3. CASE n = 0
      <4>1. r = <<>>
        <5>1. r \in Seq(Nodes) /\ Len(r) = 0
          BY <1>2, <3>1, <3>3
        <5> QED  BY <5>1
      <4>2. v.fog[EndOf(v, r)] # Hidden
        BY <4>1 DEF EndOf, Ground, Hidden, Known
      <4>3. XOf[EndOf(v, r)] \in Int /\ YOf[EndOf(v, r)] \in Int /\ XOf[goal] \in Int /\ YOf[goal] \in Int
        BY <2>1, <3>2 DEF Setting
      <4> QED  BY <4>2, <4>3 DEF ExploreScore
    <3>4. CASE n # 0
      <4>1. PICK p : p = SubSeq(r, 1, n - 1)
        OBVIOUS
      <4>2. r \in Seq(Nodes) /\ n - 1 \in 0 .. Len(r)
        BY <1>2, <3>1, <3>4
      <4>3. p \in Seq(Nodes)
        BY <4>1, <4>2
      <4>4. EndOf(v, p) \in Nodes
        BY <4>3, EndIsANode DEF Ground
      <4>5. PICK last \in Nodes : last = IF v.fog[EndOf(v, r)] # Hidden THEN EndOf(v, r) ELSE EndOf(v, p)
        BY <3>2, <4>4
      <4>6. XOf[last] \in Int /\ YOf[last] \in Int /\ XOf[goal] \in Int /\ YOf[goal] \in Int
        BY <2>1 DEF Setting
      <4>7. PICK dx \in Int : dx = XOf[last] - (IF v.fog[goal] # Hidden THEN XOf[goal] ELSE 0)
        BY <4>6
      <4>8. PICK dy \in Int : dy = YOf[last] - (IF v.fog[goal] # Hidden THEN YOf[goal] ELSE 0)
        BY <4>6
      <4>9. ExploreScore(v, r, goal) = dx * dx + dy * dy
        BY <3>1, <4>1, <4>5, <4>7, <4>8 DEF ExploreScore
      <4> QED  BY <4>9
    <3> QED  BY <3>3, <3>4
  <2>2. score[r] = IF goal = NoNode THEN 0 ELSE ExploreScore(v, r, goal)
    BY <1>3
  <2> QED  BY <2>1, <2>2
<1>5. PICK light : light = [r \in routes |-> IF EndsHidden(v, r) THEN 0 ELSE 1]
  OBVIOUS
<1>6. \A r \in routes : light[r] \in Int
  BY <1>5
<1>7. PICK A : A = LeastOn(routes, score)
  OBVIOUS
<1>8. A # {} /\ A \subseteq routes
  BY <1>2, <1>4, <1>7, LeastAreLeast
<1>9. IsFiniteSet(A)
  BY <1>2, <1>8, FS_Subset
<1>10. PICK B : B = LeastOn(A, light)
  OBVIOUS
<1>11. B # {} /\ B \subseteq A
  <2>1. \A r \in A : light[r] \in Int
    BY <1>6, <1>8
  <2> QED  BY <1>8, <1>9, <1>10, <2>1, LeastAreLeast
<1>12. IsFiniteSet(B) /\ B \subseteq routes /\ \A r \in B : r \in Seq(Nodes)
  BY <1>2, <1>8, <1>9, <1>11, FS_Subset
<1>13. PICK steps : steps = [r \in routes |-> -Len(r)]
  OBVIOUS
<1>14. PICK long : long = [r \in B |-> (-1) * Len(r)]
  OBVIOUS
<1>15. \A r \in B : steps[r] = long[r]
  <2> TAKE r \in B
  <2>1. r \in routes /\ Len(r) \in Nat
    BY <1>12
  <2> QED  BY <1>13, <1>14, <2>1
<1>16. LeastOn(B, steps) = LeastOn(B, long)
  BY <1>15, Zenon DEF LeastOn
<1>17. First(LeastOn(B, long), Precedes) \in B
  BY <1>11, <1>12, <1>14, FirstOfLength
<1>18. PICK r : r = First(LeastOn(B, steps), Precedes)
  OBVIOUS
<1>19. r \in routes
  BY <1>12, <1>16, <1>17, <1>18
<1>20. r = ExploreRoute(v, goal)
  BY <1>1, <1>3, <1>5, <1>7, <1>10, <1>13, <1>18, Zenon DEF ExploreRoute
<1> QED  BY <1>1, <1>19, <1>20

\* chooseRoute, with the score of either tier.
LEMMA ChosenIsARoute ==
  ASSUME Setting, NEW v, Ground(v), NEW goal \in Nodes \cup {NoNode},
         NEW score, \A r \in Routes(v) : Reachable(v, goal, EndOf(v, r)) => score[r] \in Int
  PROVE  ChooseRoute(v, goal, score) \in Routes(v)
<1>1. CASE goal # NoNode /\ Reachable(v, goal, v.pos)
  <2>1. NearestRoute(v, goal, score) \in Routes(v)
    BY <1>1, NearestIsARoute
  <2> QED  BY <1>1, <2>1 DEF ChooseRoute
<1>2. CASE ~(goal # NoNode /\ Reachable(v, goal, v.pos))
  BY <1>2, ExploreIsARoute DEF ChooseRoute
<1> QED  BY <1>1, <1>2

-------------------------------------------------------------------------------
(* Contracts and leases.                                                     *)

\* What chooseContractChoice settles on is none, or an offer shown.
LEMMA ChoiceIsOffered ==
  ASSUME Setting, NEW v, Papers(v)
  PROVE  ContractChoice(v) \in 0 .. Len(v.offer)
<1> DEFINE ToOrigin(f) == Reachable(v, v.pos, f.origin)
           Measured(f) == ToOrigin(f) /\ Reachable(v, f.origin, f.dest)
           Total(f) == IF Measured(f) THEN Dist(v, v.pos, f.origin) + Dist(v, f.origin, f.dest)
                       ELSE IF ToOrigin(f) THEN Dist(v, v.pos, f.origin) ELSE Far
           fit == {i \in 1 .. Len(v.offer) :
                     Measured(v.offer[i]) =>
                       Total(v.offer[i]) <= DeadlineOf[v.offer[i].tier] * Most(v.steps, 1)}
           Better(i, j) ==
             LET f == v.offer[i]  g == v.offer[j] IN
             \/ f.tier > g.tier
             \/ f.tier = g.tier /\ (Total(f) < Total(g) \/ (Total(f) = Total(g) /\ i < j))
<1>1. PICK n \in Nat : n = Len(v.offer)
  BY DEF Papers
<1>2. \A i \in 1 .. n : v.offer[i].tier \in Int
  <2> TAKE i \in 1 .. n
  <2>1. v.offer[i] \in Offered
    BY <1>1 DEF Papers
  <2>2. v.offer[i].tier \in Tiers
    BY <2>1 DEF Offered
  <2> QED  BY <2>2 DEF Setting
<1>3. \A f : Total(f) \in Int
  <2> TAKE f
  <2>1. IsFiniteSet(Nodes) /\ Cardinality(Nodes) \in Nat
    BY FS_CardinalityType DEF Setting
  <2>2. ToOrigin(f) => Dist(v, v.pos, f.origin) \in Nat
    BY <2>1, DistIsFirst
  <2>3. Measured(f) => Dist(v, f.origin, f.dest) \in Nat
    BY <2>1, DistIsFirst
  <2> QED  BY <2>2, <2>3 DEF Far
<1>4. fit \in SUBSET (1 .. n)
  BY <1>1
<1>5. ASSUME fit # {}
      PROVE  \E x \in fit : \A y \in fit \ {x} : Better(x, y)
  <2>1. PICK f : f = [i \in 1 .. n |-> -v.offer[i].tier]
    OBVIOUS
  <2>2. PICK g : g = [i \in 1 .. n |-> Total(v.offer[i])]
    OBVIOUS
  <2>3. PICK h : h = [i \in 1 .. n |-> i]
    OBVIOUS
  <2>4. PICK S : S = fit
    OBVIOUS
  <2> HIDE DEF Total, fit
  <2>5. \A x \in S : f[x] \in Int /\ g[x] \in Int /\ h[x] \in Int
    BY <1>2, <1>3, <1>4, <2>1, <2>2, <2>3, <2>4
  <2>6. \A x, y \in S : h[x] = h[y] => x = y
    BY <1>4, <2>3, <2>4
  <2>7. IsFiniteSet(S)
    <3>1. IsFiniteSet(1 .. n)
      BY FS_Interval
    <3> QED  BY <1>4, <2>4, <3>1, FS_Subset
  <2>8. S # {}
    BY <1>5, <2>4
  <2>9. \E x \in S : \A y \in S \ {x} :
           \/ f[x] < f[y]
           \/ f[x] = f[y] /\ (g[x] < g[y] \/ (g[x] = g[y] /\ h[x] < h[y]))
    BY ONLY <2>5, <2>6, <2>7, <2>8, HasFirstByKeys
  <2>10. PICK x \in S : \A y \in S \ {x} :
           \/ f[x] < f[y]
           \/ f[x] = f[y] /\ (g[x] < g[y] \/ (g[x] = g[y] /\ h[x] < h[y]))
    BY <2>9
  <2>11. ASSUME NEW y \in S \ {x} PROVE Better(x, y)
    <3>1. \/ f[x] < f[y]
          \/ f[x] = f[y] /\ (g[x] < g[y] \/ (g[x] = g[y] /\ h[x] < h[y]))
      BY <2>10
    <3>2. x \in 1 .. n /\ y \in 1 .. n
      BY <1>4, <2>4
    <3>3. v.offer[x].tier \in Int /\ v.offer[y].tier \in Int
      BY <1>2, <3>2
    <3>4. /\ f[x] = -v.offer[x].tier /\ f[y] = -v.offer[y].tier
          /\ g[x] = Total(v.offer[x]) /\ g[y] = Total(v.offer[y])
          /\ h[x] = x /\ h[y] = y
      BY <2>1, <2>2, <2>3, <3>2
    <3> QED  BY <3>1, <3>3, <3>4
  <2> QED  BY <2>4, <2>11
<1>6. CASE fit # {}
  <2>1. PICK x : x = CHOOSE i \in fit : \A j \in fit \ {i} : Better(i, j)
    OBVIOUS
  <2>2. x \in fit
    <3> HIDE DEF fit, Better
    <3> QED  BY <1>5, <1>6, <2>1, Zenon
  <2>3. ContractChoice(v) = x
    BY <1>6, <2>1, Zenon DEF ContractChoice, First
  <2> QED  BY <1>1, <1>4, <2>2, <2>3
<1>7. CASE fit = {}
  <2>1. ContractChoice(v) = 0
    BY <1>7, Zenon DEF ContractChoice
  <2> QED  BY <1>1, <2>1
<1> QED  BY <1>6, <1>7

\* maybeRenewLease takes the post that runs out first, if that is soon and the
\* reserve is kept; and it takes one whenever it may.
LEMMA RenewsTheFirst ==
  ASSUME Setting, NEW v, Ground(v)
  PROVE  /\ \/ Renewing(v) = NoNode
            \/ /\ Renewing(v) \in Held(v)
               /\ \A n \in Held(v) : v.posts[Renewing(v)] <= v.posts[n]
               /\ LeaseCost > 0 /\ v.balance - LeaseCost >= ShakedownCost
         /\ \A n \in Held(v) :
              \/ LeaseCost <= 0 \/ v.posts[n] > AboutToLapse
              \/ v.balance - LeaseCost < ShakedownCost
              \/ Renewing(v) # NoNode
<1>1. PICK held : held = Held(v)
  OBVIOUS
<1>2. PICK posts : posts = v.posts
  OBVIOUS
<1>3. held \in SUBSET Nodes /\ \A n \in Nodes : posts[n] \in Nat
  BY <1>1, <1>2 DEF Held, Ground
<1> DEFINE t == CHOOSE x \in Held(v) : \A y \in Held(v) \ {x} :
                    v.posts[x] < v.posts[y] \/ (v.posts[x] = v.posts[y] /\ x < y)
<1>5. held # {} => t \in held /\ \A y \in held : posts[t] <= posts[y]
  <2>1. Held(v) \in SUBSET Nodes /\ \A n \in Nodes : v.posts[n] \in Nat
    BY <1>1, <1>2, <1>3
  <2>2. Held(v) # {} => t \in Held(v) /\ \A y \in Held(v) : v.posts[t] <= v.posts[y]
    BY <2>1, FirstToLapse
  <2> HIDE DEF t
  <2> QED  BY <1>1, <1>2, <2>2
<1>6. Renewing(v) = IF \/ LeaseCost <= 0 \/ held = {}
                       \/ posts[t] > AboutToLapse
                       \/ v.balance - LeaseCost < ShakedownCost
                    THEN NoNode ELSE t
  <2>1. Renewing(v) = IF \/ LeaseCost <= 0 \/ Held(v) = {}
                         \/ v.posts[t] > AboutToLapse
                         \/ v.balance - LeaseCost < ShakedownCost
                      THEN NoNode ELSE t
    BY Zenon DEF Renewing, First
  <2> HIDE DEF t
  <2> QED  BY <1>1, <1>2, <2>1
<1> HIDE DEF t
<1>7. LeaseCost \in Nat /\ ShakedownCost \in Nat /\ v.balance \in Nat /\ NoNode \notin Nodes
  BY DEF Setting, Ground, NoNode
<1>8. \/ Renewing(v) = NoNode
      \/ /\ Renewing(v) \in held
         /\ \A n \in held : posts[Renewing(v)] <= posts[n]
         /\ LeaseCost > 0 /\ v.balance - LeaseCost >= ShakedownCost
  BY <1>5, <1>6, <1>7
<1>9. ASSUME NEW n \in held
      PROVE  \/ LeaseCost <= 0 \/ posts[n] > AboutToLapse
             \/ v.balance - LeaseCost < ShakedownCost
             \/ Renewing(v) # NoNode
  <2>1. t \in held /\ posts[t] <= posts[n] /\ t # NoNode
    BY <1>3, <1>5, <1>7
  <2>2. posts[t] \in Nat /\ posts[n] \in Nat
    BY <1>3, <2>1
  <2> QED  BY <1>6, <2>1, <2>2 DEF AboutToLapse
<1> QED  BY <1>1, <1>2, <1>8, <1>9

-------------------------------------------------------------------------------
(* The three tiers' orders.                                                  *)

\* An order's fields.
OrderFields == {"route", "push", "stance", "stake", "items", "act", "item", "ledger", "blocks", "renewAt", "choice"}

\* What holds of an order whatever its action: a route of the view, steps beyond
\* it only into the dark, nothing discarded, and add-ons the balance covers.
Drafted(v, o) ==
  /\ DOMAIN o = OrderFields
  /\ o.route \in Routes(v)
  /\ o.push.steps \in 0 .. 2
  /\ o.push # NoPush => EndsHidden(v, o.route)
  /\ o.stake = 0 /\ o.items = <<>>
  /\ o.ledger => v.round < Rounds
  /\ o.blocks \in Nat
  /\ Spent(o) <= v.balance

\* Such a draft is legal, whatever add-ons are left out.
LEMMA DraftedIsLegal ==
  ASSUME Setting, NEW v, Ground(v), NEW o, Drafted(v, o), LegalAction(v, o),
         o.push # NoPush => o.act = "nothing", o.act \notin {"stake", "deal"}
  PROVE  Legal(v, o)
<1>1. LegalRoute(v, o.route) /\ Len(o.route) <= v.steps
  BY RoutesAreLegal DEF Setting, Ground, Drafted
<1>2. LegalPushingOn(v, o)
  BY DEF LegalPushingOn, Drafted
<1>3. o.stake >= 0 /\ LegalBalance(v, o)
  BY DEF LegalBalance, Drafted
<1>4. LegalPostCap(v, o) /\ LegalHandLimit(v, o)
  BY DEF LegalPostCap, LegalHandLimit
<1>5. LegalDiscards(v, o) /\ LegalItemTargets(v, o)
  <2>1. o.items = <<>>
    BY DEF Drafted
  <2>2. Len(o.items) = 0 /\ 1 .. Len(o.items) = {}
    BY <2>1
  <2> QED  BY <2>2, Zenon DEF LegalDiscards, LegalItemTargets
<1> QED  BY <1>1, <1>2, <1>3, <1>4, <1>5 DEF Legal

\* What the choice of a contract says is no part of Legal.
LEMMA ChoiceIsFree ==
  ASSUME NEW v, NEW o, DOMAIN o = OrderFields, NEW c, Legal(v, o)
  PROVE  Legal(v, [o EXCEPT !.choice = c])
<1>1. PICK p : p = [o EXCEPT !.choice = c]
  OBVIOUS
<1>2. /\ p.route = o.route /\ p.push = o.push /\ p.stake = o.stake /\ p.items = o.items
      /\ p.act = o.act /\ p.ledger = o.ledger /\ p.blocks = o.blocks
  BY <1>1 DEF OrderFields
<1>3. /\ LegalRoute(v, p.route) /\ Len(p.route) <= v.steps /\ p.stake >= 0
  BY <1>2 DEF Legal
<1>4. LegalPushingOn(v, p) /\ LegalAction(v, p)
  BY <1>2 DEF Legal, LegalPushingOn, LegalAction
<1>5. LegalBalance(v, p)
  <2>1. Spent(p) = Spent(o)
    BY <1>2 DEF Spent
  <2> QED  BY <1>2, <2>1 DEF Legal, LegalBalance
<1>6. LegalPostCap(v, p) /\ LegalHandLimit(v, p)
  BY <1>2 DEF Legal, LegalPostCap, LegalHandLimit
<1>7. LegalDiscards(v, p) /\ LegalItemTargets(v, p)
  <2>1. LegalDiscards(v, o) /\ LegalItemTargets(v, o)
    BY DEF Legal
  <2> QED  BY <1>2, <2>1, Zenon DEF LegalDiscards, LegalItemTargets
<1> QED  BY <1>1, <1>3, <1>4, <1>5, <1>6, <1>7 DEF Legal

\* The route and the steps beyond it, of either tier.
LEMMA PlannedIsDrafted ==
  ASSUME Setting, NEW v, Ground(v), NEW route \in Routes(v), NEW goal
  PROVE  /\ Drafted(v, Planned(v, route, goal))
         /\ Planned(v, route, goal).route = route
         /\ Planned(v, route, goal).blocks = 0 /\ ~Planned(v, route, goal).ledger
<1>1. PICK push : push = ChoosePushingOn(v, route, goal)
  OBVIOUS
<1>2. push.steps \in 0 .. 2 /\ (push # NoPush => EndsHidden(v, route))
  BY <1>1 DEF ChoosePushingOn, NoPush
<1>3. PICK o : o = Planned(v, route, goal)
  OBVIOUS
<1>4. o = [NoOrder EXCEPT !.route = route, !.push = push, !.stance = RunnerStance(v)]
  BY <1>1, <1>3 DEF Planned
<1>5. /\ DOMAIN o = OrderFields
      /\ o.route = route /\ o.push = push /\ o.stake = 0 /\ o.items = <<>>
      /\ ~o.ledger /\ o.blocks = 0
  BY <1>4 DEF NoOrder, OrderFields
<1>6. Spent(o) = 0
  BY <1>5 DEF Setting, Spent
<1>7. Drafted(v, o)
  BY <1>2, <1>5, <1>6 DEF Drafted, Ground
<1> QED  BY <1>3, <1>5, <1>7

\* What the add-ons cost leaves the reserve for a shakedown.
Covered(v, o) == o.ledger \/ o.blocks > 0 => v.balance - Spent(o) >= ShakedownCost
\* A post about to lapse is renewed, or one as urgent is, unless that would touch
\* the reserve.
Timely(v, o) ==
  \A n \in Held(v) :
    \/ LeaseCost <= 0 \/ v.posts[n] > AboutToLapse \/ v.balance - LeaseCost < ShakedownCost
    \/ o.blocks > 0 /\ o.renewAt \in Held(v) /\ v.posts[o.renewAt] <= v.posts[n]

\* Renewing a lease keeps a draft within the balance, the reserve kept, and is all
\* that is in time to be renewed (runner.go, maybeRenewLease).
LEMMA RenewalIsDrafted ==
  ASSUME Setting, NEW v, Ground(v), NEW d, Drafted(v, d), d.blocks = 0, ~d.ledger
  PROVE  LET o == WithRenewal(v, d)
         IN /\ Drafted(v, o) /\ Covered(v, o) /\ Timely(v, o)
            /\ o.route = d.route /\ o.push = d.push /\ o.act = d.act /\ o.choice = d.choice /\ ~o.ledger
<1>1. LeaseCost \in Nat /\ LedgerCost \in Nat /\ ShakedownCost \in Nat /\ v.balance \in Nat
  BY DEF Setting, Ground
<1>2. CASE Renewing(v) = NoNode
  <2>1. WithRenewal(v, d) = d
    BY <1>2 DEF WithRenewal
  <2>2. Timely(v, d)
    BY <1>2, RenewsTheFirst, Zenon DEF Timely
  <2> QED  BY <2>1, <2>2 DEF Covered, Drafted
<1>3. CASE Renewing(v) # NoNode
  <2>1. PICK o : o = WithRenewal(v, d)
    OBVIOUS
  <2>2. o = [d EXCEPT !.renewAt = Renewing(v), !.blocks = 1]
    BY <1>3, <2>1 DEF WithRenewal
  <2>3. DOMAIN d = OrderFields
    BY DEF Drafted
  <2>4. /\ DOMAIN o = OrderFields
        /\ o.route = d.route /\ o.push = d.push /\ o.stake = d.stake /\ o.items = d.items
        /\ o.act = d.act /\ o.ledger = d.ledger /\ o.choice = d.choice
        /\ o.blocks = 1 /\ o.renewAt = Renewing(v)
    BY <2>2, <2>3 DEF OrderFields
  <2>5. Renewing(v) \in Held(v) /\ v.balance - LeaseCost >= ShakedownCost
        /\ \A n \in Held(v) : v.posts[Renewing(v)] <= v.posts[n]
    BY <1>3, RenewsTheFirst
  <2>6. Spent(o) = LeaseCost
    BY <1>1, <2>4 DEF Spent
  <2>7. Drafted(v, o) /\ Covered(v, o)
    BY <1>1, <2>4, <2>5, <2>6 DEF Drafted, Covered
  <2>8. Timely(v, o)
    BY <2>4, <2>5 DEF Timely
  <2> QED  BY <2>1, <2>4, <2>7, <2>8
<1> QED  BY <1>2, <1>3

\* What an order gives the round: a walk, a stake, lease blocks and an offer.
Playable(v, o) ==
  /\ Legal(v, o)
  /\ DOMAIN o = OrderFields
  /\ o.route \in Seq(Nodes) /\ o.stake \in Nat
  /\ o.blocks \in Nat /\ o.choice \in 0 .. Len(v.offer)
\* What the two tiers that plan keep to besides.
Careful(v, o) ==
  /\ o.stake = 0 /\ Covered(v, o) /\ Timely(v, o)
  /\ o.act = "stake" => /\ Renewing(v) = NoNode /\ LeaseCost > 0
                        /\ v.blockRounds > 0 /\ o.blocks = BlocksToSurvive(v.blockRounds)

\* A Runner's order is playable and careful (runner.go, Decide).
LEMMA RunnerDecides ==
  ASSUME Setting, NEW v, Sees(v)
  PROVE  Playable(v, RunnerOrder(v)) /\ Careful(v, RunnerOrder(v))
<1>1. PICK goal \in Nodes \cup {NoNode} : goal = RunnerObjective(v)
  BY ObjectiveIsANode DEF Sees
<1>2. PICK steps : steps = [r \in Routes(v) |-> Dist(v, goal, EndOf(v, r))]
  OBVIOUS
<1>3. \A r \in Routes(v) : Reachable(v, goal, EndOf(v, r)) => steps[r] \in Int
  <2> TAKE r \in Routes(v)
  <2>1. IsFiniteSet(Nodes) /\ Cardinality(Nodes) \in Nat
    BY FS_CardinalityType DEF Setting
  <2>2. Reachable(v, goal, EndOf(v, r)) => Dist(v, goal, EndOf(v, r)) \in 0 .. Cardinality(Nodes)
    BY <2>1, DistIsFirst
  <2> QED  BY <1>2, <2>1, <2>2
<1>4. PICK route \in Routes(v) : route = ChooseRoute(v, goal, steps)
  BY <1>3, ChosenIsARoute DEF Sees
<1>5. PICK p : p = Planned(v, route, goal)
  OBVIOUS
<1>6. Drafted(v, p) /\ p.route = route /\ p.blocks = 0 /\ ~p.ledger
  BY <1>5, PlannedIsDrafted DEF Sees
<1>7. PICK act : act = IF p.push # NoPush THEN "nothing" ELSE RunnerAction(v, EndOf(v, p.route), goal)
  OBVIOUS
<1>8. PICK choice \in 0 .. Len(v.offer) : choice = ContractChoice(v)
  BY ChoiceIsOffered DEF Sees
<1>9. PICK d : d = [p EXCEPT !.act = act, !.choice = choice]
  OBVIOUS
<1>10. d = RunnerDeed(v, p, goal)
  BY <1>7, <1>8, <1>9 DEF RunnerDeed
<1>11. /\ DOMAIN d = OrderFields
       /\ d.route = p.route /\ d.push = p.push /\ d.stake = p.stake /\ d.items = p.items
       /\ d.ledger = p.ledger /\ d.blocks = p.blocks /\ d.act = act /\ d.choice = choice
  BY <1>6, <1>9 DEF Drafted, OrderFields
<1>12. Drafted(v, d)
  BY <1>6, <1>11 DEF Drafted, Spent
<1>13. PICK o : o = WithRenewal(v, d)
  OBVIOUS
<1>14. /\ Drafted(v, o) /\ Covered(v, o) /\ Timely(v, o)
       /\ o.route = route /\ o.push = p.push /\ o.act = act /\ o.choice = choice
  BY <1>6, <1>11, <1>12, <1>13, RenewalIsDrafted DEF Sees
<1>15. act \notin {"stake", "deal"} /\ (p.push # NoPush => act = "nothing")
  BY <1>7 DEF RunnerAction
<1>16. LegalAction(v, o)
  <2>1. o.act = "pickup" => ~v.strike
    BY <1>7, <1>14 DEF RunnerAction, CanPickup
  <2>2. o.act = "deliver" => CanDeliver(v, EndOf(v, o.route))
    BY <1>6, <1>7, <1>14 DEF RunnerAction
  <2> QED  BY <1>14, <1>15, <2>1, <2>2 DEF LegalAction, CanDeliver
<1>17. Legal(v, o)
  BY <1>14, <1>15, <1>16, DraftedIsLegal DEF Sees
<1>18. Playable(v, o)
  <2>1. route \in Seq(Nodes)
    BY RoutesAreLegal DEF Setting, Sees, Ground
  <2> QED  BY <1>14, <1>17, <2>1 DEF Playable, Drafted
<1>19. Careful(v, o)
  BY <1>14, <1>15 DEF Careful, Drafted
<1>20. o = RunnerOrder(v)
  BY <1>1, <1>2, <1>4, <1>5, <1>10, <1>13 DEF RunnerOrder, RunnerFor
<1> QED  BY <1>18, <1>19, <1>20

\* Dropping discards and Pushing On leaves the rest of a draft as it is.
LEMMA RelaxedIsDrafted ==
  ASSUME NEW v, NEW d, Drafted(v, d)
  PROVE  LET o == Relaxed(v, d)
         IN /\ Drafted(v, o) /\ o.act = d.act
            /\ o.route = d.route /\ o.blocks = d.blocks /\ o.ledger = d.ledger /\ o.renewAt = d.renewAt
<1>1. PICK bare : bare = [d EXCEPT !.items = <<>>]
  OBVIOUS
<1>2. PICK flat : flat = [bare EXCEPT !.push = NoPush]
  OBVIOUS
<1>3. DOMAIN d = OrderFields
  BY DEF Drafted
<1>4. /\ DOMAIN bare = OrderFields /\ bare.items = <<>>
      /\ bare.route = d.route /\ bare.push = d.push /\ bare.stake = d.stake /\ bare.act = d.act
      /\ bare.blocks = d.blocks /\ bare.ledger = d.ledger /\ bare.renewAt = d.renewAt
  BY <1>1, <1>3 DEF OrderFields
<1>5. /\ DOMAIN flat = OrderFields /\ flat.items = <<>> /\ flat.push = NoPush
      /\ flat.route = d.route /\ flat.stake = d.stake /\ flat.act = d.act
      /\ flat.blocks = d.blocks /\ flat.ledger = d.ledger /\ flat.renewAt = d.renewAt
  BY <1>2, <1>4 DEF OrderFields
<1>6. Drafted(v, bare)
  BY <1>4 DEF Drafted, Spent
<1>7. Drafted(v, flat)
  <2>1. NoPush.steps \in 0 .. 2
    BY DEF NoPush
  <2> QED  BY <1>5, <2>1 DEF Drafted, Spent
<1>8. Relaxed(v, d) \in {d, bare, flat}
  BY <1>1, <1>2 DEF Relaxed
<1> QED  BY <1>4, <1>5, <1>6, <1>7, <1>8

\* The blocks that outlast the next upkeep (operator.go, stakeBlocksToSurviveUpkeep).
LEMMA SurvivingBlocks ==
  ASSUME NEW rounds \in Int
  PROVE  /\ BlocksToSurvive(rounds) \in Nat
         /\ BlocksToSurvive(rounds) > 0 => rounds > 0
         /\ rounds > 0 => BlocksToSurvive(rounds) = IF rounds = 1 THEN 2 ELSE 1
<1>1. CASE rounds <= 0
  BY <1>1 DEF BlocksToSurvive
<1>2. CASE rounds > 0
  <2>1. (rounds + 1) \div rounds = IF rounds = 1 THEN 2 ELSE 1
    <3>1. CASE rounds = 1
      BY <3>1
    <3>2. CASE rounds > 1
      <4>1. PICK q : q = (rounds + 1) \div rounds
        OBVIOUS
      <4>2. q \in Int /\ rounds * q <= rounds + 1 /\ rounds + 1 < rounds * q + rounds
        BY <3>2, <4>1
      <4>3. ~(q >= 2)
        BY <3>2, <4>2
      <4>4. ~(q <= 0)
        BY <3>2, <4>2
      <4> QED  BY <3>2, <4>1, <4>2, <4>3, <4>4
    <3> QED  BY <1>2, <3>1, <3>2
  <2> QED  BY <1>2, <2>1 DEF BlocksToSurvive
<1> QED  BY <1>1, <1>2

\* chooseAddOns: what it adds is covered, with the Ledger, and in time.
LEMMA AddOnsAreDrafted ==
  ASSUME Setting, NEW v, Ground(v), NEW d, Drafted(v, d), d.blocks = 0, ~d.ledger, d.act = "nothing",
         NEW goal, NEW funds, funds => Renewing(v) = NoNode /\ Fundable(v, d, goal)
  PROVE  LET o == OperatorAddOns(v, d, goal, funds)
         IN /\ Drafted(v, o) /\ Covered(v, o) /\ Timely(v, o)
            /\ o.act = "nothing"
            /\ funds => o.blocks = BlocksToSurvive(v.blockRounds)
<1>1. /\ LeaseCost \in Nat /\ LedgerCost \in Nat /\ ShakedownCost \in Nat
      /\ v.balance \in Nat /\ v.blockRounds \in Int
  BY DEF Setting, Ground
<1>2. PICK p : p = IF funds THEN [Staking(v, d, goal) EXCEPT !.act = "nothing"] ELSE WithRenewal(v, d)
  OBVIOUS
<1>3. /\ Drafted(v, p) /\ Covered(v, p) /\ Timely(v, p) /\ p.act = "nothing" /\ ~p.ledger
      /\ funds => p.blocks = BlocksToSurvive(v.blockRounds)
  <2>1. CASE funds
    <3>1. PICK blocks \in Nat : blocks = BlocksToSurvive(v.blockRounds)
      BY <1>1, SurvivingBlocks
    <3>2. PICK s : s = [d EXCEPT !.renewAt = goal, !.blocks = blocks, !.act = "stake"]
      OBVIOUS
    <3>3. p = [s EXCEPT !.act = "nothing"]
      BY <1>2, <2>1, <3>1, <3>2 DEF Staking
    <3>4. /\ DOMAIN p = OrderFields
          /\ p.route = d.route /\ p.push = d.push /\ p.stake = d.stake /\ p.items = d.items
          /\ p.ledger = d.ledger /\ p.blocks = blocks /\ p.act = "nothing"
      BY <3>2, <3>3 DEF Drafted, OrderFields
    <3>5. PICK cost \in Nat : cost = blocks * LeaseCost
      BY <1>1
    <3>6. v.balance - cost >= ShakedownCost
      BY <2>1, <3>1, <3>5 DEF Fundable
    <3>7. Spent(p) = cost
      BY <3>4, <3>5 DEF Spent
    <3>8. Drafted(v, p) /\ Covered(v, p)
      BY <1>1, <3>4, <3>6, <3>7 DEF Drafted, Covered
    <3>9. Timely(v, p)
      BY <2>1, RenewsTheFirst, Zenon DEF Timely
    <3> QED  BY <3>1, <3>4, <3>8, <3>9
  <2>2. CASE ~funds
    BY <1>2, <2>2, RenewalIsDrafted
  <2> QED  BY <2>1, <2>2
<1>4. PICK paid \in BOOLEAN : paid = (/\ v.round < Rounds /\ LedgerCost <= v.balance /\ v.jump
                    /\ v.balance - p.blocks * LeaseCost - LedgerCost >= ShakedownCost)
  OBVIOUS
<1>5. PICK o : o = [p EXCEPT !.ledger = paid]
  OBVIOUS
<1>6. o = OperatorAddOns(v, d, goal, funds)
  BY <1>2, <1>4, <1>5, Zenon DEF OperatorAddOns, WithLedger
<1>7. /\ DOMAIN o = OrderFields
      /\ o.route = p.route /\ o.push = p.push /\ o.stake = p.stake /\ o.items = p.items
      /\ o.blocks = p.blocks /\ o.act = "nothing" /\ o.ledger = paid /\ o.renewAt = p.renewAt
  BY <1>3, <1>5 DEF Drafted, OrderFields
<1>8. CASE paid
  <2>1. PICK cost \in Nat : cost = p.blocks * LeaseCost
    <3>1. p.blocks \in Nat
      BY <1>3 DEF Drafted
    <3> QED  BY <1>1, <3>1
  <2>2. v.round < Rounds /\ v.balance - cost - LedgerCost >= ShakedownCost
    BY <1>4, <1>8, <2>1
  <2>3. Spent(o) = LedgerCost + cost
    BY <1>7, <1>8, <2>1 DEF Spent
  <2>4. Spent(o) <= v.balance /\ v.balance - Spent(o) >= ShakedownCost
    BY <1>1, <2>1, <2>2, <2>3
  <2>5. Drafted(v, o)
    BY <1>3, <1>7, <2>2, <2>4 DEF Drafted
  <2>6. Covered(v, o)
    BY <2>4 DEF Covered
  <2> QED  BY <1>3, <1>6, <1>7, <2>5, <2>6 DEF Timely
<1>9. CASE ~paid
  <2>1. Spent(o) = Spent(p)
    BY <1>3, <1>7, <1>9 DEF Spent
  <2>2. Drafted(v, o) /\ Covered(v, o)
    BY <1>3, <1>7, <1>9, <2>1 DEF Drafted, Covered
  <2> QED  BY <1>3, <1>6, <1>7, <2>2 DEF Timely
<1> QED  BY <1>8, <1>9

\* The operator's deed is one that leaves its order legal.
LEMMA DeedIsLegal ==
  ASSUME Setting, NEW v, Ground(v), NEW d, Drafted(v, d), d.act = "nothing",
         NEW goal, NEW funds,
         NEW o, o = OperatorActs(v, d, goal, funds)
  PROVE  /\ Legal(v, o)
         /\ o.act = "stake" => funds
         /\ DOMAIN o = OrderFields /\ o.stake = d.stake
         /\ o.route = d.route /\ o.push = d.push /\ o.blocks = d.blocks
         /\ o.ledger = d.ledger /\ o.renewAt = d.renewAt
         /\ o.choice = ContractChoice(v)
<1>1. PICK can : can = Actions(v, d)
  OBVIOUS
<1>2. PICK deed : deed = OperatorDeed(v, EndOf(v, d.route), goal, funds, can)
  OBVIOUS
<1>3. /\ deed \in can \/ deed = Doing("nothing")
      /\ deed.act = "stake" => funds
  <2> DEFINE deal == IF Wanted(v, EndOf(v, d.route)) = {} THEN Doing("deal")
                     ELSE [act |-> "deal", item |-> Preference[First(Wanted(v, EndOf(v, d.route)), Lower)]]
  <2>1. deal.act = "deal"
    BY DEF Doing
  <2>2. /\ Doing("deliver").act = "deliver" /\ Doing("pickup").act = "pickup"
        /\ Doing("vanish").act = "vanish" /\ Doing("nothing").act = "nothing"
    BY DEF Doing
  <2>3. \/ deed \in {Doing("deliver"), Doing("pickup"), deal, Doing("vanish")} /\ deed \in can
        \/ deed = Doing("stake") /\ deed \in can /\ funds
        \/ deed = Doing("nothing")
    <3>1. deed = IF CanDeliver(v, EndOf(v, d.route)) /\ Doing("deliver") \in can THEN Doing("deliver")
                 ELSE IF CanPickup(v, EndOf(v, d.route), goal) /\ Doing("pickup") \in can THEN Doing("pickup")
                 ELSE IF funds /\ Doing("stake") \in can THEN Doing("stake")
                 ELSE IF deal \in can THEN deal
                 ELSE IF TimeToVanish(v) /\ Doing("vanish") \in can THEN Doing("vanish")
                 ELSE Doing("nothing")
      BY <1>2, Zenon DEF OperatorDeed
    <3> HIDE DEF deal
    <3> QED  BY <3>1
  <2> HIDE DEF deal
  <2> QED  BY <2>1, <2>2, <2>3
<1>4. PICK w : w = WithAction(d, deed)
  OBVIOUS
<1>5. w = [d EXCEPT !.act = deed.act, !.item = deed.item]
  BY <1>4 DEF WithAction
<1>6. /\ DOMAIN w = OrderFields /\ w.act = deed.act
      /\ w.route = d.route /\ w.push = d.push /\ w.stake = d.stake /\ w.items = d.items
      /\ w.ledger = d.ledger /\ w.blocks = d.blocks /\ w.renewAt = d.renewAt
  BY <1>5 DEF Drafted, OrderFields
<1>7. Legal(v, w)
  <2>1. CASE deed \in can
    BY <1>1, <1>4, <2>1 DEF Actions
  <2>2. CASE deed = Doing("nothing")
    <3>1. w.act = "nothing"
      BY <1>6, <2>2 DEF Doing
    <3>2. Drafted(v, w)
      BY <1>6 DEF Drafted, Spent
    <3>3. LegalAction(v, w)
      BY <3>1 DEF LegalAction
    <3> QED  BY <3>1, <3>2, <3>3, DraftedIsLegal
  <2> QED  BY <1>3, <2>1, <2>2
<1>8. o = [w EXCEPT !.choice = ContractChoice(v)]
  BY <1>1, <1>2, <1>4 DEF OperatorActs
<1>9. Legal(v, o)
  BY <1>6, <1>7, <1>8, ChoiceIsFree
<1> QED  BY <1>3, <1>6, <1>8, <1>9 DEF OrderFields

\* An Operator's order is playable and careful (operator.go, Decide).
LEMMA OperatorDecides ==
  ASSUME Setting, NEW v, Sees(v)
  PROVE  Playable(v, OperatorOrder(v)) /\ Careful(v, OperatorOrder(v))
<1>1. PICK job \in Nodes \cup {NoNode} : job = RunnerObjective(v)
  BY ObjectiveIsANode DEF Sees
<1>2. PICK goal \in Nodes \cup {NoNode} : goal = OperatorGoal(v, job)
  BY ChokepointIsANode DEF OperatorGoal
<1>3. PICK score : score = [r \in Routes(v) |-> RouteScore(v, r, goal)]
  OBVIOUS
<1>4. \A r \in Routes(v) : Reachable(v, goal, EndOf(v, r)) => score[r] \in Int
  <2> TAKE r \in Routes(v)
  <2>1. IsFiniteSet(Nodes) /\ Cardinality(Nodes) \in Nat
    BY FS_CardinalityType DEF Setting
  <2>2. Reachable(v, goal, EndOf(v, r)) => Dist(v, goal, EndOf(v, r)) \in 0 .. Cardinality(Nodes)
    BY <2>1, DistIsFirst
  <2>3. v.penalty \in Int
    BY DEF Sees, Ground
  <2> QED  BY <1>3, <2>1, <2>2, <2>3 DEF RouteScore
<1>5. PICK route \in Routes(v) : route = ChooseRoute(v, goal, score)
  BY <1>4, ChosenIsARoute DEF Sees
<1>6. PICK p : p = Planned(v, route, goal)
  OBVIOUS
<1>7. Drafted(v, p) /\ p.route = route /\ p.blocks = 0 /\ ~p.ledger /\ p.act = "nothing"
  <2>1. p.act = "nothing"
    BY <1>6 DEF Planned, NoOrder
  <2> QED  BY <1>6, <2>1, PlannedIsDrafted DEF Sees
<1>8. p = OperatorDraft(v, goal)
  BY <1>3, <1>5, <1>6 DEF OperatorDraft
<1>9. PICK funds \in BOOLEAN : funds = Funds(v, p, job, goal)
  BY DEF Funds
<1>10. funds => Renewing(v) = NoNode /\ Fundable(v, p, goal)
  BY <1>9 DEF Funds
<1>11. PICK a : a = OperatorAddOns(v, p, goal, funds)
  OBVIOUS
<1>12. /\ Drafted(v, a) /\ Covered(v, a) /\ Timely(v, a) /\ a.act = "nothing"
       /\ funds => a.blocks = BlocksToSurvive(v.blockRounds)
  BY <1>7, <1>10, <1>11, AddOnsAreDrafted DEF Sees
<1>13. PICK d : d = Relaxed(v, a)
  OBVIOUS
<1>14. /\ Drafted(v, d) /\ d.act = "nothing"
       /\ d.route = a.route /\ d.blocks = a.blocks /\ d.ledger = a.ledger /\ d.renewAt = a.renewAt
  BY <1>12, <1>13, RelaxedIsDrafted
<1>15. PICK o : o = OperatorActs(v, d, goal, funds)
  OBVIOUS
<1>16. /\ Legal(v, o)
       /\ o.act = "stake" => funds
       /\ DOMAIN o = OrderFields /\ o.stake = d.stake
       /\ o.route = d.route /\ o.push = d.push /\ o.blocks = d.blocks
       /\ o.ledger = d.ledger /\ o.renewAt = d.renewAt
       /\ o.choice = ContractChoice(v)
  BY <1>14, <1>15, DeedIsLegal DEF Sees
<1>17. Playable(v, o)
  <2>1. ContractChoice(v) \in 0 .. Len(v.offer)
    BY ChoiceIsOffered DEF Sees
  <2>2. o.route \in Seq(Nodes)
    BY <1>14, <1>16, RoutesAreLegal DEF Drafted, Setting, Sees, Ground
  <2> QED  BY <1>14, <1>16, <2>1, <2>2 DEF Playable, Drafted
<1>18. Careful(v, o)
  <2>1. Covered(v, o)
    <3>1. Spent(o) = Spent(a)
      BY <1>14, <1>16 DEF Spent
    <3> QED  BY <1>12, <1>14, <1>16, <3>1 DEF Covered
  <2>2. Timely(v, o)
    BY <1>12, <1>14, <1>16 DEF Timely
  <2>3. ASSUME o.act = "stake"
        PROVE  /\ Renewing(v) = NoNode /\ LeaseCost > 0
               /\ v.blockRounds > 0 /\ o.blocks = BlocksToSurvive(v.blockRounds)
    <3>1. funds
      BY <1>16, <2>3
    <3>2. LeaseCost > 0 /\ BlocksToSurvive(v.blockRounds) > 0
      BY <1>10, <3>1 DEF Fundable
    <3>3. v.blockRounds > 0
      BY <3>2, SurvivingBlocks DEF Sees, Ground
    <3> QED  BY <1>10, <1>12, <1>14, <1>16, <3>1, <3>2, <3>3
  <2> QED  BY <1>14, <1>16, <2>1, <2>2, <2>3 DEF Careful, Drafted
<1>19. o = OperatorOrder(v)
  BY <1>1, <1>2, <1>8, <1>9, <1>11, <1>13, <1>15 DEF OperatorOrder, OperatorFor, OperatorOn, OperatorPlays
<1> QED  BY <1>17, <1>18, <1>19

\* MaxLeaseBlocks counts no block the balance cannot pay for.
LEMMA BlocksAreAffordable ==
  ASSUME Setting, NEW v, Ground(v), NEW o, NEW left \in Nat,
         left = v.balance - (IF o.ledger THEN LedgerCost ELSE 0),
         NEW b \in 1 .. MaxLeaseBlocks(v, o)
  PROVE  b \in Nat /\ b * LeaseCost <= left
<1>1. /\ LeaseCost \in Nat /\ MaxBlocks \in Nat /\ v.blockRounds \in Int
      /\ \A n \in Nodes : v.posts[n] \in Nat
  BY DEF Setting, Ground
<1>2. PICK affordable : affordable = IF LeaseCost > 0 THEN Most(0, Least(MaxBlocks, left \div LeaseCost)) ELSE 0
  OBVIOUS
<1>3. affordable \in Int
  <2>1. LeaseCost > 0 => left \div LeaseCost \in Int
    BY <1>1
  <2> QED  BY <1>1, <1>2, <2>1 DEF Most, Least
<1>4. MaxLeaseBlocks(v, o) <= affordable /\ MaxLeaseBlocks(v, o) \in Int
  <2>1. MaxLeaseBlocks(v, o) = IF o.blocks > 0 /\ o.renewAt \in Held(v)
                               THEN Least(affordable, RenewalBlockCap(v.posts[o.renewAt], v.blockRounds))
                               ELSE affordable
    BY <1>2 DEF MaxLeaseBlocks
  <2>2. CASE o.renewAt \in Held(v)
    <3>1. PICK current \in Nat : current = v.posts[o.renewAt]
      BY <1>1, <2>2 DEF Held
    <3>2. RenewalBlockCap(current, v.blockRounds) \in Int
      <4>1. PICK rounds \in Int : rounds = v.blockRounds
        BY <1>1
      <4>2. PICK most \in Int : most = MaxBlocks * rounds - current
        BY <1>1
      <4>3. Most(0, most) \in Int
        BY DEF Most
      <4>4. rounds > 0 => Most(0, most) \div rounds \in Int
        BY <4>3
      <4> QED  BY <4>1, <4>2, <4>4 DEF RenewalBlockCap
    <3> QED  BY <1>3, <2>1, <3>1, <3>2 DEF Least
  <2>3. CASE o.renewAt \notin Held(v)
    BY <1>3, <2>1, <2>3
  <2> QED  BY <2>2, <2>3
<1>5. b \in Nat /\ 1 <= b /\ b <= affordable
  BY <1>3, <1>4
<1>6. LeaseCost > 0
  BY <1>1, <1>2, <1>5
<1>7. PICK q \in Int : q = left \div LeaseCost
  BY <1>1, <1>6
<1>8. b <= q
  BY <1>1, <1>2, <1>5, <1>6, <1>7 DEF Most, Least
<1>9. q * LeaseCost <= left
  BY <1>1, <1>6, <1>7
<1>10. b * LeaseCost <= q * LeaseCost
  BY <1>1, <1>5, <1>8
<1> QED  BY <1>1, <1>5, <1>7, <1>9, <1>10

\* Adding a Ledger or lease blocks touches nothing but what an order costs.
LEMMA AddOnsKeepLegal ==
  ASSUME NEW v, NEW w, NEW o, Legal(v, w),
         o.route = w.route, o.push = w.push, o.stake = w.stake, o.items = w.items, o.act = w.act,
         LegalBalance(v, o)
  PROVE  Legal(v, o)
<1>1. /\ LegalRoute(v, o.route) /\ Len(o.route) <= v.steps /\ o.stake >= 0
  BY DEF Legal
<1>2. LegalPushingOn(v, o) /\ LegalAction(v, o)
  BY DEF Legal, LegalPushingOn, LegalAction
<1>3. LegalPostCap(v, o) /\ LegalHandLimit(v, o)
  BY DEF Legal, LegalPostCap, LegalHandLimit
<1>4. LegalDiscards(v, o) /\ LegalItemTargets(v, o)
  <2>1. LegalDiscards(v, w) /\ LegalItemTargets(v, w)
    BY DEF Legal
  <2> QED  BY <2>1, Zenon DEF LegalDiscards, LegalItemTargets
<1> QED  BY <1>1, <1>2, <1>3, <1>4 DEF Legal

\* A Drifter's draw is playable (legalspace.go, Sample).
LEMMA DrifterDecides ==
  ASSUME Setting, NEW v, Sees(v),
         NEW route \in Routes(v), NEW push \in PushingOns(v, route), NEW items,
         NEW stance \in Stances(v),
         NEW draft, draft = Relaxed(v, [NoOrder EXCEPT !.route = route, !.push = push,
                                                       !.items = items, !.stance = stance[1],
                                                       !.stake = stance[2]]),
         NEW a \in Actions(v, draft),
         NEW full \in SampledAddOns(v, WithAction(draft, a)), NEW choice \in 0 .. Len(v.offer)
  PROVE  Playable(v, [full EXCEPT !.choice = choice])
<1>1. /\ LeaseCost \in Nat /\ LedgerCost \in Nat /\ v.balance \in Nat
  BY DEF Setting, Sees, Ground
<1>2. PICK d : d = [NoOrder EXCEPT !.route = route, !.push = push, !.items = items,
                                      !.stance = stance[1], !.stake = stance[2]]
  OBVIOUS
<1>2a. PICK stake \in Nat : stake = stance[2]
  <2>1. MaxStake(v) \in Nat
    BY <1>1 DEF MaxStake, Least, Setting
  <2>2. stance[2] \in {0, MaxStake(v)}
    BY DEF Stances
  <2> QED  BY <2>1, <2>2
<1>3. /\ DOMAIN d = OrderFields /\ d.route = route /\ d.push = push /\ d.stake = stake
      /\ ~d.ledger /\ d.blocks = 0
  BY <1>2, <1>2a DEF NoOrder, OrderFields
<1>4. /\ DOMAIN draft = OrderFields
      /\ draft.route = route /\ draft.stake = stake /\ ~draft.ledger /\ draft.blocks = 0
  <2>1. PICK bare : bare = [d EXCEPT !.items = <<>>]
    OBVIOUS
  <2>2. PICK flat : flat = [bare EXCEPT !.push = NoPush]
    OBVIOUS
  <2>3. draft \in {d, bare, flat}
    BY <1>2, <2>1, <2>2 DEF Relaxed
  <2>4. /\ DOMAIN bare = OrderFields /\ bare.route = route /\ bare.stake = stake
        /\ ~bare.ledger /\ bare.blocks = 0
    BY <1>3, <2>1 DEF OrderFields
  <2>5. /\ DOMAIN flat = OrderFields /\ flat.route = route /\ flat.stake = stake
        /\ ~flat.ledger /\ flat.blocks = 0
    BY <2>2, <2>4 DEF OrderFields
  <2> QED  BY <1>3, <2>3, <2>4, <2>5
<1>5. PICK w : w = WithAction(draft, a)
  OBVIOUS
<1>6. /\ DOMAIN w = OrderFields /\ w.route = route /\ w.stake = stake
      /\ ~w.ledger /\ w.blocks = 0
  <2>1. w = [draft EXCEPT !.act = a.act, !.item = a.item]
    BY <1>5 DEF WithAction
  <2> QED  BY <1>4, <2>1 DEF OrderFields
<1>7. Legal(v, w)
  BY <1>5 DEF Actions
<1> DEFINE Blocks(l, n) == {[l EXCEPT !.renewAt = n, !.blocks = b] :
                              b \in 1 .. MaxLeaseBlocks(v, [l EXCEPT !.renewAt = n, !.blocks = 1])}
           With(l) == {l} \cup UNION {Blocks(l, n) : n \in RenewTargets(v, w)}
           Of(ledger) == With([w EXCEPT !.ledger = ledger])
           Ledgers == {x \in BOOLEAN : x => v.round < Rounds /\ LedgerCost <= v.balance}
<1>9. PICK ledger \in Ledgers : full \in Of(ledger)
  <2>1. SampledAddOns(v, w) = UNION {Of(ledger) : ledger \in Ledgers}
    BY Zenon DEF SampledAddOns
  <2> HIDE DEF Of, Ledgers
  <2> QED  BY <1>5, <2>1
<1>9a. ledger \in BOOLEAN /\ (ledger => v.round < Rounds /\ LedgerCost <= v.balance)
  BY Zenon
<1>9b. PICK l : l = [w EXCEPT !.ledger = ledger]
  OBVIOUS
<1>9c. full = l \/ \E n \in RenewTargets(v, w) : full \in Blocks(l, n)
  <2>1. full \in With(l)
    <3> HIDE DEF With
    <3> QED  BY <1>9, <1>9b
  <2> HIDE DEF Blocks
  <2> QED  BY <2>1
<1> HIDE DEF Ledgers, Of, With
<1>10. /\ DOMAIN l = OrderFields /\ l.route = w.route /\ l.push = w.push /\ l.stake = w.stake
       /\ l.items = w.items /\ l.act = w.act /\ l.blocks = 0
       /\ l.ledger = ledger
  BY <1>6, <1>9a, <1>9b DEF OrderFields
<1>11. PICK left \in Nat : left = v.balance - (IF ledger THEN LedgerCost ELSE 0)
  <2>1. ledger => LedgerCost <= v.balance
    BY <1>9a
  <2> QED  BY <1>1, <2>1
<1>12. /\ DOMAIN full = OrderFields /\ full.route = w.route /\ full.push = w.push
       /\ full.stake = w.stake /\ full.items = w.items /\ full.act = w.act
       /\ full.blocks \in Nat /\ full.ledger = ledger
       /\ full.blocks * LeaseCost <= left
  <2>1. CASE full = l
    <3>1. full.blocks * LeaseCost = 0
      BY <1>1, <1>10, <2>1
    <3> QED  BY <1>10, <2>1, <3>1
  <2>2. CASE full # l
    <3>0. PICK n : full \in Blocks(l, n)
      <4> HIDE DEF Blocks
      <4> QED  BY <1>9c, <2>2
    <3>1. PICK b \in 1 .. MaxLeaseBlocks(v, [l EXCEPT !.renewAt = n, !.blocks = 1]) :
            full = [l EXCEPT !.renewAt = n, !.blocks = b]
      BY <3>0
    <3>2. PICK q : q = [l EXCEPT !.renewAt = n, !.blocks = 1]
      OBVIOUS
    <3>3. q.ledger = ledger
      BY <1>10, <3>2 DEF OrderFields
    <3>4. left = v.balance - (IF q.ledger THEN LedgerCost ELSE 0)
      BY <1>11, <3>3
    <3>5. b \in Nat /\ b * LeaseCost <= left
      BY <3>1, <3>2, <3>4, BlocksAreAffordable DEF Sees
    <3>6. /\ DOMAIN full = OrderFields /\ full.route = l.route /\ full.push = l.push
          /\ full.stake = l.stake /\ full.items = l.items /\ full.act = l.act
          /\ full.blocks = b /\ full.ledger = l.ledger
      BY <1>10, <3>1 DEF OrderFields
    <3> QED  BY <1>10, <3>5, <3>6
  <2> QED  BY <2>1, <2>2
<1>13. LegalBalance(v, full)
  <2>1. full.ledger => v.round < Rounds
    BY <1>9a, <1>12
  <2>2. PICK cost \in Nat : cost = full.blocks * LeaseCost
    BY <1>1, <1>12
  <2>3. Spent(full) = (IF ledger THEN LedgerCost ELSE 0) + cost
    BY <1>12, <2>2 DEF Spent
  <2>4. Spent(full) <= v.balance
    BY <1>1, <1>11, <1>12, <2>2, <2>3
  <2> QED  BY <2>1, <2>4 DEF LegalBalance
<1>14. Legal(v, full)
  BY <1>7, <1>12, <1>13, AddOnsKeepLegal
<1>15. PICK o : o = [full EXCEPT !.choice = choice]
  OBVIOUS
<1>16. Legal(v, o)
  BY <1>12, <1>14, <1>15, ChoiceIsFree
<1>17. DOMAIN o = OrderFields /\ o.route = route /\ o.stake = stake /\ o.blocks = full.blocks /\ o.choice = choice
  BY <1>6, <1>12, <1>15 DEF OrderFields
<1>18. route \in Seq(Nodes)
  BY RoutesAreLegal DEF Setting, Sees, Ground
<1> QED  BY <1>12, <1>15, <1>16, <1>17, <1>18 DEF Playable

-------------------------------------------------------------------------------
(* A round, operation by operation.                                          *)

\* What a seat is a record of.
SeatFields == {"pos", "fog", "cargo", "contracts", "offer", "balance", "infamy", "held",
               "posts", "items"}

\* A seat stays sound where its place, fog, balance and posts do and no contract is added.
LEMMA StillSeated ==
  ASSUME NEW m, Seated(m), NEW p, DOMAIN p = SeatFields,
         p.pos \in Nodes, p.fog \in [Nodes -> Hidden .. InSight], p.fog[p.pos] >= Known,
         p.balance \in Nat, p.held \in SUBSET Nodes, p.posts \in [Nodes -> Int],
         p.contracts \subseteq m.contracts, p.offer = m.offer
  PROVE  Seated(p)
  BY DEF Seated, SeatFields

\* So it does where only its purse, what it carries and its leases change.
LEMMA StillThere ==
  ASSUME NEW m, Seated(m), NEW p, DOMAIN p = SeatFields,
         p.pos = m.pos, p.fog = m.fog, p.posts = m.posts,
         p.contracts = m.contracts, p.offer = m.offer,
         p.balance \in Nat, p.held \subseteq m.held
  PROVE  Seated(p)
<1>1. /\ p.pos \in Nodes /\ p.fog \in [Nodes -> Hidden .. InSight] /\ p.fog[p.pos] >= Known
      /\ p.held \in SUBSET Nodes /\ p.posts \in [Nodes -> Int] /\ p.contracts \subseteq m.contracts
  BY DEF Seated
<1> QED  BY <1>1, StillSeated

\* Accepting an offer takes the ID that is left.
LEMMA ChosenIsSeated ==
  ASSUME Setting, NEW m, Seated(m), NEW o, o.choice \in 0 .. Len(m.offer), round \in Int
  PROVE  LET p == Chosen(m, o)
         IN /\ Seated(p)
            /\ p.pos = m.pos /\ p.fog = m.fog /\ p.balance = m.balance
            /\ p.held = m.held /\ p.posts = m.posts
<1>1. PICK f : f = m.offer[o.choice]
  OBVIOUS
<1>2. PICK c : c = [id |-> IF \E d \in m.contracts : d.id = 0 THEN 1 ELSE 0,
                    origin |-> f.origin, dest |-> f.dest, tier |-> f.tier,
                    expires |-> round + 1 + DeadlineOf[f.tier], paused |-> 0]
  OBVIOUS
<1>3. PICK p : p = [m EXCEPT !.offer = <<>>,
                             !.contracts = IF o.choice = 0 THEN @ ELSE @ \cup {c}]
  OBVIOUS
<1>4. p = Chosen(m, o)
  BY <1>1, <1>2, <1>3 DEF Chosen
<1>5. /\ DOMAIN p = DOMAIN m /\ p.offer = <<>>
      /\ p.contracts = IF o.choice = 0 THEN m.contracts ELSE m.contracts \cup {c}
      /\ p.pos = m.pos /\ p.fog = m.fog /\ p.balance = m.balance
      /\ p.held = m.held /\ p.posts = m.posts
  BY <1>3 DEF Seated
<1>6. ASSUME o.choice # 0
      PROVE  c \in Contracts /\ \A d \in m.contracts : d.id # c.id
  <2>1. m.offer # <<>> /\ o.choice \in 1 .. Len(m.offer) /\ m.offer \in Seq(Offered)
    BY <1>6 DEF Seated
  <2>2. f \in Offered
    BY <1>1, <2>1
  <2>3. f.origin \in Nodes /\ f.dest \in Nodes /\ f.tier \in Tiers /\ DeadlineOf[f.tier] \in Int
    BY <2>2 DEF Offered, Setting
  <2>4. c.id \in {0, 1} /\ c.expires \in Int
    BY <1>2, <2>3
  <2>5. c \in Contracts
    BY <1>2, <2>3, <2>4 DEF Contracts
  <2>6. \E i \in {0, 1} : \A d \in m.contracts : d.id # i
    BY <2>1 DEF Seated
  <2>7. c.id = IF \E d \in m.contracts : d.id = 0 THEN 1 ELSE 0
    BY <1>2
  <2>8. \A d \in m.contracts : d.id # c.id
    BY <2>6, <2>7
  <2> QED  BY <2>5, <2>8
<1>7. p.contracts \in SUBSET Contracts /\ \A d, e \in p.contracts : d.id = e.id => d = e
  <2>1. CASE o.choice = 0
    BY <1>5, <2>1 DEF Seated
  <2>2. CASE o.choice # 0
    <3>1. m.contracts \in SUBSET Contracts /\ \A d, e \in m.contracts : d.id = e.id => d = e
      BY DEF Seated
    <3> QED  BY <1>5, <1>6, <2>2, <3>1
  <2> QED  BY <2>1, <2>2
<1>8. <<>> \in Seq(Offered)
  OBVIOUS
<1>9. Seated(p)
  BY <1>5, <1>7, <1>8 DEF Seated
<1> QED  BY <1>4, <1>5, <1>9

\* A seat enters a node that becomes Known, and may find money there.
LEMMA EnteringIsSeated ==
  ASSUME Setting, NEW m, Seated(m), NEW to \in Nodes, NEW found
  PROVE  LET p == Entering(m, to, found)
         IN /\ Seated(p) /\ p.pos = to /\ p.held = m.held /\ p.posts = m.posts
            /\ p.balance >= m.balance
            /\ p.fog[to] >= Known
            /\ \A n \in Nodes : m.fog[n] >= Known => p.fog[n] >= Known
<1>1. PICK fog : fog = [n \in Nodes |-> IF n = to \/ (found = "ways" /\ n \in Neighbours(to))
                                        THEN Most(Known, m.fog[n]) ELSE m.fog[n]]
  OBVIOUS
<1>2. PICK balance : balance = IF found = "money" THEN m.balance + 3 ELSE m.balance
  OBVIOUS
<1>3. PICK p : p = [m EXCEPT !.pos = to, !.balance = balance, !.fog = fog]
  OBVIOUS
<1>4. p = Entering(m, to, found)
  BY <1>1, <1>2, <1>3 DEF Entering
<1>5. /\ DOMAIN p = SeatFields /\ p.pos = to /\ p.fog = fog /\ p.balance = balance
      /\ p.held = m.held /\ p.posts = m.posts
      /\ p.contracts = m.contracts /\ p.offer = m.offer
  BY <1>3 DEF Seated, SeatFields
<1>6. \A n \in Nodes : m.fog[n] \in Hidden .. InSight
  BY DEF Seated
<1>7. /\ fog \in [Nodes -> Hidden .. InSight] /\ fog[to] >= Known
      /\ \A n \in Nodes : m.fog[n] >= Known => fog[n] >= Known
  BY <1>1, <1>6 DEF Hidden, Known, InSight, Most
<1>8. balance \in Nat /\ balance >= m.balance
  BY <1>2 DEF Seated
<1>9. Seated(p)
  BY <1>5, <1>7, <1>8, StillSeated DEF Seated
<1> QED  BY <1>4, <1>5, <1>7, <1>8, <1>9

\* Losing throws a seat on a node that becomes Known, pauses its contract and takes
\* its stake, and a shakedown where it carries Evasively.
LEMMA LostIsSeated ==
  ASSUME Setting, NEW m, Seated(m), NEW o, o.stake \in Nat, NEW to \in Nodes
  PROVE  LET p == Lost(m, o, to)
         IN /\ Seated(p) /\ p.pos = to /\ p.held = m.held /\ p.posts = m.posts
            /\ p.fog[to] >= Known
            /\ \A n \in Nodes : m.fog[n] >= Known => p.fog[n] >= Known
            /\ o.stake = 0 => p.balance >= m.balance - (IF ShakenDown(m, o) THEN ShakedownCost ELSE 0)
<1>0. ShakedownCost \in Nat /\ m.balance \in Nat
  BY DEF Setting, Seated
<1>1. PICK stake \in Nat : stake = StakeLost(m, o) /\ stake <= m.balance /\ (o.stake = 0 => stake = 0)
  BY <1>0 DEF StakeLost, Least
<1>2. PICK toll \in Nat : /\ toll = Shakedown(m, o) /\ toll <= m.balance - stake
                          /\ toll <= IF ShakenDown(m, o) THEN ShakedownCost ELSE 0
  BY <1>0, <1>1 DEF Shakedown, Least
<1>3. PICK p : p = Lost(m, o, to)
  OBVIOUS
<1>4. PICK contracts : contracts = Paused(m.contracts, m.cargo)
  OBVIOUS
<1>5. PICK fog : fog = Marked(m.fog, to)
  OBVIOUS
<1>6. /\ DOMAIN p = SeatFields /\ p.pos = to /\ p.fog = fog /\ p.balance = m.balance - stake - toll
      /\ p.held = m.held /\ p.posts = m.posts
      /\ p.contracts = contracts /\ p.offer = m.offer
  BY <1>1, <1>2, <1>3, <1>4, <1>5 DEF Lost, Seated, SeatFields
<1>7. \A n \in Nodes : m.fog[n] \in Hidden .. InSight
  BY DEF Seated
<1>8. /\ fog \in [Nodes -> Hidden .. InSight] /\ fog[to] >= Known
      /\ \A n \in Nodes : m.fog[n] >= Known => fog[n] >= Known
  <2>1. m.fog \in [Nodes -> Hidden .. InSight]
    BY DEF Seated
  <2> QED  BY <1>5, <1>7, <2>1 DEF Marked, Hidden, Known, InSight, Most
<1>9. p.balance \in Nat
  BY <1>0, <1>1, <1>2, <1>6
<1> DEFINE Pause(c) == IF c.id = m.cargo /\ c.paused = 0
                       THEN [c EXCEPT !.paused = 1, !.expires = @ + 1] ELSE c
<1>10. contracts = {Pause(c) : c \in m.contracts}
  BY <1>4 DEF Paused
<1>11. ASSUME NEW c \in Contracts
       PROVE  Pause(c) \in Contracts /\ Pause(c).id = c.id
  <2>1. PICK d : d = [c EXCEPT !.paused = 1, !.expires = @ + 1]
    OBVIOUS
  <2>2. d \in Contracts /\ d.id = c.id
    <3>1. PICK later \in Int : later = c.expires + 1
      BY DEF Contracts
    <3>2. d = [c EXCEPT !.paused = 1, !.expires = later]
      BY <2>1, <3>1 DEF Contracts
    <3> QED  BY <3>1, <3>2 DEF Contracts
  <2>3. Pause(c) \in {c, d}
    BY <2>1
  <2> QED  BY <2>2, <2>3
<1>12. m.contracts \in SUBSET Contracts /\ \A c, d \in m.contracts : c.id = d.id => c = d
  BY DEF Seated
<1> HIDE DEF Pause
<1>13. contracts \in SUBSET Contracts /\ \A c, d \in contracts : c.id = d.id => c = d
  <2>1. contracts \in SUBSET Contracts
    BY <1>10, <1>11, <1>12
  <2>2. ASSUME NEW c \in contracts, NEW d \in contracts, c.id = d.id
        PROVE  c = d
    <3>1. PICK x \in m.contracts, y \in m.contracts : c = Pause(x) /\ d = Pause(y)
      BY <1>10
    <3>2. x.id = y.id
      BY <1>11, <1>12, <2>2, <3>1
    <3> QED  BY <1>12, <3>1, <3>2
  <2> QED  BY <2>1, <2>2
<1>14. ASSUME NEW i \in {0, 1}, \A c \in m.contracts : c.id # i
       PROVE  \A c \in contracts : c.id # i
  BY <1>10, <1>11, <1>12, <1>14
<1>15. Seated(p)
  <2>1. p.offer # <<>> => \E i \in {0, 1} : \A c \in p.contracts : c.id # i
    BY <1>6, <1>14 DEF Seated
  <2> QED  BY <1>6, <1>8, <1>9, <1>13, <2>1 DEF Seated, SeatFields
<1>16. o.stake = 0 => p.balance >= m.balance - (IF ShakenDown(m, o) THEN ShakedownCost ELSE 0)
  BY <1>0, <1>1, <1>2, <1>6
<1> QED  BY <1>3, <1>6, <1>8, <1>15, <1>16

\* Whichever way the walk is undone, it leaves some of it.
LEMMA PushedBackIsAWalk ==
  ASSUME NEW path \in Seq(Nodes), NEW c \in Nodes, NEW evasive, NEW back \in PushedBack(path, c, evasive)
  PROVE  back \in Seq(Nodes) /\ Len(back) \in Nat \ {0} /\ back[Len(back)] \in Nodes
<1>1. PICK n \in Nat : n = Len(path)
  OBVIOUS
<1>2. PICK hops \in {1, 2} : hops = IF evasive THEN 2 ELSE 1
  OBVIOUS
<1>3. \A k \in 1 .. n : SubSeq(path, 1, k) \in Seq(Nodes) /\ Len(SubSeq(path, 1, k)) = k
  BY <1>1
<1>4. RandomHops(c, evasive) \subseteq Nodes
  BY DEF RandomHops, Neighbours
<1>5. \/ n > hops /\ back = SubSeq(path, 1, n - hops)
      \/ n = 2 /\ back = SubSeq(path, 1, 1)
      \/ \E x \in Nodes : back = <<x>>
  BY <1>1, <1>2, <1>4 DEF PushedBack
<1>6. CASE n > hops /\ back = SubSeq(path, 1, n - hops)
  <2>1. n - hops \in 1 .. n
    BY <1>2, <1>6
  <2> QED  BY <1>3, <1>6, <2>1
<1>7. CASE n = 2 /\ back = SubSeq(path, 1, 1)
  BY <1>3, <1>7
<1>8. CASE \E x \in Nodes : back = <<x>>
  BY <1>8
<1> QED  BY <1>5, <1>6, <1>7, <1>8

\* What is left of a plan keeps all of it that is paid for.
LEMMA HaltedKeeps ==
  ASSUME NEW o, DOMAIN o = OrderFields, o.route \in Seq(Nodes), NEW step \in Nat
  PROVE  LET p == Halted(o, step)
         IN /\ DOMAIN p = OrderFields /\ p.route \in Seq(Nodes) /\ p.act = "nothing"
            /\ p.stake = o.stake /\ p.stance = o.stance
            /\ p.ledger = o.ledger /\ p.blocks = o.blocks /\ p.renewAt = o.renewAt
            /\ Spent(p) = Spent(o)
<1>1. PICK n \in Nat : n = Len(o.route)
  OBVIOUS
<1>2. PICK k \in 0 .. n : k = Least(step, Len(o.route))
  BY <1>1 DEF Least
<1>3. PICK route : route = IF Unspent(o, step) = 0 THEN <<>> ELSE SubSeq(o.route, 1, k)
  OBVIOUS
<1>4. route \in Seq(Nodes)
  <2>1. SubSeq(o.route, 1, k) \in Seq(Nodes)
    BY <1>1, <1>2
  <2>2. <<>> \in Seq(Nodes)
    OBVIOUS
  <2> QED  BY <1>3, <2>1, <2>2
<1>5. PICK push : push = IF Unspent(o, step) = 0 THEN NoPush
                         ELSE [o.push EXCEPT !.steps = step - k + Unspent(o, step)]
  OBVIOUS
<1>6. PICK p : p = [o EXCEPT !.route = route, !.push = push, !.act = "nothing", !.item = "none"]
  OBVIOUS
<1>7. p = Halted(o, step)
  BY <1>2, <1>3, <1>5, <1>6 DEF Halted, OrderFields
<1>8. /\ DOMAIN p = OrderFields /\ p.route = route /\ p.act = "nothing"
      /\ p.stake = o.stake /\ p.stance = o.stance
      /\ p.ledger = o.ledger /\ p.blocks = o.blocks /\ p.renewAt = o.renewAt
  BY <1>6 DEF OrderFields
<1>9. Spent(p) = Spent(o)
  BY <1>8 DEF Spent
<1> QED  BY <1>4, <1>7, <1>8, <1>9

\* A charge takes what there is; where that is too little, a post goes with it.
LEMMA ChargedIsSeated ==
  ASSUME NEW m, Seated(m), NEW owed \in Nat
  PROVE  LET p == Charged(m, owed)
         IN /\ Seated(p) /\ p.pos = m.pos /\ p.fog = m.fog
            /\ p.contracts = m.contracts /\ p.cargo = m.cargo /\ p.offer = m.offer
            /\ p.held \subseteq m.held /\ p.posts = m.posts
            /\ p.balance >= m.balance - owed
<1>0. m.balance \in Nat
  BY DEF Seated
<1>1. CASE owed <= m.balance
  <2>1. PICK p : p = [m EXCEPT !.balance = @ - owed]
    OBVIOUS
  <2>2. p = Charged(m, owed)
    BY <1>1, <2>1 DEF Charged
  <2>3. /\ DOMAIN p = SeatFields /\ p.balance = m.balance - owed
        /\ p.pos = m.pos /\ p.fog = m.fog /\ p.held = m.held /\ p.posts = m.posts
        /\ p.contracts = m.contracts /\ p.cargo = m.cargo /\ p.offer = m.offer
    BY <2>1 DEF Seated, SeatFields
  <2>4. Seated(p)
    BY <1>0, <1>1, <2>3, StillThere
  <2> QED  BY <1>0, <2>2, <2>3, <2>4
<1>2. CASE ~(owed <= m.balance)
  <2>1. PICK held : held = IF m.held = {} THEN m.held ELSE m.held \ {Weakest(m)}
    OBVIOUS
  <2>2. PICK p : p = [m EXCEPT !.balance = 0, !.infamy = Infamous(m, -1), !.held = held]
    OBVIOUS
  <2>3. p = Charged(m, owed)
    BY <1>2, <2>1, <2>2 DEF Charged
  <2>4. held \subseteq m.held
    BY <2>1
  <2>5. /\ DOMAIN p = SeatFields /\ p.balance = 0
        /\ p.pos = m.pos /\ p.fog = m.fog /\ p.held = held /\ p.posts = m.posts
        /\ p.contracts = m.contracts /\ p.cargo = m.cargo /\ p.offer = m.offer
    BY <2>2 DEF Seated, SeatFields
  <2>6. Seated(p)
    BY <2>4, <2>5, StillThere
  <2> QED  BY <1>0, <1>2, <2>3, <2>4, <2>5, <2>6
<1> QED  BY <1>1, <1>2

\* The rounds a fresh lease is given.
Fresh(o) == RenewedRounds(0, o.blocks, blockRounds)

\* A lease is renewed to whole rounds.
LEMMA RoundsAreInt ==
  ASSUME Setting, NEW current \in Int, NEW blocks \in Nat, NEW rounds \in Int
  PROVE  RenewedRounds(current, blocks, rounds) \in Int
<1>1. PICK most \in Int : most = MaxBlocks * rounds
  BY DEF Setting
<1>2. PICK more \in Int : more = blocks * rounds
  OBVIOUS
<1> QED  BY <1>1, <1>2 DEF RenewedRounds, Least

\* A post staked is paid for, at the cost of another where the balance is short.
LEMMA StakedIsSeated ==
  ASSUME Setting, NEW m, Seated(m), NEW o, o.blocks \in Nat, blockRounds \in Int
  PROVE  LET p == Staked(m, o)
         IN /\ Seated(p) /\ p.pos = m.pos
            /\ p.held \subseteq m.held \cup {m.pos}
            /\ p.posts = [m.posts EXCEPT ![m.pos] = Fresh(o)]
<1>1. PICK owed \in Nat : owed = o.blocks * LeaseCost
  BY DEF Setting
<1>2. PICK q : q = Charged(m, owed)
  OBVIOUS
<1>3. /\ Seated(q) /\ q.pos = m.pos /\ q.fog = m.fog
      /\ q.held \subseteq m.held /\ q.posts = m.posts
  BY <1>2, ChargedIsSeated
<1>4. PICK fresh \in Int : fresh = Fresh(o)
  BY RoundsAreInt DEF Fresh
<1>5. PICK infamy : infamy = IF \A n \in q.held : SectorOf[n] # SectorOf[m.pos]
                             THEN Infamous(q, 1) ELSE q.infamy
  OBVIOUS
<1>6. PICK p : p = [q EXCEPT !.held = @ \cup {m.pos}, !.posts[m.pos] = fresh, !.infamy = infamy]
  OBVIOUS
<1>7. p = Staked(m, o)
  BY <1>1, <1>2, <1>4, <1>5, <1>6 DEF Staked, Fresh
<1>8. DOMAIN q = SeatFields /\ q.posts \in [Nodes -> Int] /\ m.pos \in Nodes
  BY <1>3 DEF Seated, SeatFields
<1>9. /\ DOMAIN p = SeatFields /\ p.balance = q.balance
      /\ p.pos = q.pos /\ p.fog = q.fog /\ p.held = q.held \cup {m.pos}
      /\ p.posts = [q.posts EXCEPT ![m.pos] = fresh]
      /\ p.contracts = q.contracts /\ p.offer = q.offer
  BY <1>6, <1>8 DEF SeatFields
<1>10. p.posts \in [Nodes -> Int]
  BY <1>8, <1>9
<1>11. Seated(p)
  BY <1>3, <1>8, <1>9, <1>10, StillSeated DEF Seated
<1> QED  BY <1>3, <1>4, <1>7, <1>9, <1>11

\* What the deed does to the purse and the posts.
LEMMA ActedIsSeated ==
  ASSUME Setting, NEW m, Seated(m), NEW o, o.blocks \in Nat, blockRounds \in Int, NEW taken
  PROVE  LET p == Acted(m, o, taken)
         IN /\ Seated(p) /\ p.pos = m.pos
            /\ o.act \notin {"stake", "deal"} => p.balance >= m.balance
            /\ \/ p.held \subseteq m.held /\ p.posts = m.posts
               \/ /\ o.act = "stake" /\ p.held \subseteq m.held \cup {m.pos}
                  /\ p.posts = [m.posts EXCEPT ![m.pos] = Fresh(o)]
<1> DEFINE ready == {c \in m.contracts : TypeOf[m.pos] = "warehouse" /\ c.origin = m.pos}
           Claim(p) == /\ Seated(p) /\ p.pos = m.pos
                       /\ o.act \notin {"stake", "deal"} => p.balance >= m.balance
                       /\ \/ p.held \subseteq m.held /\ p.posts = m.posts
                          \/ /\ o.act = "stake" /\ p.held \subseteq m.held \cup {m.pos}
                             /\ p.posts = [m.posts EXCEPT ![m.pos] = Fresh(o)]
           Pickup == o.act = "pickup" /\ m.cargo = NoCargo /\ ready # {}
           Deal   == o.act = "deal" /\ o.item \in stock /\ TypeOf[m.pos] = "market" /\ m.balance >= ItemPrice
           Vanish == o.act = "vanish"
           p1 == [m EXCEPT !.cargo = (CHOOSE c \in ready : TRUE).id]
           p2 == Staked(m, o)
           p3 == [m EXCEPT !.balance = @ - ItemPrice, !.items = Append(@, o.item)]
           p4 == [m EXCEPT !.infamy = Infamous(m, -2)]
<1>1. /\ \/ Pickup /\ Acted(m, o, taken) = p1
         \/ Stakes(m, o, taken) /\ Acted(m, o, taken) = p2
         \/ Deal /\ Acted(m, o, taken) = p3
         \/ Vanish /\ Acted(m, o, taken) = p4
         \/ Acted(m, o, taken) = m
  <2>1. Acted(m, o, taken) = CASE Pickup -> p1 [] Stakes(m, o, taken) -> p2 [] Deal -> p3
                               [] Vanish -> p4 [] OTHER -> m
    BY Zenon DEF Acted
  <2> HIDE DEF Pickup, Deal, Vanish, p1, p2, p3, p4
  <2> QED  BY <2>1
<1>2. DOMAIN m = SeatFields /\ m.balance \in Nat
  BY DEF Seated, SeatFields
<1>3. Claim(m)
  BY <1>2
<1>4. ASSUME NEW p, p = p1 \/ p = p4
      PROVE  Claim(p)
  <2>1. /\ DOMAIN p = SeatFields /\ p.balance = m.balance
        /\ p.pos = m.pos /\ p.fog = m.fog /\ p.held = m.held /\ p.posts = m.posts
        /\ p.contracts = m.contracts /\ p.offer = m.offer
    BY <1>2, <1>4 DEF SeatFields
  <2>2. Seated(p)
    BY <1>2, <2>1, StillThere
  <2> QED  BY <1>2, <2>1, <2>2
<1>5. ASSUME Stakes(m, o, taken), NEW p, p = p2
      PROVE  Claim(p)
  BY <1>5, StakedIsSeated DEF Stakes
<1>6. ASSUME Deal, NEW p, p = p3
      PROVE  Claim(p)
  <2>1. /\ DOMAIN p = SeatFields /\ p.balance = m.balance - ItemPrice
        /\ p.pos = m.pos /\ p.fog = m.fog /\ p.held = m.held /\ p.posts = m.posts
        /\ p.contracts = m.contracts /\ p.offer = m.offer
    BY <1>2, <1>6 DEF SeatFields
  <2>2. p.balance \in Nat
    BY <1>2, <1>6, <2>1 DEF Setting
  <2>3. Seated(p)
    BY <2>1, <2>2, StillThere
  <2> QED  BY <1>2, <1>6, <2>1, <2>3
<1>7. PICK p : p = Acted(m, o, taken)
  OBVIOUS
<1>8. Claim(p)
  <2> HIDE DEF Claim, Pickup, Deal, Vanish, p1, p2, p3, p4
  <2> QED  BY <1>1, <1>3, <1>4, <1>5, <1>6, <1>7
<1> QED  BY <1>7, <1>8

\* Half as much again, halved, is no less than half.
LEMMA PaymentsCover ==
  ASSUME NEW r \in Nat, NEW least \in Nat, r \div 2 >= least, NEW pay \in Payments(r)
  PROVE  pay \in Nat /\ pay >= least
<1>1. PICK h \in Nat : h = r \div 2 /\ r >= 2 * h /\ h >= least
  OBVIOUS
<1>2. PICK q \in Nat : q = (r + r \div 2) \div 2 /\ q >= h
  <2>1. PICK x \in Nat : x = r + h /\ x >= 2 * h
    BY <1>1
  <2>2. x \div 2 \in Nat /\ x \div 2 >= h
    BY <1>1, <2>1
  <2> QED  BY <1>1, <2>1, <2>2
<1>3. pay \in {r, h, r + h, q}
  BY <1>1, <1>2 DEF Payments
<1> QED  BY <1>1, <1>2, <1>3

\* A delivery pays its way: the gate is never dearer than what comes in.
LEMMA DeliveredIsSeated ==
  ASSUME Setting, NEW m, Seated(m), NEW o, NEW pay \in Paid(m, o)
  PROVE  LET p == Delivered(m, o, pay)
         IN /\ Seated(p) /\ p.pos = m.pos /\ p.held \subseteq m.held /\ p.posts = m.posts
            /\ Pays => p.balance >= m.balance
<1>0. m.balance \in Nat /\ GateFee \in Nat
  BY DEF Setting, Seated
<1>1. CASE ~Delivers(m, o)
  <2>1. Delivered(m, o, pay) = m
    BY <1>1, Zenon DEF Delivered
  <2> QED  BY <1>0, <2>1
<1>2. CASE Delivers(m, o)
  <2>1. PICK r \in Rewards(m) : pay \in Payments(r)
    BY <1>2 DEF Paid
  <2>2. r \in Nat /\ (Pays => r \div 2 >= GateFee)
    <3>1. CASE m.cargo = LooseCrate
      BY <2>1, <3>1 DEF Rewards, Setting, Pays
    <3>2. CASE m.cargo # LooseCrate
      <4>1. PICK c \in Fulfils(m) : r = PayOf[c.tier]
        BY <2>1, <3>2 DEF Rewards
      <4>2. c.tier \in Tiers
        BY <4>1 DEF Fulfils, Seated, Contracts
      <4> QED  BY <4>1, <4>2 DEF Setting, Pays
    <3> QED  BY <3>1, <3>2
  <2>3. pay \in Nat /\ (Pays => pay >= GateFee)
    <3>1. r \div 2 \in Nat /\ r \div 2 >= 0
      BY <2>2
    <3>2. pay \in Nat
      BY <2>1, <2>2, <3>1, PaymentsCover
    <3>3. ASSUME Pays PROVE pay >= GateFee
      BY <1>0, <2>1, <2>2, <3>3, PaymentsCover
    <3> QED  BY <3>2, <3>3
  <2>4. PICK q : q = Charged(m, GateFee)
    OBVIOUS
  <2>5. /\ Seated(q) /\ q.pos = m.pos /\ q.fog = m.fog
        /\ q.contracts = m.contracts /\ q.offer = m.offer
        /\ q.held \subseteq m.held /\ q.posts = m.posts
        /\ q.balance >= m.balance - GateFee
    BY <1>0, <2>4, ChargedIsSeated
  <2>6. PICK first : first = CHOOSE c \in Fulfils(m) : TRUE
    OBVIOUS
  <2>6a. PICK gain : gain = IF m.cargo = LooseCrate THEN 0 ELSE GainOf[first.tier]
    OBVIOUS
  <2>7. PICK rest : rest = q.contracts \ Fulfils(m)
    OBVIOUS
  <2>8. PICK p : p = [q EXCEPT !.cargo = NoCargo, !.contracts = rest,
                               !.balance = @ + pay, !.infamy = Infamous(q, gain)]
    OBVIOUS
  <2>9. DOMAIN q = SeatFields /\ q.balance \in Nat
    BY <2>5 DEF Seated, SeatFields
  <2>10. p = Delivered(m, o, pay)
    BY <1>2, <2>4, <2>6, <2>6a, <2>7, <2>8, <2>9 DEF Delivered, SeatFields
  <2>11. /\ DOMAIN p = SeatFields /\ p.pos = q.pos /\ p.fog = q.fog
         /\ p.held = q.held /\ p.posts = q.posts /\ p.balance = q.balance + pay
         /\ p.contracts = rest /\ p.offer = q.offer
    BY <2>8, <2>9 DEF SeatFields
  <2>12. p.balance \in Nat /\ (Pays => p.balance >= m.balance)
    BY <1>0, <2>3, <2>5, <2>9, <2>11
  <2>13. Seated(p)
    <3>1. /\ p.pos \in Nodes /\ p.fog \in [Nodes -> Hidden .. InSight] /\ p.fog[p.pos] >= Known
          /\ p.held \in SUBSET Nodes /\ p.posts \in [Nodes -> Int]
      BY <2>5, <2>11 DEF Seated
    <3>2. p.contracts \subseteq q.contracts
      BY <2>7, <2>11
    <3> QED  BY <2>5, <2>11, <2>12, <3>1, <3>2, StillSeated
  <2> QED  BY <2>5, <2>10, <2>11, <2>12, <2>13
<1> QED  BY <1>1, <1>2

\* A Ledger takes its cost and nothing else.
LEMMA LedgeredIsSeated ==
  ASSUME Setting, NEW m, Seated(m), NEW o
  PROVE  LET p == Ledgered(m, o)
         IN /\ Seated(p) /\ p.pos = m.pos /\ p.held = m.held /\ p.posts = m.posts
            /\ o.ledger => p.balance >= m.balance - LedgerCost
            /\ ~o.ledger => p.balance = m.balance
<1>0. LedgerCost \in Nat /\ m.balance \in Nat
  BY DEF Setting, Seated
<1> DEFINE buys == o.ledger /\ round + 1 < Rounds /\ m.balance >= LedgerCost
<1>1. CASE buys
  <2>1. PICK p : p = [m EXCEPT !.balance = @ - LedgerCost]
    OBVIOUS
  <2>2. p = Ledgered(m, o)
    BY <1>1, <2>1, Zenon DEF Ledgered
  <2>3. /\ DOMAIN p = SeatFields /\ p.balance = m.balance - LedgerCost
        /\ p.pos = m.pos /\ p.fog = m.fog /\ p.held = m.held /\ p.posts = m.posts
        /\ p.contracts = m.contracts /\ p.offer = m.offer
    BY <2>1 DEF Seated, SeatFields
  <2>4. p.balance \in Nat
    BY <1>0, <1>1, <2>3
  <2>5. Seated(p)
    BY <2>3, <2>4, StillThere
  <2> QED  BY <1>0, <1>1, <2>2, <2>3, <2>5
<1>2. CASE ~buys
  <2>1. Ledgered(m, o) = m
    BY <1>2, Zenon DEF Ledgered
  <2> QED  BY <1>0, <2>1
<1> QED  BY <1>1, <1>2

\* A renewal touches its own post, or what a debt takes.
LEMMA RenewedIsSeated ==
  ASSUME Setting, NEW m, Seated(m), NEW o, o.blocks \in Nat, blockRounds \in Int
  PROVE  LET p == Renewed(m, o)
         IN /\ Seated(p) /\ p.pos = m.pos /\ p.held \subseteq m.held
            /\ \A n \in p.held :
                 p.posts[n] = IF Renews(m, o) /\ n = o.renewAt
                              THEN RenewedRounds(m.posts[n], o.blocks, blockRounds) ELSE m.posts[n]
<1>1. CASE Renews(m, o)
  <2>1. PICK owed \in Nat : owed = o.blocks * LeaseCost
    BY DEF Setting
  <2>2. PICK q : q = Charged(m, owed)
    OBVIOUS
  <2>3. /\ Seated(q) /\ q.pos = m.pos /\ q.fog = m.fog /\ q.held \subseteq m.held /\ q.posts = m.posts
    BY <2>2, ChargedIsSeated
  <2>4. PICK r : r = o.renewAt
    OBVIOUS
  <2>5. CASE r \notin q.held
    <3>1. Renewed(m, o) = q
      BY <1>1, <2>1, <2>2, <2>4, <2>5, Zenon DEF Renewed
    <3> QED  BY <2>3, <2>4, <2>5, <3>1
  <2>6. CASE r \in q.held
    <3>1. /\ DOMAIN q = SeatFields /\ q.posts \in [Nodes -> Int]
          /\ q.held \in SUBSET Nodes /\ r \in Nodes
      BY <2>3, <2>6 DEF Seated, SeatFields
    <3>2. PICK more \in Int : more = RenewedRounds(q.posts[r], o.blocks, blockRounds)
      BY <3>1, RoundsAreInt
    <3>3. PICK p : p = [q EXCEPT !.posts[r] = more]
      OBVIOUS
    <3>4. Renewed(m, o) = IF r \notin q.held THEN q
                          ELSE [q EXCEPT !.posts[r] = RenewedRounds(@, o.blocks, blockRounds)]
      BY <1>1, <2>1, <2>2, <2>4 DEF Renewed
    <3>5. Renewed(m, o) = p
      BY <2>6, <3>1, <3>2, <3>3, <3>4 DEF SeatFields
    <3>6. /\ DOMAIN p = SeatFields /\ p.balance = q.balance
          /\ p.pos = q.pos /\ p.fog = q.fog /\ p.held = q.held /\ p.posts = [q.posts EXCEPT ![r] = more]
          /\ p.contracts = q.contracts /\ p.offer = q.offer
      BY <3>1, <3>3 DEF SeatFields
    <3>7. /\ p.posts \in [Nodes -> Int]
          /\ \A n \in Nodes : p.posts[n] = IF n = r THEN more ELSE q.posts[n]
      BY <3>1, <3>6
    <3>8. Seated(p)
      <4>1. /\ p.pos \in Nodes /\ p.fog \in [Nodes -> Hidden .. InSight] /\ p.fog[p.pos] >= Known
            /\ p.balance \in Nat
        BY <2>3, <3>6 DEF Seated
      <4>2. p.held \in SUBSET Nodes /\ p.contracts \subseteq q.contracts
        BY <3>1, <3>6
      <4> QED  BY <2>3, <3>6, <3>7, <4>1, <4>2, StillSeated
    <3>9. \A n \in p.held : p.posts[n] = IF Renews(m, o) /\ n = r
                              THEN RenewedRounds(m.posts[n], o.blocks, blockRounds) ELSE m.posts[n]
      BY <1>1, <2>3, <3>1, <3>2, <3>6, <3>7
    <3>10. p.pos = m.pos /\ p.held \subseteq m.held
      BY <2>3, <3>6
    <3> QED  BY <2>4, <3>5, <3>8, <3>9, <3>10
  <2> QED  BY <2>5, <2>6
<1>2. CASE ~Renews(m, o)
  <2>1. Renewed(m, o) = m
    BY <1>2, Zenon DEF Renewed
  <2> QED  BY <1>2, <2>1
<1> QED  BY <1>1, <1>2

\* Looking around leaves a seat sound.
LEMMA LookedIsSeated ==
  ASSUME Setting, NEW m, Seated(m)
  PROVE  /\ Seated(Looked(m)) /\ Looked(m).pos = m.pos
         /\ Looked(m).held = m.held /\ Looked(m).posts = m.posts
<1>1. PICK sight : sight = {m.pos} \cup Neighbours(m.pos) \cup m.held
  OBVIOUS
<1>2. PICK fog : fog = [n \in Nodes |-> IF n \in sight THEN InSight ELSE Least(Known, m.fog[n])]
  OBVIOUS
<1>3. PICK p : p = [m EXCEPT !.fog = fog]
  OBVIOUS
<1>4. p = Looked(m)
  BY <1>1, <1>2, <1>3 DEF Looked
<1>5. /\ DOMAIN p = SeatFields /\ p.fog = fog /\ p.balance = m.balance
      /\ p.pos = m.pos /\ p.held = m.held /\ p.posts = m.posts
      /\ p.contracts = m.contracts /\ p.offer = m.offer
  BY <1>3 DEF Seated, SeatFields
<1>6. \A n \in Nodes : m.fog[n] \in Hidden .. InSight
  BY DEF Seated
<1>7. fog \in [Nodes -> Hidden .. InSight]
  BY <1>2, <1>6 DEF Hidden, Known, InSight, Least
<1>8. fog[m.pos] >= Known
  BY <1>1, <1>2 DEF Seated, Known, InSight
<1>9. Seated(p)
  BY <1>5, <1>7, <1>8, StillSeated DEF Seated
<1> QED  BY <1>4, <1>5, <1>9

\* A torched sector takes rounds off the leases in it, and no lease.
LEMMA TorchedIsSeated ==
  ASSUME NEW m, Seated(m), NEW sector
  PROVE  LET p == Torched(m, sector)
         IN /\ Seated(p) /\ p.pos = m.pos /\ p.held = m.held
            /\ \A n \in Nodes : SectorOf[n] # sector => p.posts[n] = m.posts[n]
<1>1. PICK posts : posts = [n \in Nodes |-> IF n \in m.held /\ SectorOf[n] = sector
                                            THEN m.posts[n] - 3 ELSE m.posts[n]]
  OBVIOUS
<1>2. PICK p : p = [m EXCEPT !.posts = posts]
  OBVIOUS
<1>3. p = Torched(m, sector)
  BY <1>1, <1>2 DEF Torched
<1>4. /\ DOMAIN p = SeatFields /\ p.posts = posts /\ p.balance = m.balance /\ p.fog = m.fog
      /\ p.pos = m.pos /\ p.held = m.held /\ p.contracts = m.contracts /\ p.offer = m.offer
  BY <1>2 DEF Seated, SeatFields
<1>5. \A n \in Nodes : m.posts[n] \in Int
  BY DEF Seated
<1>6. posts \in [Nodes -> Int] /\ \A n \in Nodes : SectorOf[n] # sector => posts[n] = m.posts[n]
  BY <1>1, <1>5
<1>7. Seated(p)
  <2>1. /\ p.pos \in Nodes /\ p.fog \in [Nodes -> Hidden .. InSight] /\ p.fog[p.pos] >= Known
        /\ p.balance \in Nat /\ p.held \in SUBSET Nodes /\ p.contracts \subseteq m.contracts
    BY <1>4 DEF Seated
  <2> QED  BY <1>4, <1>6, <2>1, StillSeated
<1> QED  BY <1>3, <1>4, <1>6, <1>7

\* A contract's penalty takes Infamy and a charge.
LEMMA PenalisedIsSeated ==
  ASSUME Setting, NEW m, Seated(m), NEW c \in Contracts
  PROVE  LET p == Penalised(m, c)
         IN /\ Seated(p) /\ p.pos = m.pos /\ p.contracts = m.contracts
            /\ p.held \subseteq m.held /\ p.posts = m.posts
<1>1. PICK infamy : infamy = Infamous(m, -LossOf[c.tier])
  OBVIOUS
<1>2. PICK q : q = [m EXCEPT !.infamy = infamy]
  OBVIOUS
<1>3. PICK owed \in Nat : owed = PenaltyOf[c.tier]
  BY DEF Contracts, Setting
<1>4. Penalised(m, c) = Charged(q, owed)
  BY <1>1, <1>2, <1>3 DEF Penalised
<1>5. /\ DOMAIN q = SeatFields /\ q.balance = m.balance
      /\ q.pos = m.pos /\ q.fog = m.fog /\ q.held = m.held /\ q.posts = m.posts
      /\ q.contracts = m.contracts /\ q.offer = m.offer
  BY <1>2 DEF Seated, SeatFields
<1>6. Seated(q)
  <2>1. q.balance \in Nat
    BY <1>5 DEF Seated
  <2> QED  BY <1>5, <2>1, StillThere
<1>7. PICK p : p = Charged(q, owed)
  OBVIOUS
<1>8. /\ Seated(p) /\ p.pos = q.pos /\ p.contracts = q.contracts
      /\ p.held \subseteq q.held /\ p.posts = q.posts
  BY <1>6, <1>7, ChargedIsSeated
<1> QED  BY <1>4, <1>5, <1>7, <1>8

\* Expired's own table, of the seat after each ID.
ExpiryStages(m, due, L) ==
  L = [n \in 0 .. 2 |->
         IF n = 0 THEN m
         ELSE LET c == {x \in due : x.id = n - 1}
              IN IF c = {} THEN L[n - 1] ELSE Penalised(L[n - 1], CHOOSE x \in c : TRUE)]

\* The penalties of the two contracts a seat may hold, one after the other.
LEMMA ExpiredIsSeated ==
  ASSUME Setting, NEW m, Seated(m)
  PROVE  LET p == Expired(m)
         IN Seated(p) /\ p.pos = m.pos /\ p.held \subseteq m.held /\ p.posts = m.posts
<1> DEFINE due == Overdue(m)
<1>2. due \in SUBSET m.contracts
  BY DEF Overdue
<1> HIDE DEF due
<1> DEFINE Owes(q, i) == LET c == {x \in due : x.id = i}
                         IN IF c = {} THEN q ELSE Penalised(q, CHOOSE x \in c : TRUE)
           Fine(q) == /\ Seated(q) /\ q.pos = m.pos /\ q.contracts = m.contracts
                      /\ q.held \subseteq m.held /\ q.posts = m.posts
<1>3. ASSUME NEW q, Fine(q), NEW i
      PROVE  Fine(Owes(q, i))
  <2>1. PICK c : c = {x \in due : x.id = i}
    OBVIOUS
  <2>2. CASE c = {}
    BY <1>3, <2>1, <2>2
  <2>3. CASE c # {}
    <3>1. PICK x \in c : x = CHOOSE y \in c : TRUE
      BY <2>3
    <3>2. x \in Contracts
      BY <1>2, <2>1 DEF Seated
    <3>3. PICK p : p = Penalised(q, x)
      OBVIOUS
    <3>4. Owes(q, i) = p
      BY <2>1, <2>3, <3>1, <3>3
    <3>5. /\ Seated(p) /\ p.pos = q.pos /\ p.contracts = q.contracts
          /\ p.held \subseteq q.held /\ p.posts = q.posts
      BY <1>3, <3>2, <3>3, PenalisedIsSeated
    <3>6. Fine(p)
      BY <1>3, <3>5
    <3> HIDE DEF Owes, Fine
    <3> QED  BY <3>4, <3>6
  <2> QED  BY <2>2, <2>3
<1>4. PICK m1 : m1 = Owes(m, 0)
  OBVIOUS
<1>5. PICK m2 : m2 = Owes(m1, 1)
  OBVIOUS
<1>6. PICK R : R = [n \in 0 .. 2 |-> IF n = 0 THEN m ELSE IF n = 1 THEN m1 ELSE m2]
  OBVIOUS
<1>7. ExpiryStages(m, due, R)
  <2>1. R[0] = m /\ R[1] = m1 /\ R[2] = m2
    BY <1>6
  <2>2. R = [n \in 0 .. 2 |-> IF n = 0 THEN m ELSE Owes(R[n - 1], n - 1)]
    <3>1. \A n \in 0 .. 2 : R[n] = IF n = 0 THEN m ELSE Owes(R[n - 1], n - 1)
      <4> TAKE n \in 0 .. 2
      <4>1. n = 0 \/ n = 1 \/ n = 2
        OBVIOUS
      <4> HIDE DEF Owes
      <4> QED  BY <1>4, <1>5, <2>1, <4>1
    <3>2. R = [n \in 0 .. 2 |-> R[n]]
      BY <1>6
    <3> HIDE DEF Owes
    <3> QED  BY <3>1, <3>2
  <2> QED  BY <2>2, Zenon DEF ExpiryStages
<1>8. PICK L : /\ ExpiryStages(m, due, L)
               /\ Expired(m) = [L[2] EXCEPT !.contracts = @ \ due,
                                            !.cargo = IF \E c \in due : c.id = m.cargo THEN NoCargo ELSE @]
  <2> DEFINE Left == CHOOSE L : ExpiryStages(m, due, L)
  <2>1. ExpiryStages(m, due, Left)
    BY <1>7, Zenon
  <2>2. Expired(m) = [Left[2] EXCEPT !.contracts = @ \ due,
                                     !.cargo = IF \E c \in due : c.id = m.cargo THEN NoCargo ELSE @]
    BY Zenon DEF Expired, ExpiryStages, due
  <2> HIDE DEF Left
  <2> QED  BY <2>1, <2>2
<1>9. Fine(L[2])
  <2>1. L = [n \in 0 .. 2 |-> IF n = 0 THEN m ELSE Owes(L[n - 1], n - 1)]
    BY <1>8, Zenon DEF ExpiryStages
  <2>2. L[0] = m /\ L[1] = Owes(L[0], 0) /\ L[2] = Owes(L[1], 1)
    <3> HIDE DEF Owes
    <3> QED  BY <2>1
  <2>3. Fine(m)
    OBVIOUS
  <2> HIDE DEF Owes, Fine
  <2> QED  BY <1>3, <2>2, <2>3
<1>10. PICK q : q = L[2]
  OBVIOUS
<1>11. Fine(q)
  BY <1>9, <1>10
<1>12. PICK p : p = Expired(m)
  OBVIOUS
<1>13. DOMAIN q = SeatFields
  BY <1>11 DEF Seated, SeatFields
<1>14. p = [q EXCEPT !.contracts = @ \ due,
                     !.cargo = IF \E c \in due : c.id = m.cargo THEN NoCargo ELSE @]
  BY <1>8, <1>10, <1>12
<1>15. /\ DOMAIN p = SeatFields /\ p.contracts = q.contracts \ due
       /\ p.pos = q.pos /\ p.fog = q.fog /\ p.held = q.held /\ p.posts = q.posts
       /\ p.balance = q.balance /\ p.offer = q.offer
  BY <1>13, <1>14 DEF SeatFields
<1>16. Seated(p)
  <2>1. /\ p.pos \in Nodes /\ p.fog \in [Nodes -> Hidden .. InSight] /\ p.fog[p.pos] >= Known
        /\ p.balance \in Nat /\ p.held \in SUBSET Nodes /\ p.posts \in [Nodes -> Int]
    BY <1>11, <1>15 DEF Seated
  <2>2. p.contracts \subseteq q.contracts
    BY <1>15
  <2> QED  BY <1>11, <1>15, <2>1, <2>2, StillSeated
<1> QED  BY <1>11, <1>12, <1>15, <1>16

\* Time passing leaves every post held with rounds left, and no other.
LEMMA AgedIsSeated ==
  ASSUME NEW m, Seated(m)
  PROVE  /\ Seated(Aged(m)) /\ Settled(Aged(m))
         /\ Aged(m).contracts = m.contracts
<1>1. PICK held : held = m.held \ Lapsing(m)
  OBVIOUS
<1>2. PICK posts : posts = [n \in Nodes |-> IF n \in held THEN m.posts[n] - 1 ELSE 0]
  OBVIOUS
<1>3. PICK p : p = [m EXCEPT !.held = held, !.posts = posts]
  OBVIOUS
<1>4. p = Aged(m)
  BY <1>1, <1>2, <1>3 DEF Aged
<1>5. /\ DOMAIN p = SeatFields /\ p.held = held /\ p.posts = posts
      /\ p.balance = m.balance /\ p.fog = m.fog
      /\ p.pos = m.pos /\ p.contracts = m.contracts /\ p.offer = m.offer
  BY <1>3 DEF Seated, SeatFields
<1>6. m.held \in SUBSET Nodes /\ \A n \in Nodes : m.posts[n] \in Int
  BY DEF Seated
<1>7. /\ held \in SUBSET Nodes /\ posts \in [Nodes -> Int]
      /\ \A n \in Nodes : posts[n] >= 0 /\ (n \in held <=> posts[n] > 0)
  BY <1>1, <1>2, <1>6 DEF Lapsing
<1>8. Seated(p)
  BY <1>5, <1>7, StillSeated DEF Seated
<1>9. Settled(p)
  BY <1>5, <1>7 DEF Settled
<1> QED  BY <1>4, <1>5, <1>8, <1>9

\* A seat is made an offer only while one of the two IDs is left.
LEMMA OfferedIsSeated ==
  ASSUME Setting, NEW m, Seated(m), Settled(m), NEW k, k.contracts = m.contracts, NEW f \in OffersTo(k)
  PROVE  Seated([m EXCEPT !.offer = f]) /\ Settled([m EXCEPT !.offer = f])
<1>1. f \in Seq(Offered)
  <2>1. <<>> \in Seq(Offered)
    OBVIOUS
  <2> QED  BY <2>1 DEF OffersTo, Setting
<1>2. PICK S : S = m.contracts
  OBVIOUS
<1>3. S \in SUBSET Contracts /\ \A c, d \in S : c.id = d.id => c = d
  BY <1>2 DEF Seated
<1>4. ASSUME \A i \in {0, 1} : \E c \in S : c.id = i
      PROVE  f = <<>>
  <2>1. PICK c \in S, d \in S : c.id = 0 /\ d.id = 1
    BY <1>4
  <2>2. c # d
    BY <2>1
  <2>3. IsFiniteSet(S)
    <3>1. PICK h : h = [x \in S |-> x.id]
      OBVIOUS
    <3>2. \A x \in S : x.id \in {0, 1}
      BY <1>3 DEF Contracts
    <3>3. h \in Injection(S, {0, 1})
      BY <1>3, <3>1, <3>2 DEF Injection, IsInjective
    <3>4. IsFiniteSet({0}) /\ {0, 1} = {0} \cup {1}
      BY FS_Singleton
    <3>5. IsFiniteSet({0, 1})
      BY <3>4, FS_AddElement
    <3> QED  BY <3>3, <3>5, FS_Injection
  <2>4. {c, d} \in SUBSET S
    OBVIOUS
  <2>5. Cardinality({c, d}) = 2
    <3>1. IsFiniteSet({c}) /\ Cardinality({c}) = 1
      BY FS_Singleton
    <3>2. {c, d} = {c} \cup {d} /\ d \notin {c}
      BY <2>2
    <3>3. Cardinality({c} \cup {d}) = Cardinality({c}) + 1
      BY <3>1, <3>2, FS_AddElement
    <3> QED  BY <3>1, <3>2, <3>3
  <2>6. Cardinality({c, d}) <= Cardinality(S) /\ Cardinality(S) \in Nat
    BY <2>3, <2>4, FS_Subset, FS_CardinalityType
  <2>7. Cardinality(k.contracts) >= 2
    BY <1>2, <2>5, <2>6
  <2> QED  BY <2>7 DEF OffersTo
<1>5. PICK p : p = [m EXCEPT !.offer = f]
  OBVIOUS
<1>6. /\ DOMAIN p = SeatFields /\ p.balance = m.balance /\ p.fog = m.fog
      /\ p.held = m.held /\ p.posts = m.posts
      /\ p.pos = m.pos /\ p.contracts = m.contracts /\ p.offer = f
  BY <1>5 DEF Seated, SeatFields
<1>7. p.offer # <<>> => \E i \in {0, 1} : \A c \in p.contracts : c.id # i
  BY <1>2, <1>4, <1>6
<1>8. Seated(p)
  BY <1>1, <1>6, <1>7 DEF Seated, SeatFields
<1>9. Settled(p)
  BY <1>6 DEF Settled
<1> QED  BY <1>5, <1>8, <1>9

-------------------------------------------------------------------------------
(* The invariant.                                                            *)

\* A bot, its weather and its seat are what a match gives.
TableIsSound ==
  /\ tier \in {"drifter", "runner", "operator"}
  /\ round \in Int /\ blockRounds \in BlockRounds /\ weather \in Weathers
  /\ Seated(me) /\ Settled(me)
\* The order to play is the one its tier decided on the very view it is played on.
OrderIsDecided ==
  phase = "resolve" =>
    /\ Playable(View, order)
    /\ purse = me.balance /\ shaken = 0
    /\ tier # "drifter" => Careful(View, order)
    /\ tier = "runner" => order = RunnerOrder(View)

WalkFields == {"step", "previous", "path", "at"}
\* A walk came from a node the seat Knows, and so is every node it may be met at.
Walks(m, w) ==
  /\ DOMAIN w = WalkFields /\ w.step \in Nat /\ w.path \in Seq(Nodes)
  /\ w.previous \in Nodes /\ m.fog[w.previous] >= Known
  /\ \A n \in w.at : n \in Nodes /\ m.fog[n] >= Known
\* What is left of an order can be played.
Plays(o) == DOMAIN o = OrderFields /\ o.route \in Seq(Nodes) /\ o.stake \in Nat /\ o.blocks \in Nat
\* One shakedown may be paid out of the reserve, a second is not provided for.
Reserved(m, o, paid, from) ==
  /\ o.stake = 0
  /\ paid = 0 => m.balance >= from
  /\ paid <= 1 => m.balance >= from - ShakedownCost
  /\ o.ledger \/ o.blocks > 0 => from - Spent(o) >= ShakedownCost
\* A post about to lapse is renewed, or one as urgent is; what is staked survives.
InTime(m, o, from) ==
  /\ \A n \in m.held :
       \/ LeaseCost <= 0 \/ m.posts[n] > AboutToLapse \/ from - LeaseCost < ShakedownCost
       \/ /\ o.blocks > 0 /\ o.act # "stake"
          /\ o.renewAt \in m.held /\ m.posts[o.renewAt] <= m.posts[n]
  /\ o.act = "stake" => blockRounds > 0 /\ o.blocks = BlocksToSurvive(blockRounds)
\* Whatever the walk brings, what was decided stays affordable.
WalkIsKept ==
  phase = "walk" =>
    /\ Walks(me, walk) /\ Plays(order) /\ purse \in Nat /\ shaken \in Nat
    /\ tier # "drifter" => Reserved(me, order, shaken, purse) /\ InTime(me, order, purse)
\* The inductive invariant.
BotInv == TableIsSound /\ OrderIsDecided /\ WalkIsKept

\* What a view takes from the seat.
LEMMA ViewShows ==
  /\ View.pos = me.pos /\ View.fog = me.fog /\ View.cargo = me.cargo
  /\ View.contracts = me.contracts /\ View.offer = me.offer
  /\ View.balance = me.balance /\ View.posts = me.posts
  /\ View.round = round /\ View.blockRounds = blockRounds
  /\ View.steps = weather.steps /\ View.penalty = weather.penalty
  BY DEF View

\* A sound seat has a view to decide on, and holds what it shows rounds of.
LEMMA ViewIsSeen ==
  ASSUME Setting, TableIsSound
  PROVE  Sees(View) /\ Held(View) = me.held
<1>1. weather.steps \in Nat /\ weather.penalty \in Int /\ blockRounds \in Int
  BY DEF Setting, TableIsSound
<1>2. /\ me.pos \in Nodes /\ me.fog \in [Nodes -> Hidden .. InSight] /\ me.fog[me.pos] >= Known
      /\ me.balance \in Nat /\ me.held \in SUBSET Nodes /\ me.posts \in [Nodes -> Int]
      /\ me.contracts \in SUBSET Contracts
      /\ \A c, d \in me.contracts : c.id = d.id => c = d
      /\ me.offer \in Seq(Offered) /\ round \in Int
  BY DEF TableIsSound, Seated
<1>3. \A n \in Nodes : me.posts[n] >= 0 /\ (n \in me.held <=> me.posts[n] > 0)
  BY DEF TableIsSound, Settled
<1>4. me.posts \in [Nodes -> Nat]
  BY <1>2, <1>3
<1>5. PICK v : v = View
  OBVIOUS
<1>6. /\ v.pos = me.pos /\ v.fog = me.fog /\ v.contracts = me.contracts /\ v.offer = me.offer
      /\ v.balance = me.balance /\ v.posts = me.posts
      /\ v.round = round /\ v.blockRounds = blockRounds
      /\ v.steps = weather.steps /\ v.penalty = weather.penalty
  BY <1>5, ViewShows
<1>7. Sees(v)
  BY <1>1, <1>2, <1>4, <1>6 DEF Sees, Ground, Papers
<1>8. Held(v) = me.held
  BY <1>2, <1>3, <1>6 DEF Held
<1> QED  BY <1>5, <1>7, <1>8

\* It holds as a match hands the seat over.
LEMMA InitBot ==
  ASSUME Setting, Init
  PROVE  BotInv
  BY DEF Setting, Init, BotInv, TableIsSound, OrderIsDecided, WalkIsKept

\* Deciding keeps it: each tier's order is playable.
LEMMA DecideKeeps ==
  ASSUME Setting, BotInv, Decide
  PROVE  BotInv'
<1>1. /\ UNCHANGED <<tier, blockRounds, round, me, stock, weather>>
      /\ phase' = "resolve" /\ purse' = me.balance /\ shaken' = 0
  BY DEF Decide
<1>2. View' = View
  BY <1>1 DEF View
<1>3. TableIsSound'
  BY <1>1 DEF BotInv, TableIsSound, Seated, Settled
<1>4. PICK v : v = View
  OBVIOUS
<1>5. Sees(v)
  BY <1>4, ViewIsSeen DEF BotInv
<1>6. PICK o : o = order'
  OBVIOUS
<1>7. /\ Playable(v, o)
      /\ tier # "drifter" => Careful(v, o)
      /\ tier = "runner" => o = RunnerOrder(v)
  <2>1. CASE tier = "drifter"
    <3>1. Drift(v)
      BY <1>4, <2>1 DEF Decide
    <3>2. PICK route \in Routes(v) :
            \E push \in PushingOns(v, route), stance \in Stances(v), items \in Discards(v) :
              LET draft == Relaxed(v, [NoOrder EXCEPT !.route = route, !.push = push, !.items = items,
                                                      !.stance = stance[1], !.stake = stance[2]])
              IN \E a \in Actions(v, draft) :
                   \E full \in SampledAddOns(v, WithAction(draft, a)), choice \in 0 .. Len(v.offer) :
                     order' = [full EXCEPT !.choice = choice]
      BY <3>1, Zenon DEF Drift
    <3>3. PICK push \in PushingOns(v, route), stance \in Stances(v), items \in Discards(v) :
            \E a \in Actions(v, Relaxed(v, [NoOrder EXCEPT !.route = route, !.push = push,
                               !.items = items, !.stance = stance[1], !.stake = stance[2]])) :
              \E full \in SampledAddOns(v, WithAction(Relaxed(v, [NoOrder EXCEPT !.route = route,
                             !.push = push, !.items = items,
                             !.stance = stance[1], !.stake = stance[2]]), a)),
                 choice \in 0 .. Len(v.offer) :
                order' = [full EXCEPT !.choice = choice]
      BY <3>2
    <3>4. PICK draft : draft = Relaxed(v, [NoOrder EXCEPT !.route = route, !.push = push,
                               !.items = items, !.stance = stance[1], !.stake = stance[2]])
      OBVIOUS
    <3>5. PICK a \in Actions(v, draft) :
            \E full \in SampledAddOns(v, WithAction(draft, a)), choice \in 0 .. Len(v.offer) :
              order' = [full EXCEPT !.choice = choice]
      BY <3>3, <3>4
    <3>6. PICK full \in SampledAddOns(v, WithAction(draft, a)), choice \in 0 .. Len(v.offer) :
            order' = [full EXCEPT !.choice = choice]
      BY <3>5
    <3>7. Playable(v, o)
      BY <1>5, <1>6, <3>4, <3>6, DrifterDecides
    <3> QED  BY <2>1, <3>7
  <2>2. CASE tier = "runner"
    <3>1. o = RunnerOrder(v)
      BY <1>4, <1>6, <2>2 DEF Decide
    <3> QED  BY <1>5, <3>1, RunnerDecides
  <2>3. CASE tier = "operator"
    <3>1. o = OperatorOrder(v)
      BY <1>4, <1>6, <2>3 DEF Decide
    <3> QED  BY <1>5, <2>3, <3>1, OperatorDecides
  <2>4. tier \in {"drifter", "runner", "operator"}
    BY DEF BotInv, TableIsSound
  <2> QED  BY <2>1, <2>2, <2>3, <2>4
<1>8. OrderIsDecided'
  <2>1. v = View'
    BY <1>2, <1>4
  <2> QED  BY <1>1, <1>6, <1>7, <2>1 DEF OrderIsDecided
<1>9. WalkIsKept'
  BY <1>1 DEF WalkIsKept
<1> QED  BY <1>3, <1>8, <1>9 DEF BotInv

\* Setting out keeps it: what was decided is within the purse and in time.
LEMMA BeginKeeps ==
  ASSUME Setting, BotInv, Begin
  PROVE  BotInv'
<1>1. /\ phase = "resolve" /\ phase' = "walk"
      /\ UNCHANGED <<tier, blockRounds, round, weather, order, purse, shaken>>
      /\ me' = Chosen(me, order)
      /\ walk' = [NoWalk EXCEPT !.previous = me.pos, !.path = <<me.pos>>]
  BY DEF Begin
<1>2. PICK o : o = order
  OBVIOUS
<1>3. PICK v : v = View
  OBVIOUS
<1>4. Seated(me) /\ Settled(me) /\ round \in Int /\ Sees(v) /\ Held(v) = me.held
  BY <1>3, ViewIsSeen DEF BotInv, TableIsSound
<1>5. /\ v.balance = me.balance /\ v.posts = me.posts /\ v.offer = me.offer
      /\ v.blockRounds = blockRounds
  BY <1>3, ViewShows
<1>6. /\ Playable(v, o) /\ purse = me.balance /\ shaken = 0
      /\ tier # "drifter" => Careful(v, o)
  BY <1>1, <1>2, <1>3 DEF BotInv, OrderIsDecided
<1>7. PICK m : m = Chosen(me, o)
  OBVIOUS
<1>8. /\ Seated(m) /\ m.pos = me.pos /\ m.fog = me.fog /\ m.balance = me.balance
      /\ m.held = me.held /\ m.posts = me.posts
  BY <1>4, <1>5, <1>6, <1>7, ChosenIsSeated DEF Playable
<1>9. Settled(m)
  BY <1>4, <1>8 DEF Settled
<1>10. PICK w : w = [NoWalk EXCEPT !.previous = me.pos, !.path = <<me.pos>>]
  OBVIOUS
<1>11. Walks(m, w)
  <2>1. me.pos \in Nodes /\ me.fog[me.pos] >= Known /\ <<me.pos>> \in Seq(Nodes)
    BY <1>4 DEF Seated
  <2>2. DOMAIN w = WalkFields /\ w.step = 0 /\ w.previous = me.pos /\ w.path = <<me.pos>> /\ w.at = {}
    BY <1>10 DEF NoWalk, WalkFields
  <2> QED  BY <1>8, <2>1, <2>2 DEF Walks
<1>12. Plays(o) /\ purse \in Nat
  BY <1>4, <1>6 DEF Plays, Playable, Seated
<1>13. ASSUME tier # "drifter"
       PROVE  Reserved(m, o, shaken, purse) /\ InTime(m, o, purse)
  <2>1. Careful(v, o) /\ ShakedownCost \in Nat /\ me.balance \in Nat
    BY <1>4, <1>6, <1>13 DEF Setting, Seated
  <2>2. Reserved(m, o, shaken, purse)
    BY <1>5, <1>6, <1>8, <2>1 DEF Reserved, Careful, Covered
  <2>3. ASSUME NEW n \in m.held
        PROVE  \/ LeaseCost <= 0 \/ m.posts[n] > AboutToLapse \/ purse - LeaseCost < ShakedownCost
               \/ /\ o.blocks > 0 /\ o.act # "stake"
                  /\ o.renewAt \in m.held /\ m.posts[o.renewAt] <= m.posts[n]
    <3>1. n \in Held(v)
      BY <1>4, <1>8, <2>3
    <3>2. CASE o.act # "stake"
      BY <1>4, <1>5, <1>6, <1>8, <2>1, <3>1, <3>2 DEF Careful, Timely
    <3>3. CASE o.act = "stake"
      <4>1. Renewing(v) = NoNode
        BY <2>1, <3>3 DEF Careful
      <4>2. \/ LeaseCost <= 0 \/ v.posts[n] > AboutToLapse \/ v.balance - LeaseCost < ShakedownCost
        BY <1>4, <3>1, <4>1, RenewsTheFirst DEF Sees
      <4> QED  BY <1>5, <1>6, <1>8, <4>2
    <3> QED  BY <3>2, <3>3
  <2>4. o.act = "stake" => blockRounds > 0 /\ o.blocks = BlocksToSurvive(blockRounds)
    BY <1>5, <2>1 DEF Careful
  <2> QED  BY <2>2, <2>3, <2>4 DEF InTime
<1>14. TableIsSound'
  <2>1. Seated(me') /\ Settled(me')
    BY <1>1, <1>2, <1>7, <1>8, <1>9
  <2> QED  BY <1>1, <2>1 DEF BotInv, TableIsSound, Seated, Settled
<1>15. WalkIsKept'
  <2>1. m = me' /\ w = walk' /\ o = order'
    BY <1>1, <1>2, <1>7, <1>10
  <2> QED  BY <1>1, <1>6, <1>11, <1>12, <1>13, <2>1 DEF WalkIsKept, Walks, Plays, Reserved, InTime, Spent
<1>16. OrderIsDecided'
  BY <1>1 DEF OrderIsDecided
<1> QED  BY <1>14, <1>15, <1>16 DEF BotInv

\* A step or a fight keeps it where it leaves the leases and what is to be paid alone.
LEMMA WalkKeeps ==
  ASSUME BotInv, phase = "walk", UNCHANGED <<tier, blockRounds, round, phase, weather, purse>>,
         NEW m, m = me', NEW w, w = walk', NEW o, o = order', NEW s \in Nat, s = shaken',
         Seated(m), m.held = me.held, m.posts = me.posts,
         Walks(m, w), Plays(o),
         /\ o.stake = order.stake /\ o.ledger = order.ledger /\ o.blocks = order.blocks
         /\ o.renewAt = order.renewAt /\ o.act \in {order.act, "nothing"},
         tier # "drifter" => /\ s = 0 => m.balance >= purse
                             /\ s <= 1 => m.balance >= purse - ShakedownCost
  PROVE  BotInv'
<1>1. TableIsSound /\ WalkIsKept
  BY DEF BotInv
<1>2. Settled(m)
  BY <1>1 DEF TableIsSound, Settled
<1>3. TableIsSound'
  BY <1>1, <1>2 DEF TableIsSound, Seated, Settled
<1>4. purse \in Nat /\ (tier # "drifter" => Reserved(me, order, shaken, purse) /\ InTime(me, order, purse))
  BY <1>1 DEF WalkIsKept
<1>5. Spent(o) = Spent(order)
  BY DEF Spent
<1>6. tier # "drifter" => Reserved(m, o, s, purse)
  BY <1>4, <1>5 DEF Reserved
<1>7. tier # "drifter" => InTime(m, o, purse)
  BY <1>4 DEF InTime
<1>8. WalkIsKept'
  BY <1>4, <1>6, <1>7 DEF WalkIsKept, Walks, Plays, Reserved, InTime, Spent
<1>9. OrderIsDecided'
  BY DEF OrderIsDecided
<1> QED  BY <1>3, <1>8, <1>9 DEF BotInv

\* A step keeps it.
LEMMA AdvanceKeeps ==
  ASSUME Setting, BotInv, Advance
  PROVE  BotInv'
<1>1. /\ phase = "walk"
      /\ UNCHANGED <<tier, blockRounds, round, phase, weather, order, purse, shaken>>
  BY DEF Advance
<1>2a. PICK to \in Onward(order, me.pos, walk) : \E found \in Finds(me, to) :
        /\ me' = Entering(me, to, found)
        /\ walk' = [walk EXCEPT !.step = @ + 1, !.previous = me.pos,
                                !.path = IF to = me.pos THEN @ ELSE Append(@, to),
                                !.at = {me.pos, to}]
  BY DEF Advance
<1>2. PICK found \in Finds(me, to) :
        /\ me' = Entering(me, to, found)
        /\ walk' = [walk EXCEPT !.step = @ + 1, !.previous = me.pos,
                                !.path = IF to = me.pos THEN @ ELSE Append(@, to),
                                !.at = {me.pos, to}]
  BY <1>2a
<1>3. /\ Seated(me) /\ Walks(me, walk) /\ Plays(order) /\ shaken \in Nat
      /\ tier # "drifter" => Reserved(me, order, shaken, purse)
  BY <1>1 DEF BotInv, TableIsSound, WalkIsKept
<1>4. me.pos \in Nodes /\ me.fog[me.pos] >= Known /\ me.balance \in Nat
  BY <1>3 DEF Seated
<1>5. to \in Nodes
  <2>1. ASSUME walk.step < Len(order.route) PROVE order.route[walk.step + 1] \in Nodes
    <3>1. PICK n \in Nat : n = Len(order.route)
      BY <1>3 DEF Plays
    <3>2. walk.step + 1 \in 1 .. n
      BY <1>3, <2>1, <3>1 DEF Walks
    <3> QED  BY <1>3, <3>1, <3>2 DEF Plays
  <2>2. BlindSteps(me.pos, walk.previous) \subseteq Nodes
    BY DEF BlindSteps, Neighbours
  <2> QED  BY <1>4, <2>1, <2>2 DEF Onward
<1>6. PICK m : m = Entering(me, to, found)
  OBVIOUS
<1>7. /\ Seated(m) /\ m.pos = to /\ m.held = me.held /\ m.posts = me.posts
      /\ m.balance >= me.balance /\ m.fog[to] >= Known
      /\ \A n \in Nodes : me.fog[n] >= Known => m.fog[n] >= Known
  BY <1>3, <1>5, <1>6, EnteringIsSeated
<1>8. PICK path : path = IF to = me.pos THEN walk.path ELSE Append(walk.path, to)
  OBVIOUS
<1>9. PICK w : w = [walk EXCEPT !.step = @ + 1, !.previous = me.pos, !.path = path, !.at = {me.pos, to}]
  OBVIOUS
<1>10. path \in Seq(Nodes)
  BY <1>3, <1>5, <1>8 DEF Walks
<1>11. DOMAIN walk = WalkFields /\ walk.step \in Nat
  BY <1>3 DEF Walks
<1>12. w = walk'
  BY <1>2, <1>8, <1>9, <1>11 DEF WalkFields
<1>13. Walks(m, w)
  <2>1. /\ DOMAIN w = WalkFields /\ w.step = walk.step + 1 /\ w.previous = me.pos
        /\ w.path = path /\ w.at = {me.pos, to}
    BY <1>9, <1>11 DEF WalkFields
  <2> QED  BY <1>4, <1>5, <1>7, <1>10, <1>11, <2>1 DEF Walks
<1>14. tier # "drifter" => /\ shaken = 0 => m.balance >= purse
                           /\ shaken <= 1 => m.balance >= purse - ShakedownCost
  <2>1. purse \in Nat /\ ShakedownCost \in Nat /\ m.balance \in Nat
    BY <1>1, <1>7 DEF BotInv, WalkIsKept, Setting, Seated
  <2> QED  BY <1>3, <1>4, <1>7, <2>1 DEF Reserved
<1> QED  BY <1>1, <1>2, <1>3, <1>6, <1>7, <1>12, <1>13, <1>14, WalkKeeps

\* The way to a fight is a way.
LEMMA WayIntoAFight ==
  ASSUME walk.path \in Seq(Nodes), NEW c \in Nodes
  PROVE  PathInto(c) \in Seq(Nodes)
<1>1. PICK p \in Seq(Nodes), n \in Nat : p = walk.path /\ n = Len(p)
  OBVIOUS
<1>2. CASE n = 0
  <2>1. SubSeq(p, 1, n - 1) = <<>>
    BY <1>1, <1>2
  <2>2. Append(<<>>, c) \in Seq(Nodes)
    OBVIOUS
  <2> QED  BY <1>1, <2>1, <2>2 DEF PathInto, FixedTail
<1>3. CASE n # 0
  <2>0. PICK k \in 0 .. n : k = n - 1
    BY <1>3
  <2>1. PICK front \in Seq(Nodes) : front = SubSeq(p, 1, n - 1)
    <3>1. SubSeq(p, 1, k) \in Seq(Nodes)
      BY <1>1, <2>0
    <3> QED  BY <2>0, <3>1
  <2>2. Append(front, c) \in Seq(Nodes)
    OBVIOUS
  <2> QED  BY <1>1, <2>1, <2>2 DEF PathInto, FixedTail
<1> QED  BY <1>2, <1>3

\* The walk after a fight at node c, for a seat that Knows what it Knew.
LEMMA WalksOn ==
  ASSUME NEW m, NEW w, Walks(m, w), NEW c \in w.at,
         NEW k, \A n \in Nodes : m.fog[n] >= Known => k.fog[n] >= Known,
         NEW path \in Seq(Nodes), NEW previous \in {w.previous, c},
         NEW x, x = [w EXCEPT !.at = @ \ {c}, !.path = path, !.previous = previous]
  PROVE  Walks(k, x)
<1>1. /\ DOMAIN x = WalkFields /\ x.step = w.step /\ x.previous = previous
      /\ x.path = path /\ x.at = w.at \ {c}
  BY DEF Walks, WalkFields
<1> QED  BY <1>1 DEF Walks

\* What a fight leaves as it is.
LEMMA Fighting ==
  ASSUME BotInv, NEW c, Meets(c)
  PROVE  /\ phase = "walk" /\ c \in walk.at /\ c \in Nodes /\ me.fog[c] >= Known
         /\ UNCHANGED <<tier, blockRounds, round, phase, weather, purse>>
         /\ Seated(me) /\ Walks(me, walk) /\ Plays(order)
         /\ purse \in Nat /\ shaken \in Nat /\ walk.step \in Nat
         /\ tier # "drifter" => Reserved(me, order, shaken, purse)
<1>1. phase = "walk" /\ c \in walk.at
  BY DEF Meets
<1>2. TableIsSound /\ WalkIsKept
  BY DEF BotInv
<1>3. Walks(me, walk) /\ Plays(order) /\ purse \in Nat /\ shaken \in Nat
  BY <1>1, <1>2 DEF WalkIsKept
<1> QED  BY <1>1, <1>2, <1>3 DEF Meets, TableIsSound, WalkIsKept, Walks

\* A fight lost keeps it: a shakedown comes out of the reserve.
LEMMA LosesKeeps ==
  ASSUME Setting, BotInv, NEW c, Loses(c)
  PROVE  BotInv'
<1>0. /\ phase = "walk" /\ c \in walk.at /\ c \in Nodes
      /\ UNCHANGED <<tier, blockRounds, round, phase, weather, purse>>
      /\ Seated(me) /\ Walks(me, walk) /\ Plays(order)
      /\ purse \in Nat /\ shaken \in Nat /\ walk.step \in Nat
      /\ tier # "drifter" => Reserved(me, order, shaken, purse)
  BY Fighting DEF Loses
<1>1. PICK path \in PushedBack(PathInto(c), c, order.stance = "evasive") :
        /\ me' = [Lost(me, order, path[Len(path)]) EXCEPT !.items = Without(@, <<Muscle>>)]
        /\ walk' = NotBackTo(c, FoughtAt(c, path))
  BY DEF Loses
<1>2. /\ order' = Halted(order, walk.step)
      /\ shaken' = IF ShakenDown(me, order) THEN shaken + 1 ELSE shaken
  BY DEF Loses
<1>3. path \in Seq(Nodes) /\ path[Len(path)] \in Nodes
  <2>1. PathInto(c) \in Seq(Nodes)
    BY <1>0, WayIntoAFight DEF Walks
  <2> QED  BY <1>0, <2>1, PushedBackIsAWalk
<1>4. PICK to \in Nodes : to = path[Len(path)]
  BY <1>3
<1>5. PICK k : k = Lost(me, order, to)
  OBVIOUS
<1>6. /\ Seated(k) /\ k.pos = to /\ k.held = me.held /\ k.posts = me.posts
      /\ \A n \in Nodes : me.fog[n] >= Known => k.fog[n] >= Known
      /\ order.stake = 0 => k.balance >= me.balance - (IF ShakenDown(me, order) THEN ShakedownCost ELSE 0)
  BY <1>0, <1>4, <1>5, LostIsSeated DEF Plays
<1>7. PICK m : m = [k EXCEPT !.items = Without(@, <<Muscle>>)]
  OBVIOUS
<1>8. /\ DOMAIN m = SeatFields /\ m.pos = k.pos /\ m.fog = k.fog /\ m.balance = k.balance
      /\ m.held = k.held /\ m.posts = k.posts /\ m.contracts = k.contracts /\ m.offer = k.offer
  BY <1>6, <1>7 DEF Seated, SeatFields
<1>9. Seated(m)
  <2>1. m.balance \in Nat
    BY <1>6, <1>8 DEF Seated
  <2> QED  BY <1>6, <1>8, <2>1, StillThere
<1>10. m = me'
  BY <1>1, <1>4, <1>5, <1>7
<1>11. PICK w : w = walk'
  OBVIOUS
<1>12. Walks(m, w)
  <2>1. PICK previous \in {walk.previous, c} :
          w = [walk EXCEPT !.at = @ \ {c}, !.path = path, !.previous = previous]
    BY <1>0, <1>1, <1>11 DEF NotBackTo, FoughtAt, Walks, WalkFields
  <2>2. \A n \in Nodes : me.fog[n] >= Known => m.fog[n] >= Known
    BY <1>6, <1>8
  <2> QED  BY <1>0, <1>3, <2>1, <2>2, WalksOn
<1>13. PICK o : o = Halted(order, walk.step)
  OBVIOUS
<1>14. /\ Plays(o)
       /\ o.stake = order.stake /\ o.ledger = order.ledger /\ o.blocks = order.blocks
       /\ o.renewAt = order.renewAt /\ o.act \in {order.act, "nothing"}
  BY <1>0, <1>13, HaltedKeeps DEF Plays
<1>15. PICK s \in Nat : s = IF ShakenDown(me, order) THEN shaken + 1 ELSE shaken
  BY <1>0
<1>16. tier # "drifter" => /\ s = 0 => m.balance >= purse
                           /\ s <= 1 => m.balance >= purse - ShakedownCost
  <2>1. ShakedownCost \in Nat /\ m.balance \in Nat /\ me.balance \in Nat
    BY <1>0, <1>9 DEF Setting, Seated
  <2> QED  BY <1>0, <1>6, <1>8, <1>15, <2>1 DEF Reserved
<1> QED  BY <1>0, <1>2, <1>6, <1>8, <1>9, <1>10, <1>11, <1>12, <1>13, <1>14, <1>15, <1>16, WalkKeeps

\* A tie keeps it: the seat is back where its step began.
LEMMA TiesKeeps ==
  ASSUME Setting, BotInv, NEW c, Ties(c)
  PROVE  BotInv'
<1>0. /\ phase = "walk" /\ c \in walk.at /\ c \in Nodes
      /\ UNCHANGED <<tier, blockRounds, round, phase, weather, purse>>
      /\ Seated(me) /\ Walks(me, walk) /\ Plays(order)
      /\ purse \in Nat /\ shaken \in Nat /\ walk.step \in Nat
      /\ tier # "drifter" => Reserved(me, order, shaken, purse)
  BY Fighting DEF Ties
<1>1. /\ me' = [me EXCEPT !.pos = walk.previous]
      /\ walk' = NotBackTo(c, FoughtAt(c, <<walk.previous>>))
      /\ order' = Halted(order, walk.step) /\ shaken' = shaken
  BY DEF Ties
<1>2. walk.previous \in Nodes /\ me.fog[walk.previous] >= Known /\ <<walk.previous>> \in Seq(Nodes)
  BY <1>0 DEF Walks
<1>3. PICK m : m = [me EXCEPT !.pos = walk.previous]
  OBVIOUS
<1>4. /\ DOMAIN m = SeatFields /\ m.pos = walk.previous /\ m.fog = me.fog /\ m.balance = me.balance
      /\ m.held = me.held /\ m.posts = me.posts /\ m.contracts = me.contracts /\ m.offer = me.offer
  BY <1>0, <1>3 DEF Seated, SeatFields
<1>5. Seated(m)
  <2>1. /\ m.fog \in [Nodes -> Hidden .. InSight] /\ m.balance \in Nat
        /\ m.held \in SUBSET Nodes /\ m.posts \in [Nodes -> Int]
    BY <1>0, <1>4 DEF Seated
  <2> QED  BY <1>0, <1>2, <1>4, <2>1, StillSeated
<1>6. PICK w : w = walk'
  OBVIOUS
<1>7. Walks(m, w)
  <2>1. PICK previous \in {walk.previous, c} :
          w = [walk EXCEPT !.at = @ \ {c}, !.path = <<walk.previous>>, !.previous = previous]
    BY <1>0, <1>1, <1>6 DEF NotBackTo, FoughtAt, Walks, WalkFields
  <2>2. \A n \in Nodes : me.fog[n] >= Known => m.fog[n] >= Known
    BY <1>4
  <2> QED  BY <1>0, <1>2, <2>1, <2>2, WalksOn
<1>8. PICK o : o = Halted(order, walk.step)
  OBVIOUS
<1>9. /\ Plays(o)
      /\ o.stake = order.stake /\ o.ledger = order.ledger /\ o.blocks = order.blocks
      /\ o.renewAt = order.renewAt /\ o.act \in {order.act, "nothing"}
  BY <1>0, <1>8, HaltedKeeps DEF Plays
<1>10. tier # "drifter" => /\ shaken = 0 => m.balance >= purse
                           /\ shaken <= 1 => m.balance >= purse - ShakedownCost
  BY <1>0, <1>4 DEF Reserved
<1> QED  BY <1>0, <1>1, <1>3, <1>4, <1>5, <1>6, <1>7, <1>8, <1>9, <1>10, WalkKeeps

\* A fight won keeps it: it only brings in.
LEMMA WinsKeeps ==
  ASSUME Setting, BotInv, NEW c, Wins(c)
  PROVE  BotInv'
<1>0. /\ phase = "walk" /\ c \in walk.at /\ c \in Nodes /\ me.fog[c] >= Known
      /\ UNCHANGED <<tier, blockRounds, round, phase, weather, purse>>
      /\ Seated(me) /\ Walks(me, walk) /\ Plays(order)
      /\ purse \in Nat /\ shaken \in Nat /\ walk.step \in Nat
      /\ tier # "drifter" => Reserved(me, order, shaken, purse)
  BY Fighting DEF Wins
<1>1. PICK taken \in Takings, crate \in Crates :
        me' = [me EXCEPT !.pos = c, !.infamy = Infamous(me, 2), !.balance = @ + taken,
                         !.cargo = IF @ = NoCargo THEN crate ELSE @]
  BY DEF Wins
<1>2. /\ walk' = FoughtAt(c, PathInto(c)) /\ shaken' = shaken
      /\ order' = IF me.pos = c THEN order ELSE Halted(order, walk.step)
  BY DEF Wins
<1>3. PICK m : m = me'
  OBVIOUS
<1>4. /\ DOMAIN m = SeatFields /\ m.pos = c /\ m.fog = me.fog /\ m.balance = me.balance + taken
      /\ m.held = me.held /\ m.posts = me.posts /\ m.contracts = me.contracts /\ m.offer = me.offer
  BY <1>0, <1>1, <1>3 DEF Seated, SeatFields
<1>5. taken \in Nat /\ me.balance \in Nat
  BY <1>0 DEF Setting, Seated
<1>6. Seated(m)
  <2>1. /\ m.fog \in [Nodes -> Hidden .. InSight] /\ m.balance \in Nat
        /\ m.held \in SUBSET Nodes /\ m.posts \in [Nodes -> Int]
    BY <1>0, <1>4, <1>5 DEF Seated
  <2> QED  BY <1>0, <1>4, <2>1, StillSeated
<1>7. PICK w : w = walk'
  OBVIOUS
<1>8. Walks(m, w)
  <2>1. PathInto(c) \in Seq(Nodes)
    BY <1>0, WayIntoAFight DEF Walks
  <2>2. w = [walk EXCEPT !.at = @ \ {c}, !.path = PathInto(c), !.previous = walk.previous]
    BY <1>0, <1>2, <1>7 DEF FoughtAt, Walks, WalkFields
  <2>3. \A n \in Nodes : me.fog[n] >= Known => m.fog[n] >= Known
    BY <1>4
  <2> QED  BY <1>0, <2>1, <2>2, <2>3, WalksOn
<1>9. PICK o : o = order'
  OBVIOUS
<1>10. /\ Plays(o)
       /\ o.stake = order.stake /\ o.ledger = order.ledger /\ o.blocks = order.blocks
       /\ o.renewAt = order.renewAt /\ o.act \in {order.act, "nothing"}
  <2>1. CASE me.pos = c
    BY <1>0, <1>2, <1>9, <2>1
  <2>2. CASE me.pos # c
    BY <1>0, <1>2, <1>9, <2>2, HaltedKeeps DEF Plays
  <2> QED  BY <2>1, <2>2
<1>11. tier # "drifter" => /\ shaken = 0 => m.balance >= purse
                           /\ shaken <= 1 => m.balance >= purse - ShakedownCost
  <2>1. ShakedownCost \in Nat
    BY DEF Setting
  <2> QED  BY <1>0, <1>4, <1>5, <2>1 DEF Reserved
<1> QED  BY <1>0, <1>2, <1>3, <1>4, <1>6, <1>7, <1>8, <1>9, <1>10, <1>11, WalkKeeps

-------------------------------------------------------------------------------
(* What a round leaves behind.                                               *)

\* What is renewed, or staked to survive, outlasts the next upkeep.
LEMMA RenewalLasts ==
  ASSUME Setting, Lasts, blockRounds \in BlockRounds, NEW current \in Nat, NEW blocks \in Nat, blocks > 0,
         current > 0 \/ blocks = BlocksToSurvive(blockRounds)
  PROVE  RenewedRounds(current, blocks, blockRounds) >= 2
<1>1. PICK r \in Int : r = blockRounds /\ r > 0
  BY DEF Setting, Lasts
<1>2. PICK most \in Int : most = MaxBlocks * r
  BY <1>1 DEF Setting
<1>3. PICK more \in Int : more = blocks * r
  BY <1>1
<1>4. most >= 2
  <2>1. MaxBlocks \in Nat /\ MaxBlocks >= 2
    BY DEF Setting, Lasts
  <2> QED  BY <1>1, <1>2, <2>1
<1>5. more >= r /\ (blocks = BlocksToSurvive(r) => more >= 2)
  <2>1. more >= r
    BY <1>1, <1>3
  <2>2. BlocksToSurvive(r) = IF r = 1 THEN 2 ELSE 1
    BY <1>1, SurvivingBlocks
  <2>3. CASE r = 1
    BY <1>3, <2>2, <2>3
  <2>4. CASE r # 1
    BY <1>1, <2>1, <2>4
  <2> QED  BY <2>1, <2>3, <2>4
<1>6. current + more >= 2
  BY <1>1, <1>5
<1>7. RenewedRounds(current, blocks, blockRounds) = Least(most, current + more)
  BY <1>1, <1>2, <1>3 DEF RenewedRounds
<1> QED  BY <1>4, <1>6, <1>7 DEF Least

\* The close of a round, step by step: the seat stays sound, its purse covers what it
\* was to pay, and no post lapses that could have been renewed.
LEMMA CloseGives ==
  ASSUME Setting, BotInv, Close
  PROVE  /\ Seated(me') /\ Settled(me')
         /\ Pays /\ tier # "drifter" /\ order.act # "deal" /\ shaken <= 1 => ~inDebt'
         /\ tier # "drifter" /\ Lasts =>
              \A n \in lapsed' :
                \/ SectorOf[n] = struck'
                \/ /\ me.posts[n] > 0
                   /\ \/ purse - LeaseCost < ShakedownCost
                      \/ /\ order.blocks > 0 /\ order.act # "stake" /\ order.renewAt # n
                         /\ me.posts[order.renewAt] \in 1 .. me.posts[n]
<1>1. phase = "walk"
  BY DEF Close
<1>2. PICK o : o = order
  OBVIOUS
<1>3. /\ Plays(o) /\ purse \in Nat /\ shaken \in Nat
      /\ tier # "drifter" => Reserved(me, o, shaken, purse) /\ InTime(me, o, purse)
  BY <1>1, <1>2 DEF BotInv, WalkIsKept
<1>4. Seated(me) /\ Settled(me) /\ blockRounds \in Int /\ blockRounds \in BlockRounds
  BY DEF BotInv, TableIsSound, Setting
<1>5. /\ LeaseCost \in Nat /\ LedgerCost \in Nat /\ ShakedownCost \in Nat
      /\ me.balance \in Nat /\ me.held \in SUBSET Nodes /\ me.pos \in Nodes
      /\ me.posts \in [Nodes -> Int]
      /\ o.blocks \in Nat
  BY <1>3, <1>4 DEF Setting, Seated, Plays
<1> DEFINE light == [me EXCEPT !.items = Without(@, order.items)]
<1>6. PICK taken \in BOOLEAN, sector \in Fires[round] :
        \E pay \in Paid(Acted(light, order, taken), order) :
          LET done   == Delivered(Acted(light, order, taken), order, pay)
              bought == Ledgered(done, order)
              after  == Renewed(bought, order)
              closed == Expired(Torched(Looked(after), sector))
          IN /\ \E f \in OffersTo(closed) : me' = [Aged(closed) EXCEPT !.offer = f]
             /\ struck' = sector /\ lapsed' = Lapsing(closed)
             /\ inDebt' = \/ Renews(bought, order) /\ order.blocks * LeaseCost > bought.balance
                          \/ Stakes(light, order, taken) /\ order.blocks * LeaseCost > me.balance
  BY Zenon DEF Close
<1>7. PICK lighter : lighter = light
  OBVIOUS
<1>8. /\ DOMAIN lighter = SeatFields /\ lighter.pos = me.pos /\ lighter.fog = me.fog
      /\ lighter.balance = me.balance /\ lighter.held = me.held /\ lighter.posts = me.posts
      /\ lighter.contracts = me.contracts /\ lighter.offer = me.offer
  BY <1>4, <1>7 DEF Seated, SeatFields
<1>9. Seated(lighter)
  BY <1>4, <1>5, <1>8, StillThere
<1> HIDE DEF light
<1>10. PICK acted : acted = Acted(lighter, o, taken)
  OBVIOUS
<1>11. /\ Seated(acted) /\ acted.pos = me.pos
       /\ o.act \notin {"stake", "deal"} => acted.balance >= me.balance
       /\ \/ acted.held \subseteq me.held /\ acted.posts = me.posts
          \/ /\ o.act = "stake" /\ acted.held \subseteq me.held \cup {me.pos}
             /\ acted.posts = [me.posts EXCEPT ![me.pos] = Fresh(o)]
  BY <1>4, <1>5, <1>8, <1>9, <1>10, ActedIsSeated
<1>12. PICK pay \in Paid(acted, o) :
          LET done   == Delivered(acted, order, pay)
              bought == Ledgered(done, order)
              after  == Renewed(bought, order)
              closed == Expired(Torched(Looked(after), sector))
          IN /\ \E f \in OffersTo(closed) : me' = [Aged(closed) EXCEPT !.offer = f]
             /\ struck' = sector /\ lapsed' = Lapsing(closed)
             /\ inDebt' = \/ Renews(bought, order) /\ order.blocks * LeaseCost > bought.balance
                          \/ Stakes(light, order, taken) /\ order.blocks * LeaseCost > me.balance
  BY <1>2, <1>6, <1>7, <1>10
<1>13. PICK done : done = Delivered(acted, o, pay)
  OBVIOUS
<1>14. /\ Seated(done) /\ done.held \subseteq acted.held /\ done.posts = acted.posts
       /\ Pays => done.balance >= acted.balance
  BY <1>11, <1>13, DeliveredIsSeated
<1>15. PICK bought : bought = Ledgered(done, o)
  OBVIOUS
<1>16. /\ Seated(bought) /\ bought.held = done.held /\ bought.posts = done.posts
       /\ o.ledger => bought.balance >= done.balance - LedgerCost
       /\ ~o.ledger => bought.balance = done.balance
  BY <1>14, <1>15, LedgeredIsSeated
<1>17. PICK after : after = Renewed(bought, o)
  OBVIOUS
<1>18. /\ Seated(after) /\ after.held \subseteq bought.held
       /\ \A n \in after.held :
            after.posts[n] = IF Renews(bought, o) /\ n = o.renewAt
                             THEN RenewedRounds(bought.posts[n], o.blocks, blockRounds)
                             ELSE bought.posts[n]
  BY <1>4, <1>5, <1>16, <1>17, RenewedIsSeated
<1>19. PICK looked : looked = Looked(after)
  OBVIOUS
<1>20. Seated(looked) /\ looked.held = after.held /\ looked.posts = after.posts
  BY <1>18, <1>19, LookedIsSeated
<1>21. PICK torched : torched = Torched(looked, sector)
  OBVIOUS
<1>22. /\ Seated(torched) /\ torched.held = looked.held
       /\ \A n \in Nodes : SectorOf[n] # sector => torched.posts[n] = looked.posts[n]
  BY <1>20, <1>21, TorchedIsSeated
<1>23. PICK closed : closed = Expired(torched)
  OBVIOUS
<1>24. Seated(closed) /\ closed.held \subseteq torched.held /\ closed.posts = torched.posts
  BY <1>22, <1>23, ExpiredIsSeated
<1>25. PICK aged : aged = Aged(closed)
  OBVIOUS
<1>26. Seated(aged) /\ Settled(aged) /\ aged.contracts = closed.contracts
  BY <1>24, <1>25, AgedIsSeated
<1>27. /\ \E f \in OffersTo(closed) : me' = [aged EXCEPT !.offer = f]
       /\ struck' = sector /\ lapsed' = Lapsing(closed)
       /\ inDebt' = \/ Renews(bought, o) /\ o.blocks * LeaseCost > bought.balance
                    \/ Stakes(lighter, o, taken) /\ o.blocks * LeaseCost > me.balance
  BY <1>2, <1>7, <1>12, <1>13, <1>15, <1>17, <1>19, <1>21, <1>23, <1>25
<1>28. Seated(me') /\ Settled(me')
  <2>1. PICK f \in OffersTo(closed) : me' = [aged EXCEPT !.offer = f]
    BY <1>27
  <2>2. PICK m : m = [aged EXCEPT !.offer = f]
    OBVIOUS
  <2>3. Seated(m) /\ Settled(m)
    BY <1>26, <2>2, OfferedIsSeated
  <2>4. me' = m
    BY <2>1, <2>2
  <2> QED  BY <2>3, <2>4
<1>29. ASSUME Pays, tier # "drifter", o.act # "deal", shaken <= 1
       PROVE  ~inDebt'
  <2>1. /\ me.balance >= purse - ShakedownCost
        /\ o.ledger \/ o.blocks > 0 => purse - Spent(o) >= ShakedownCost
    BY <1>3, <1>29 DEF Reserved
  <2>2. PICK owed \in Nat : owed = o.blocks * LeaseCost
    BY <1>5
  <2>3. PICK fee \in Nat : fee = IF o.ledger THEN LedgerCost ELSE 0
    BY <1>5
  <2>4. Spent(o) = fee + owed
    BY <2>2, <2>3 DEF Spent
  <2>5. o.blocks = 0 => owed = 0
    BY <1>5, <2>2
  <2>6. o.blocks > 0 => me.balance >= fee + owed
    BY <1>3, <1>5, <2>1, <2>4
  <2>7. bought.balance \in Nat /\ done.balance \in Nat /\ acted.balance \in Nat
    BY <1>11, <1>14, <1>16 DEF Seated
  <2>8. ~(owed > me.balance)
    BY <1>5, <2>3, <2>5, <2>6
  <2>9. ASSUME Renews(bought, o) PROVE owed <= bought.balance
    <3>1. o.blocks > 0 /\ o.act \notin {"stake", "deal"}
      BY <1>29, <2>9 DEF Renews
    <3>2. bought.balance >= done.balance - fee
      BY <1>16, <2>3, <2>7
    <3>3. done.balance >= me.balance
      BY <1>5, <1>11, <1>14, <1>29, <2>7, <3>1
    <3> QED  BY <1>5, <2>6, <2>7, <3>1, <3>2, <3>3
  <2>10. ~(Renews(bought, o) /\ owed > bought.balance)
    BY <2>7, <2>9
  <2> QED  BY <1>27, <2>2, <2>8, <2>10
<1>30. ASSUME tier # "drifter", Lasts, NEW n \in lapsed', SectorOf[n] # sector
       PROVE  /\ me.posts[n] > 0
              /\ \/ purse - LeaseCost < ShakedownCost
                 \/ /\ o.blocks > 0 /\ o.act # "stake" /\ o.renewAt # n
                    /\ me.posts[o.renewAt] \in 1 .. me.posts[n]
  <2>1. n \in closed.held /\ closed.posts[n] <= 1
    BY <1>27 DEF Lapsing
  <2>2. n \in Nodes /\ n \in after.held /\ n \in bought.held /\ n \in acted.held
    BY <1>14, <1>16, <1>18, <1>20, <1>22, <1>24, <2>1 DEF Seated
  <2>3. after.posts[n] <= 1
    BY <1>20, <1>22, <1>24, <1>30, <2>1, <2>2
  <2>4. bought.posts[n] = acted.posts[n] /\ acted.posts[n] \in Int
    BY <1>11, <1>14, <1>16, <2>2 DEF Seated
  <2>5. InTime(me, o, purse) /\ LeaseCost > 0
    BY <1>3, <1>30 DEF Lasts
  <2>6. \A k \in me.held : me.posts[k] > 0
    BY <1>4, <1>5 DEF Settled
  <2>7. ASSUME o.act = "stake" PROVE Fresh(o) >= 2
    <3>1. blockRounds > 0 /\ o.blocks = BlocksToSurvive(blockRounds)
      BY <2>5, <2>7 DEF InTime
    <3>2. o.blocks > 0
      BY <1>5, <3>1, SurvivingBlocks, <1>4
    <3> QED  BY <1>4, <1>5, <1>30, <3>1, <3>2, RenewalLasts DEF Fresh
  <2>8. acted.posts[n] > 0
    <3>1. CASE acted.held \subseteq me.held /\ acted.posts = me.posts
      BY <2>2, <2>6, <3>1
    <3>2. CASE /\ o.act = "stake" /\ acted.held \subseteq me.held \cup {me.pos}
               /\ acted.posts = [me.posts EXCEPT ![me.pos] = Fresh(o)]
      <4>1. CASE n = me.pos
        <5>1. acted.posts[n] = Fresh(o)
          BY <1>5, <3>2, <4>1
        <5> QED  BY <2>4, <2>7, <3>2, <5>1
      <4>2. CASE n # me.pos
        BY <1>5, <2>2, <2>6, <3>2, <4>2
      <4> QED  BY <4>1, <4>2
    <3> QED  BY <1>11, <3>1, <3>2
  <2>9. ~(Renews(bought, o) /\ n = o.renewAt)
    <3>1. SUFFICES ASSUME Renews(bought, o), n = o.renewAt PROVE FALSE
      OBVIOUS
    <3>2. PICK current \in Nat : current = bought.posts[n] /\ current > 0
      BY <2>4, <2>8
    <3>3. o.blocks > 0
      BY <3>1 DEF Renews
    <3>4. RenewedRounds(current, o.blocks, blockRounds) >= 2
      BY <1>4, <1>5, <1>30, <3>2, <3>3, RenewalLasts
    <3>5. after.posts[n] = RenewedRounds(current, o.blocks, blockRounds)
      BY <1>18, <2>2, <3>1, <3>2
    <3>6. after.posts[n] \in Int
      BY <1>18, <2>2 DEF Seated
    <3> QED  BY <2>3, <3>4, <3>5, <3>6
  <2>10. acted.posts[n] <= 1
    BY <1>18, <2>2, <2>3, <2>4, <2>9
  <2>11. n \in me.held /\ me.posts[n] = acted.posts[n]
    <3>1. CASE acted.held \subseteq me.held /\ acted.posts = me.posts
      BY <2>2, <3>1
    <3>2. CASE /\ o.act = "stake" /\ acted.held \subseteq me.held \cup {me.pos}
               /\ acted.posts = [me.posts EXCEPT ![me.pos] = Fresh(o)]
      <4>1. n # me.pos
        BY <1>5, <2>4, <2>7, <2>10, <3>2
      <4> QED  BY <1>5, <2>2, <3>2, <4>1
    <3> QED  BY <1>11, <3>1, <3>2
  <2>12. \/ purse - LeaseCost < ShakedownCost
         \/ /\ o.blocks > 0 /\ o.act # "stake"
            /\ o.renewAt \in me.held /\ me.posts[o.renewAt] <= me.posts[n]
    BY <1>5, <2>4, <2>5, <2>10, <2>11 DEF InTime, AboutToLapse
  <2>13. o.blocks > 0 /\ o.act # "stake" => o.renewAt # n
    BY <2>2, <2>9 DEF Renews
  <2>14. o.renewAt \in me.held => me.posts[o.renewAt] \in Int /\ me.posts[o.renewAt] > 0
    BY <1>5, <2>6
  <2> QED  BY <1>5, <2>4, <2>8, <2>11, <2>12, <2>13, <2>14
<1>31. Pays /\ tier # "drifter" /\ order.act # "deal" /\ shaken <= 1 => ~inDebt'
  BY <1>2, <1>29
<1>32. struck' = sector
  BY <1>27
<1> QED  BY <1>2, <1>28, <1>30, <1>31, <1>32

\* So the close keeps the invariant.
LEMMA CloseKeeps ==
  ASSUME Setting, BotInv, Close
  PROVE  BotInv'
<1>1. /\ tier' = tier /\ blockRounds' = blockRounds /\ weather' \in Weathers
      /\ round' = round + 1 /\ phase' = "decide"
  BY DEF Close
<1>2. Seated(me') /\ Settled(me')
  BY CloseGives
<1>3. TableIsSound'
  BY <1>1, <1>2 DEF BotInv, TableIsSound, Seated, Settled
<1>4. OrderIsDecided' /\ WalkIsKept'
  BY <1>1 DEF OrderIsDecided, WalkIsKept
<1> QED  BY <1>3, <1>4 DEF BotInv

-------------------------------------------------------------------------------
(* The way a Runner goes.                                                    *)

\* The surroundings of a node are nodes.
LEMMA BallIsNodes ==
  ASSUME IsFiniteSet(Nodes), NEW v, NEW from \in Nodes
  PROVE  \A k \in 0 .. Cardinality(Nodes) : KnownBall(v, from)[k] \subseteq Nodes
<1>1. PICK N \in Nat : N = Cardinality(Nodes)
  BY FS_CardinalityType
<1>2. PICK W : W = KnownBall(v, from)
  OBVIOUS
<1>3. W[0] = {from} /\ \A k \in 1 .. N : W[k] = Wider(v, W[k - 1])
  BY <1>1, <1>2, BallWidens
<1> DEFINE good == {k \in 0 .. N : W[k] \subseteq Nodes}
<1>4. good \in SUBSET (0 .. N) /\ 0 \in good
  BY <1>3
<1>5. ASSUME NEW k \in 1 .. N, k - 1 \in good
      PROVE  k \in good
  <2>1. W[k - 1] \subseteq Nodes /\ W[k] = Wider(v, W[k - 1])
    BY <1>3, <1>5
  <2>2. \A n : Edges(v, n) \subseteq Nodes
    BY DEF Edges, Neighbours
  <2>3. Wider(v, W[k - 1]) \subseteq Nodes
    BY <2>1, <2>2 DEF Wider
  <2>4. W[k] \subseteq Nodes
    BY <2>1, <2>3
  <2> QED  BY <2>4
<1>6. \A k \in 0 .. N : k \in good
  <2> HIDE DEF good
  <2> QED  BY <1>4, <1>5, AllStages
<1> QED  BY <1>1, <1>2, <1>6

\* A Known node next to one k - 1 steps from the goal, or fewer, is within k of it.
LEMMA NextIsNear ==
  ASSUME IsFiniteSet(Nodes), NEW v, NEW goal, NEW k \in 1 .. Cardinality(Nodes),
         NEW x \in Nodes, NEW y \in Nodes, y \in KnownBall(v, goal)[k - 1],
         v.fog[x] >= Known, v.fog[y] >= Known, {x, y} \in Paths
  PROVE  x \in KnownBall(v, goal)[k]
<1>1. x \in Edges(v, y)
  <2>1. {y, x} = {x, y}
    OBVIOUS
  <2> QED  BY <2>1 DEF Edges, Neighbours
<1>2. KnownBall(v, goal)[k] = Wider(v, KnownBall(v, goal)[k - 1])
  BY BallWidens
<1> QED  BY <1>1, <1>2 DEF Wider

\* No route comes nearer than by a step each.
LEMMA NoShortcut ==
  ASSUME Setting, NEW v, Ground(v), NEW goal \in Nodes,
         NEW r \in Seq(Nodes), LegalRoute(v, r), ~EndsHidden(v, r),
         Reachable(v, goal, v.pos), Reachable(v, goal, EndOf(v, r))
  PROVE  Dist(v, goal, v.pos) <= Dist(v, goal, EndOf(v, r)) + Len(r)
<1>0. IsFiniteSet(Nodes)
  BY DEF Setting
<1>1. PICK N \in Nat : N = Cardinality(Nodes)
  BY <1>0, FS_CardinalityType
<1>2. PICK W : W = KnownBall(v, goal)
  OBVIOUS
<1>3. PICK n \in Nat : n = Len(r)
  OBVIOUS
<1>4. PICK e \in 0 .. N : e = Dist(v, goal, EndOf(v, r)) /\ EndOf(v, r) \in W[e]
  BY <1>0, <1>1, <1>2, DistIsFirst
<1>5. PICK d \in 0 .. N : d = Dist(v, goal, v.pos) /\ \A j \in 0 .. N : v.pos \in W[j] => d <= j
  BY <1>0, <1>1, <1>2, DistIsFirst
<1>6. PICK at : at = [i \in 0 .. n |-> IF i = 0 THEN v.pos ELSE r[i]]
  OBVIOUS
<1>7. \A i \in 1 .. n : /\ r[i] \in Edges(v, IF i = 1 THEN v.pos ELSE r[i - 1])
                        /\ v.fog[r[i]] # Rumoured
                        /\ v.fog[r[i]] = Hidden => i = n
  BY <1>3, RouteIsLegal
<1>8. at[0] = v.pos /\ at[n] = EndOf(v, r) /\ \A i \in 0 .. n : at[i] \in Nodes
  <2>1. v.pos \in Nodes
    BY DEF Ground
  <2>2. at[n] = EndOf(v, r)
    <3>1. CASE n = 0
      <4>0. r \in Seq(Nodes) /\ Len(r) = 0
        BY <1>3, <3>1
      <4>1. r = <<>>
        BY <4>0
      <4> QED  BY <1>6, <3>1, <4>1 DEF EndOf
    <3>2. CASE n # 0
      <4>1. r # <<>>
        BY <1>3, <3>2
      <4> QED  BY <1>3, <1>6, <3>2, <4>1 DEF EndOf
    <3> QED  BY <3>1, <3>2
  <2>3. ASSUME NEW i \in 0 .. n PROVE at[i] \in Nodes
    <3>1. i # 0 => r[i] \in Nodes
      BY <1>3
    <3> QED  BY <1>6, <2>1, <3>1
  <2> QED  BY <1>6, <2>2, <2>3
<1>9. ASSUME NEW i \in 0 .. n
      PROVE  v.fog[at[i]] >= Known /\ (i # n => {at[i], at[i + 1]} \in Paths)
  <2>1. v.fog[at[i]] \in Hidden .. InSight
    BY <1>8 DEF Ground
  <2>2. v.fog[at[i]] # Hidden /\ v.fog[at[i]] # Rumoured
    <3>1. CASE i = 0
      BY <1>8, <3>1 DEF Ground, Known, Hidden, Rumoured
    <3>2. CASE i # 0
      <4>1. at[i] = r[i] /\ i \in 1 .. n
        BY <1>6, <3>2
      <4>2. i = n => v.fog[at[i]] # Hidden
        BY <1>8 DEF EndsHidden
      <4> QED  BY <1>7, <4>1, <4>2
    <3> QED  BY <3>1, <3>2
  <2>3. ASSUME i # n PROVE {at[i], at[i + 1]} \in Paths
    <3>1. i + 1 \in 1 .. n /\ at[i + 1] = r[i + 1]
      BY <1>6, <2>3
    <3>2. at[i] = IF i + 1 = 1 THEN v.pos ELSE r[(i + 1) - 1]
      BY <1>6
    <3>3. at[i + 1] \in Edges(v, at[i])
      BY <1>7, <3>1, <3>2
    <3> QED  BY <3>3 DEF Edges, Neighbours
  <2> QED  BY <2>1, <2>2, <2>3 DEF Hidden, Rumoured, Known, InSight
<1> DEFINE good == {k \in 0 .. n : e + k <= N => at[n - k] \in W[e + k]}
<1>10. good \in SUBSET (0 .. n) /\ 0 \in good
  BY <1>4, <1>8
<1>11. ASSUME NEW k \in 1 .. n, k - 1 \in good
       PROVE  k \in good
  <2>1. SUFFICES ASSUME e + k <= N PROVE at[n - k] \in W[e + k]
    OBVIOUS
  <2>2. PICK i \in 0 .. n : i = n - k /\ i + 1 \in 0 .. n /\ i # n
    OBVIOUS
  <2>3. PICK h : h = e + k
    OBVIOUS
  <2>4. h \in 1 .. N /\ at[i + 1] \in W[h - 1]
    BY <1>11, <2>1, <2>2, <2>3
  <2>5. {at[i], at[i + 1]} \in Paths /\ v.fog[at[i]] >= Known /\ v.fog[at[i + 1]] >= Known
    BY <1>9, <2>2
  <2>6. at[i] \in Nodes /\ at[i + 1] \in Nodes
    BY <1>8, <2>2
  <2>7. at[i] \in W[h]
    BY <1>0, <1>1, <1>2, <2>4, <2>5, <2>6, NextIsNear
  <2> QED  BY <2>2, <2>3, <2>7
<1>12. \A k \in 0 .. n : k \in good
  <2> HIDE DEF good
  <2> QED  BY <1>10, <1>11, AllStages
<1>13. e + n <= N => v.pos \in W[e + n]
  <2>1. n \in good /\ n - n = 0
    BY <1>12
  <2> QED  BY <1>8, <2>1
<1>14. d <= e + n
  BY <1>5, <1>13
<1> QED  BY <1>3, <1>4, <1>5, <1>14

\* And some route of the allowance takes every step towards it.
LEMMA StraightRoute ==
  ASSUME Setting, NEW v, Ground(v), NEW goal \in Nodes, Reachable(v, goal, v.pos)
  PROVE  \E r \in Routes(v) :
           /\ ~EndsHidden(v, r) /\ Reachable(v, goal, EndOf(v, r))
           /\ Dist(v, goal, EndOf(v, r)) <= Most(0, Dist(v, goal, v.pos) - v.steps)
<1>0. IsFiniteSet(Nodes)
  BY DEF Setting
<1>1. PICK N \in Nat : N = Cardinality(Nodes)
  BY <1>0, FS_CardinalityType
<1>2. PICK W : W = KnownBall(v, goal)
  OBVIOUS
<1>3. PICK n \in Nat : n = v.steps
  BY DEF Ground
<1>4. PICK R : /\ Routes(v) = R[n] /\ R[0] = {<<>>}
               /\ \A k \in 1 .. n : R[k] = Longer(v, R[k - 1])
  BY <1>3, RoutesGrow
<1>5. PICK d \in 0 .. N : d = Dist(v, goal, v.pos) /\ v.pos \in W[d]
  BY <1>0, <1>1, <1>2, DistIsFirst
<1> DEFINE Near(r, k) == /\ r \in Seq(Nodes) /\ EndOf(v, r) \in Nodes
                         /\ v.fog[EndOf(v, r)] >= Known
                         /\ EndOf(v, r) \in W[Most(0, d - k)]
           good == {k \in 0 .. n : \E r \in R[k] : Near(r, k)}
<1>6. good \in SUBSET (0 .. n) /\ 0 \in good
  <2>1. <<>> \in Seq(Nodes) /\ EndOf(v, <<>>) = v.pos
    BY DEF EndOf
  <2>2. Most(0, d - 0) = d
    BY DEF Most
  <2>3. Near(<<>>, 0)
    BY <1>5, <2>1, <2>2 DEF Ground
  <2>4. <<>> \in R[0]
    BY <1>4
  <2>5. 0 \in 0 .. n
    OBVIOUS
  <2> HIDE DEF Near
  <2> QED  BY <2>3, <2>4, <2>5
<1>7. ASSUME NEW k \in 1 .. n, k - 1 \in good
      PROVE  k \in good
  <2>1. PICK r \in R[k - 1] : Near(r, k - 1)
    BY <1>7
  <2>2. PICK x \in Nodes : x = EndOf(v, r) /\ v.fog[x] >= Known
    BY <2>1
  <2>3. PICK j : j = Most(0, d - (k - 1))
    OBVIOUS
  <2>4. j \in 0 .. N /\ x \in W[j] /\ Most(0, d - k) = (IF j = 0 THEN 0 ELSE j - 1)
    BY <2>1, <2>2, <2>3 DEF Most
  <2>5. r \in R[k]
    BY <1>4 DEF Longer
  <2>6. CASE j = 0
    <3>1. Near(r, k)
      BY <2>1, <2>3, <2>4, <2>6
    <3> QED  BY <2>5, <3>1
  <2>7. CASE j # 0 /\ x \in W[j - 1]
    <3>1. Near(r, k)
      BY <2>1, <2>2, <2>4, <2>7
    <3> QED  BY <2>5, <3>1
  <2>8. CASE j # 0 /\ x \notin W[j - 1]
    <3>1. j \in 1 .. N /\ j - 1 \in 0 .. N
      BY <2>4, <2>8
    <3>2. W[j] = Wider(v, W[j - 1])
      BY <1>0, <1>1, <1>2, <3>1, BallWidens
    <3>3. PICK y \in W[j - 1] : x \in Edges(v, y)
      BY <2>4, <2>8, <3>2 DEF Wider
    <3>4. y \in Nodes
      BY <1>0, <1>1, <1>2, <3>1, <3>3, BallIsNodes
    <3>5. v.fog[y] >= Known /\ {y, x} \in Paths
      BY <3>3 DEF Edges, Neighbours
    <3>6. y \in Edges(v, x)
      <4>1. {x, y} = {y, x}
        OBVIOUS
      <4> QED  BY <2>2, <3>4, <3>5, <4>1 DEF Edges, Neighbours
    <3>7. v.fog[y] # Rumoured
      BY <3>4, <3>5 DEF Ground, Known, Rumoured
    <3>8. PICK q : q = Append(r, y)
      OBVIOUS
    <3>9. q \in R[k]
      <4>1. R[k] = Longer(v, R[k - 1])
        BY <1>4
      <4>2. <<r, y>> \in {w \in R[k - 1] \X Nodes :
                             w[2] \in Edges(v, EndOf(v, w[1])) /\ v.fog[w[2]] # Rumoured}
        BY <2>1, <2>2, <3>4, <3>6, <3>7
      <4>3. Append(<<r, y>>[1], <<r, y>>[2]) = q
        BY <3>8
      <4>4. q \in Longer(v, R[k - 1])
        BY <4>2, <4>3 DEF Longer
      <4> QED  BY <4>1, <4>4
    <3>10. q \in Seq(Nodes) /\ EndOf(v, q) = y
      <4>1. PICK m \in Nat : m = Len(r)
        BY <2>1
      <4>2. q \in Seq(Nodes) /\ Len(q) = m + 1 /\ q[m + 1] = y /\ q # <<>>
        BY <2>1, <3>4, <3>8, <4>1
      <4> QED  BY <4>2 DEF EndOf
    <3>11. Near(q, k)
      BY <2>4, <2>8, <3>3, <3>4, <3>5, <3>10
    <3> QED  BY <3>9, <3>11
  <2> QED  BY <2>6, <2>7, <2>8
<1>8. \A k \in 0 .. n : k \in good
  <2> HIDE DEF good
  <2> QED  BY <1>6, <1>7, AllStages
<1>9. PICK r \in R[n] : Near(r, n)
  BY <1>8
<1>10. PICK j : j = Most(0, d - n)
  OBVIOUS
<1>11. j \in 0 .. N /\ EndOf(v, r) \in W[j]
  BY <1>9, <1>10 DEF Most
<1>12. Reachable(v, goal, EndOf(v, r))
  <2>1. N \in j .. N
    BY <1>11
  <2> QED  BY <1>0, <1>1, <1>2, <1>11, <2>1, BallKeeps DEF Reachable
<1>13. Dist(v, goal, EndOf(v, r)) <= j
  BY <1>0, <1>1, <1>2, <1>11, <1>12, DistIsFirst
<1>14. ~EndsHidden(v, r)
  BY <1>9 DEF EndsHidden, Hidden, Known
<1> QED  BY <1>3, <1>4, <1>5, <1>10, <1>12, <1>13, <1>14

\* The Runner's way is the one chosen by distance from its objective.
LEMMA RunnersRoute ==
  ASSUME NEW v
  PROVE  RunnerOrder(v).route =
           ChooseRoute(v, RunnerObjective(v),
                       [r \in Routes(v) |-> Dist(v, RunnerObjective(v), EndOf(v, r))])
<1>1. PICK goal : goal = RunnerObjective(v)
  OBVIOUS
<1>2. PICK steps : steps = [r \in Routes(v) |-> Dist(v, goal, EndOf(v, r))]
  OBVIOUS
<1>3. PICK p : p = Planned(v, ChooseRoute(v, goal, steps), goal)
  OBVIOUS
<1>4. PICK d : d = RunnerDeed(v, p, goal)
  OBVIOUS
<1>5. DOMAIN p = OrderFields /\ p.route = ChooseRoute(v, goal, steps)
  BY <1>3 DEF Planned, NoOrder, OrderFields
<1>6. DOMAIN d = OrderFields /\ d.route = p.route
  BY <1>4, <1>5 DEF RunnerDeed, OrderFields
<1>7. WithRenewal(v, d).route = d.route
  BY <1>6 DEF WithRenewal, OrderFields
<1>8. RunnerOrder(v) = WithRenewal(v, d)
  BY <1>1, <1>2, <1>3, <1>4 DEF RunnerOrder, RunnerFor
<1> QED  BY <1>1, <1>2, <1>5, <1>6, <1>7, <1>8

\* So a Runner plans to come as near as its allowance lets it.
LEMMA RunnerGoesStraight ==
  ASSUME Setting, BotInv
  PROVE  GoesStraight
<1>0. SUFFICES ASSUME phase = "resolve", tier = "runner"
               PROVE  LET o == RunnerObjective(View) IN
                      o # NoNode /\ Reachable(View, o, me.pos) =>
                        Dist(View, o, EndOf(View, order.route)) =
                          Most(0, Dist(View, o, me.pos) - weather.steps)
  BY Zenon DEF GoesStraight
<1>1. PICK v : v = View
  OBVIOUS
<1>2. Sees(v) /\ Ground(v) /\ v.pos = me.pos /\ v.fog = me.fog /\ v.steps = weather.steps
  BY <1>1, ViewIsSeen, ViewShows DEF BotInv, Sees
<1>3. PICK goal \in Nodes \cup {NoNode} : goal = RunnerObjective(v)
  BY <1>2, ObjectiveIsANode DEF Sees
<1>4. SUFFICES ASSUME goal # NoNode, Reachable(v, goal, v.pos)
               PROVE  Dist(v, goal, EndOf(v, order.route)) = Most(0, Dist(v, goal, v.pos) - v.steps)
  BY <1>1, <1>2, <1>3
<1>5. goal \in Nodes
  BY <1>4
<1>6. PICK score : score = [r \in Routes(v) |-> Dist(v, goal, EndOf(v, r))]
  OBVIOUS
<1>7. IsFiniteSet(Nodes) /\ Cardinality(Nodes) \in Nat
  BY FS_CardinalityType DEF Setting
<1>8. \A n : Reachable(v, goal, n) => Dist(v, goal, n) \in Nat
  BY <1>7, DistIsFirst
<1>9. \A r \in Routes(v) : Reachable(v, goal, EndOf(v, r)) => score[r] \in Int
  BY <1>6, <1>8
<1>10. PICK r : r = NearestRoute(v, goal, score)
  OBVIOUS
<1>11. /\ r \in Routes(v) /\ ~EndsHidden(v, r) /\ Reachable(v, goal, EndOf(v, r))
       /\ \A q \in Routes(v) : ~EndsHidden(v, q) /\ Reachable(v, goal, EndOf(v, q)) =>
            score[r] <= score[q]
  BY <1>2, <1>4, <1>9, <1>10, NearestIsARoute
<1>12. order.route = r
  <2>1. order = RunnerOrder(v)
    BY <1>0, <1>1 DEF BotInv, OrderIsDecided
  <2>2. ChooseRoute(v, goal, score) = r
    BY <1>4, <1>10 DEF ChooseRoute
  <2> QED  BY <1>3, <1>6, <2>1, <2>2, RunnersRoute
<1>13. /\ r \in Seq(Nodes) /\ Len(r) <= v.steps /\ LegalRoute(v, r)
  BY <1>2, <1>7, <1>11, RoutesAreLegal DEF Ground
<1>15. PICK q \in Routes(v) :
         /\ ~EndsHidden(v, q) /\ Reachable(v, goal, EndOf(v, q))
         /\ Dist(v, goal, EndOf(v, q)) <= Most(0, Dist(v, goal, v.pos) - v.steps)
  BY <1>2, <1>4, <1>5, StraightRoute
<1>16. Dist(v, goal, EndOf(v, r)) <= Dist(v, goal, EndOf(v, q))
  BY <1>6, <1>11, <1>15
<1>17. Dist(v, goal, v.pos) <= Dist(v, goal, EndOf(v, r)) + Len(r)
  BY <1>2, <1>4, <1>5, <1>11, <1>13, NoShortcut
<1>18. /\ Dist(v, goal, v.pos) \in Nat /\ Dist(v, goal, EndOf(v, r)) \in Nat
       /\ Dist(v, goal, EndOf(v, q)) \in Nat /\ v.steps \in Nat /\ Len(r) \in Nat
  BY <1>2, <1>4, <1>8, <1>11, <1>13, <1>15 DEF Ground
<1>19. Dist(v, goal, EndOf(v, r)) = Most(0, Dist(v, goal, v.pos) - v.steps)
  BY <1>13, <1>15, <1>16, <1>17, <1>18 DEF Most
<1> QED  BY <1>12, <1>19

-------------------------------------------------------------------------------
(* The theorems.                                                             *)

\* Nothing happening keeps it.
LEMMA IdleKeeps ==
  ASSUME BotInv, UNCHANGED vars
  PROVE  BotInv'
<1>1. View' = View
  BY DEF View, vars
<1>2. TableIsSound'
  BY DEF BotInv, TableIsSound, Seated, Settled, vars
<1>3. PICK v : v = View
  OBVIOUS
<1>4. OrderIsDecided'
  <2>1. v = View'
    BY <1>1, <1>3
  <2> QED  BY <1>3, <2>1 DEF BotInv, OrderIsDecided, vars
<1>5. WalkIsKept'
  BY DEF BotInv, WalkIsKept, Walks, Plays, Reserved, InTime, Spent, vars
<1> QED  BY <1>2, <1>4, <1>5 DEF BotInv

\* Every step keeps it.
LEMMA NextKeeps ==
  ASSUME Setting, BotInv, [Next]_vars
  PROVE  BotInv'
<1>1. Fight => BotInv'
  BY LosesKeeps, TiesKeeps, WinsKeeps DEF Fight
<1> QED  BY <1>1, DecideKeeps, BeginKeeps, AdvanceKeeps, CloseKeeps, IdleKeeps DEF Next

\* Only Close ends a round.
LEMMA ClosingIsClose ==
  ASSUME Next, Closing
  PROVE  Close
<1>1. phase = "walk" /\ phase' = "decide"
  BY DEF Closing
<1>2. ~Decide /\ ~Begin /\ ~Advance
  BY <1>1 DEF Decide, Begin, Advance
<1>3. ~Fight
  BY <1>1 DEF Fight, Loses, Ties, Wins, Meets
<1> QED  BY <1>2, <1>3 DEF Next

\* The invariant always holds, for each tier and on any map.
THEOREM BotInvariant == ASSUME Setting PROVE Spec => []BotInv
<1>1. Init => BotInv
  BY InitBot
<1>2. BotInv /\ [Next]_vars => BotInv'
  BY NextKeeps
<1> QED  BY <1>1, <1>2, PTL DEF Spec

\* Whatever the tier and the map, what Decide returns is legal for the view it was
\* given (bot.go, Bot).
THEOREM BotsAreLegal == ASSUME Setting PROVE Spec => []DecidesLegally
<1>1. BotInv => DecidesLegally
  BY DEF BotInv, OrderIsDecided, Playable, DecidesLegally
<1> QED  BY <1>1, BotInvariant, PTL

\* Where half of what a crate pays covers the gate, what a Runner or an Operator adds
\* on never puts it in debt, whatever its fights take in between, one shakedown
\* included (runner.go, runnerReserve; operator.go, chooseAddOns).
THEOREM ReservesCover == ASSUME Setting, Pays PROVE Spec => AddOnsAreCovered
<1>1. ASSUME BotInv, [Next]_vars
      PROVE  [Closing /\ tier # "drifter" /\ order.act # "deal" /\ shaken <= 1 => ~inDebt']_vars
  <2> SUFFICES ASSUME Next, Closing, tier # "drifter", order.act # "deal", shaken <= 1
               PROVE  ~inDebt'
    BY <1>1
  <2>1. Close
    BY ClosingIsClose
  <2> QED  BY <1>1, <2>1, CloseGives
<1> QED  BY <1>1, BotInvariant, PTL DEF Spec, AddOnsAreCovered

\* Where a block lasts a round or more and at least two may be bought, a lease that is
\* not torched runs out only in sight of the bot and for want of the reserve, or
\* behind one as urgent (runner.go, maybeRenewLease), whatever the round brings.
THEOREM LeasesAreRenewed == ASSUME Setting, Lasts PROVE Spec => RenewsInTime
<1> DEFINE P == Closing /\ tier # "drifter" =>
       \A n \in lapsed' :
         \/ SectorOf[n] = struck'
         \/ /\ me.posts[n] > 0
            /\ \/ purse - LeaseCost < ShakedownCost
               \/ /\ order.blocks > 0 /\ order.act # "stake" /\ order.renewAt # n
                  /\ me.posts[order.renewAt] \in 1 .. me.posts[n]
<1>1. ASSUME BotInv, [Next]_vars
      PROVE  [P]_vars
  <2> SUFFICES ASSUME Next, Closing, tier # "drifter"
               PROVE  P
    BY <1>1
  <2>1. Close
    BY ClosingIsClose
  <2> QED  BY <1>1, <2>1, CloseGives
<1>2. RenewsInTime <=> [][P]_vars
  BY DEF RenewsInTime
<1> HIDE DEF P
<1> QED  BY <1>1, <1>2, BotInvariant, PTL DEF Spec

\* A Runner plans to come as near to what it can reach as its steps allow, on any map
\* (runner.go, nearestRoute).
THEOREM RunnersGoStraight == ASSUME Setting PROVE Spec => []GoesStraight
<1>1. BotInv => GoesStraight
  BY RunnerGoesStraight
<1> QED  BY <1>1, BotInvariant, PTL
===============================================================================
