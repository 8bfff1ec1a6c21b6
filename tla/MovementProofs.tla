---------------------------- MODULE MovementProofs ----------------------------
(***************************************************************************)
(* What holds of Movement for every number of seats, board, weather and    *)
(* set of plans: that a walk ends where its seat stands and leads over     *)
(* known nodes; that what fights and gas leave of an order still fits the  *)
(* walk, and its end keeps time; and where those thrown out may go.        *)
(***************************************************************************)
EXTENDS Movement, FiniteSetTheorems, WellFoundedInduction, TLAPS

Paths  == Seq(Nodes) \ {<<>>}
Orders == [route : Seq(Nodes), push : Nat, acts : BOOLEAN,
           stance : {"none", "aggressive", "neutral", "evasive"}]

\* Every node on the path.
On(path, nodes) == \A i \in 1 .. Len(path) : path[i] \in nodes

\* All a seat may be sent back to is Known to it: the nodes of its path, the
\* node before, and the node of every fight it is still to have.
WalkKnown == \A s \in Seats : On(walk[s].path, known[s]) /\ walk[s].previous \in known[s]
FightsKnown == \A c \in pending : \A s \in c.seats : c.node \in known[s]

IInv == TypeOK /\ PathEndsHere /\ WalkKnown /\ FightsKnown

-------------------------------------------------------------------------------
(* Lemmas about paths.                                                       *)

\* A path grows by a step to another node.
LEMMA Appended ==
  ASSUME NEW path \in Paths, NEW n \in Nodes, NoRepeat(path), n # Last(path)
  PROVE  /\ Append(path, n) \in Paths /\ Last(Append(path, n)) = n /\ NoRepeat(Append(path, n))
         /\ \A nodes : On(path, nodes) /\ n \in nodes => On(Append(path, n), nodes)
BY DEF Paths, NoRepeat, Last, On

\* Any part of a path from its beginning is a path.
LEMMA Truncated ==
  ASSUME NEW path \in Paths, NEW k \in 1 .. Len(path), NoRepeat(path)
  PROVE  /\ SubSeq(path, 1, k) \in Paths /\ NoRepeat(SubSeq(path, 1, k))
         /\ Len(SubSeq(path, 1, k)) = k /\ Last(SubSeq(path, 1, k)) = path[k]
         /\ \A nodes : On(path, nodes) => On(SubSeq(path, 1, k), nodes)
BY DEF Paths, NoRepeat, Last, On

\* One node is a path.
LEMMA Single ==
  ASSUME NEW n \in Nodes
  PROVE  <<n>> \in Paths /\ NoRepeat(<<n>>) /\ Last(<<n>>) = n /\ Len(<<n>>) = 1 /\ On(<<n>>, {n})
BY DEF Paths, NoRepeat, Last, On

\* The correction of a crossing leaves a path that ends at the fight.
LEMMA PathFixed ==
  ASSUME NEW path \in Paths, NEW n \in Nodes, NoRepeat(path)
  PROVE  LET fixed == FixPathTail(path, n)
         IN /\ fixed \in Paths /\ NoRepeat(fixed) /\ Last(fixed) = n
            /\ \A nodes : On(path, nodes) /\ n \in nodes => On(fixed, nodes)
<1> DEFINE tail == [path EXCEPT ![Len(path)] = n]
           part == SubSeq(tail, 1, Len(path) - 1)
<1>1. path \in Seq(Nodes) /\ Len(path) \in Nat \ {0}
  BY DEF Paths
<1>2. /\ tail \in Seq(Nodes) /\ Len(tail) = Len(path) /\ tail[Len(path)] = n
      /\ \A i \in 1 .. Len(path) - 1 : tail[i] = path[i]
  BY <1>1
<1>3. FixPathTail(path, n) = IF Len(path) >= 2 /\ path[Len(path) - 1] = n THEN part ELSE tail
  BY <1>2 DEF FixPathTail, Front
<1> HIDE DEF tail
<1>4. CASE Len(path) >= 2 /\ path[Len(path) - 1] = n
  <2>1. Len(path) - 1 \in 1 .. Len(tail)
    BY <1>1, <1>2, <1>4
  <2>2. part \in Seq(Nodes) /\ Len(part) = Len(path) - 1 /\ \A i \in 1 .. Len(path) - 1 : part[i] = tail[i]
    BY <1>1, <1>2, <2>1
  <2> HIDE DEF part
  <2>3. part \in Paths /\ Last(part) = n
    BY <1>1, <1>2, <1>4, <2>2 DEF Paths, Last
  <2>4. \A i \in 1 .. Len(part) : part[i] = path[i]
    BY <1>2, <2>2
  <2>5. NoRepeat(part) /\ \A nodes : On(path, nodes) => On(part, nodes)
    BY <1>1, <2>2, <2>4 DEF NoRepeat, On
  <2> QED BY <1>3, <1>4, <2>3, <2>5
<1>5. CASE ~(Len(path) >= 2 /\ path[Len(path) - 1] = n)
  <2>1. NoRepeat(tail)
    <3> SUFFICES ASSUME NEW i \in 1 .. Len(path) - 1 PROVE tail[i] # tail[i + 1]
      BY <1>2 DEF NoRepeat
    <3>1. path[i] # path[i + 1]
      BY DEF NoRepeat
    <3>2. CASE i = Len(path) - 1
      BY <1>1, <1>2, <1>5, <3>2
    <3>3. CASE i # Len(path) - 1
      BY <1>1, <1>2, <3>1, <3>3
    <3> QED BY <3>2, <3>3
  <2>2. tail \in Paths /\ Last(tail) = n
    BY <1>1, <1>2 DEF Paths, Last
  <2>3. \A nodes : On(path, nodes) /\ n \in nodes => On(tail, nodes)
    BY <1>1, <1>2 DEF On
  <2> QED BY <1>3, <1>5, <2>1, <2>2, <2>3
<1> QED BY <1>4, <1>5

\* Wherever a hop leads is on the board.
LEMMA HopsOnBoard ==
  ASSUME NEW n \in Nodes, NEW evasive \in BOOLEAN
  PROVE  RandomHops(n, evasive) \subseteq Nodes
BY DEF RandomHops, Open, Neighbours

\* A seat comes to a fight with a path that ends there.
LEMMA PathsInFight ==
  ASSUME IInv, NEW c \in pending, NEW s \in c.seats
  PROVE  LET path == PathInFight(c, s)
         IN /\ path \in Paths /\ NoRepeat(path) /\ Last(path) = c.node /\ On(path, known[s])
<1>1. s \in Seats /\ c.node \in Nodes /\ c.node \in known[s]
  BY DEF IInv, TypeOK, FightsKnown
<1>2. /\ walk[s].path \in Paths /\ NoRepeat(walk[s].path)
      /\ Last(walk[s].path) = position[s] /\ On(walk[s].path, known[s])
  BY <1>1 DEF IInv, TypeOK, PathEndsHere, WalkKnown, Paths
<1>3. CASE s \in Corrected(c)
  BY <1>1, <1>2, <1>3, PathFixed DEF PathInFight
<1>4. CASE s \notin Corrected(c)
  BY <1>1, <1>2, <1>4 DEF PathInFight, Corrected
<1> QED BY <1>3, <1>4

\* The last node of a seat's path is one it knows.
LEMMA StandsKnown == IInv => StandsOnKnown
<1> SUFFICES ASSUME IInv, NEW s \in Seats PROVE position[s] \in known[s]
  BY DEF StandsOnKnown
<1> DEFINE path == walk[s].path
<1>1. path \in Paths /\ Last(path) = position[s] /\ On(path, known[s])
  BY DEF IInv, TypeOK, PathEndsHere, WalkKnown, Paths
<1> HIDE DEF path
<1>2. Len(path) \in 1 .. Len(path)
  BY <1>1 DEF Paths
<1> QED BY <1>1, <1>2 DEF On, Last

\* A loser is left with a path of Known nodes, but perhaps for the one it is
\* thrown onto.
LEMMA PathsAfterPushback ==
  ASSUME IInv, NEW c \in pending, NEW s \in c.seats, NEW path \in Pushbacks(c, s)
  PROVE  /\ path \in Paths /\ NoRepeat(path) /\ Last(path) \in Nodes
         /\ On(path, known[s] \cup {Last(path)})
<1> DEFINE before == PathInFight(c, s)
           hops   == IF Evasive(s) THEN 2 ELSE 1
<1>1. before \in Paths /\ NoRepeat(before) /\ On(before, known[s])
  BY PathsInFight
<1>2. c.node \in Nodes /\ hops \in {1, 2} /\ Len(before) \in Nat \ {0} /\ Evasive(s) \in BOOLEAN
  BY <1>1 DEF IInv, TypeOK, Paths, Evasive
<1>3. CASE Len(before) - 1 >= hops
  <2>1. path = SubSeq(before, 1, Len(before) - hops) /\ Len(before) - hops \in 1 .. Len(before)
    BY <1>2, <1>3 DEF Pushbacks
  <2>2. path \in Paths /\ NoRepeat(path) /\ On(path, known[s])
    BY <1>1, <2>1, Truncated
  <2> QED BY <2>2 DEF Paths, On, Last
<1>4. CASE ~(Len(before) - 1 >= hops) /\ Len(before) = 2
  <2>1. path = <<before[1]>> /\ before[1] \in Nodes
    BY <1>1, <1>2, <1>4 DEF Pushbacks, Paths
  <2> QED BY <2>1, Single DEF On
<1>5. CASE ~(Len(before) - 1 >= hops) /\ Len(before) # 2
  <2>1. PICK n \in RandomHops(c.node, Evasive(s)) : path = <<n>>
    BY <1>2, <1>5 DEF Pushbacks
  <2>2. n \in Nodes
    BY <1>2, <2>1, HopsOnBoard
  <2> QED BY <2>1, <2>2, Single DEF On
<1> QED BY <1>3, <1>4, <1>5

-------------------------------------------------------------------------------
(* Lemmas about orders and meetings.                                         *)

\* The lesser and the greater of two numbers.
LEMMA OfTwo ==
  ASSUME NEW a \in Int, NEW b \in Int
  PROVE  /\ Min({a, b}) \in {a, b} /\ Min({a, b}) <= a /\ Min({a, b}) <= b
         /\ Max({a, b}) \in {a, b} /\ Max({a, b}) >= a /\ Max({a, b}) >= b
<1>1. \E x \in {a, b} : \A y \in {a, b} : x <= y
  BY SMT
<1>2. \E x \in {a, b} : \A y \in {a, b} : x >= y
  BY SMT
<1>3. Min({a, b}) \in {a, b} /\ \A y \in {a, b} : Min({a, b}) <= y
  BY <1>1, Zenon DEF Min
<1>4. Max({a, b}) \in {a, b} /\ \A y \in {a, b} : Max({a, b}) >= y
  BY <1>2, Zenon DEF Max
<1> QED BY <1>3, <1>4

\* A halted order is an order.
LEMMA HaltedOrder ==
  ASSUME TypeOK, NEW s \in Seats
  PROVE  Halted(s) \in Orders /\ Unspent(s) \in Nat
<1>1. order[s] \in Orders /\ step \in Nat /\ Len(order[s].route) \in Nat
  BY DEF TypeOK, Orders
<1>2. End(s) \in Nat
  BY <1>1 DEF End, Orders
<1>3. Unspent(s) \in Nat
  <2>1. End(s) - step \in Int /\ 0 \in Int
    BY <1>1, <1>2
  <2>2. Unspent(s) \in {0, End(s) - step} /\ Unspent(s) >= 0
    BY <2>1, OfTwo DEF Unspent
  <2> QED BY <2>1, <2>2
<1> DEFINE walked == Min({step, Len(order[s].route)})
<1>4. walked \in Nat /\ walked <= step /\ walked <= Len(order[s].route)
  <2>1. step \in Int /\ Len(order[s].route) \in Int
    BY <1>1
  <2>2. walked \in {step, Len(order[s].route)} /\ walked <= step /\ walked <= Len(order[s].route)
    BY <2>1, OfTwo
  <2> QED BY <1>1, <2>2
<1>5. CASE Unspent(s) = 0
  <2>1. Halted(s) = HaltMovement(s)
    BY <1>5 DEF Halted
  <2> QED BY <1>1, <1>3, <2>1 DEF Orders, HaltMovement
<1>6. CASE Unspent(s) # 0
  <2>1. SubSeq(order[s].route, 1, walked) \in Seq(Nodes)
    <3>1. order[s].route \in Seq(Nodes)
      BY <1>1 DEF Orders
    <3> HIDE DEF walked
    <3> QED BY <1>1, <1>4, <3>1
  <2>2. step - walked + Unspent(s) \in Nat
    BY <1>1, <1>3, <1>4
  <2>3. Halted(s) = [order[s] EXCEPT !.route = SubSeq(order[s].route, 1, walked),
                                     !.push = step - walked + Unspent(s), !.acts = FALSE]
    BY <1>6 DEF Halted
  <2> HIDE DEF walked
  <2> QED BY <1>1, <1>3, <2>1, <2>2, <2>3 DEF Orders
<1> QED BY <1>5, <1>6

\* Whoever meets, meets on the node it stood on or the one it stepped to.
LEMMA MeetingsWhereSeatsWere ==
  ASSUME TypeOK, NEW to \in [Seats -> Nodes], NEW c \in Merged(Crossings(to), Collisions(to))
  PROVE  /\ c \in [node : Nodes, seats : SUBSET Seats]
         /\ \A s \in c.seats : c.node \in {position[s], to[s]}
<1>1. ASSUME NEW d \in Crossings(to)
      PROVE  d \in [node : Nodes, seats : SUBSET Seats] /\ \A s \in d.seats : d.node \in {position[s], to[s]}
  <2> DEFINE Swapped(a, b) == /\ a < b /\ to[a] # position[a]
                              /\ position[b] = to[a] /\ to[b] = position[a]
             At(n) == {s \in Seats : \E a, b \in Seats :
                         Swapped(a, b) /\ s \in {a, b} /\ CrossingNode(a, b) = n}
  <2>1. PICK n \in Nodes : d = [node |-> n, seats |-> At(n)]
    BY DEF Crossings
  <2>2. \A a, b \in Seats : CrossingNode(a, b) \in {position[a], position[b]}
    <3> SUFFICES ASSUME NEW a \in Seats, NEW b \in Seats
                 PROVE  CrossingNode(a, b) \in {position[a], position[b]}
      OBVIOUS
    <3>1. position[a] \in Int /\ position[b] \in Int
      <4>1. Nodes \subseteq Int
        BY MovementAssumption
      <4>2. position[a] \in Nodes /\ position[b] \in Nodes
        BY DEF TypeOK
      <4> QED BY <4>1, <4>2
    <3>2. Min({position[a], position[b]}) \in {position[a], position[b]}
      BY <3>1, OfTwo
    <3> QED BY <3>2 DEF CrossingNode
  <2>3. ASSUME NEW s \in At(n) PROVE n \in {position[s], to[s]}
    <3>1. PICK a \in Seats, b \in Seats : Swapped(a, b) /\ s \in {a, b} /\ CrossingNode(a, b) = n
      BY <2>3
    <3> QED BY <3>1, <2>2
  <2> QED BY <2>1, <2>3
<1>2. ASSUME NEW d \in Collisions(to)
      PROVE  d \in [node : Nodes, seats : SUBSET Seats] /\ \A s \in d.seats : d.node = to[s]
  <2> DEFINE Here(n) == {s \in Seats : to[s] = n}
  <2>1. PICK n \in Nodes : d = [node |-> n, seats |-> Here(n)]
    BY DEF Collisions
  <2> QED BY <2>1
<1>3. PICK n : /\ n \in {d.node : d \in Crossings(to) \cup Collisions(to)}
               /\ c = [node |-> n, seats |-> UNION {d.seats : d \in
                         {e \in Crossings(to) \cup Collisions(to) : e.node = n}}]
  BY DEF Merged
<1>4. n \in Nodes
  BY <1>1, <1>2, <1>3
<1>5. ASSUME NEW s \in c.seats PROVE s \in Seats /\ n \in {position[s], to[s]}
  <2>1. PICK d \in Crossings(to) \cup Collisions(to) : d.node = n /\ s \in d.seats
    BY <1>3
  <2> QED BY <2>1, <1>1, <1>2
<1> QED BY <1>3, <1>4, <1>5

-------------------------------------------------------------------------------
(* The steps.                                                                *)

\* A round opens with every seat on a path of one node, which it knows.
LEMMA InitKeeps == Init => IInv
<1> SUFFICES ASSUME Init PROVE IInv
  OBVIOUS
<1>1. \A s \in Seats : /\ <<position[s]>> \in Paths /\ NoRepeat(<<position[s]>>)
                       /\ Last(<<position[s]>>) = position[s] /\ On(<<position[s]>>, {position[s]})
  BY Single DEF Init
<1>2. TypeOK
  BY <1>1 DEF Init, TypeOK, NoOrder, Paths
<1>3. PathEndsHere
  BY <1>1 DEF Init, PathEndsHere
<1>4. WalkKnown /\ FightsKnown
  BY <1>1 DEF Init, WalkKnown, FightsKnown
<1> QED BY <1>2, <1>3, <1>4 DEF IInv

\* An order only adds to what its seat knows.
LEMMA ValidateKeeps == IInv /\ Validate => IInv'
<1> SUFFICES ASSUME IInv, Validate PROVE IInv'
  OBVIOUS
<1>1. PICK s \in Undeclared : \E p \in Plans[s] : \E r \in Routes(position[s], p.steps) :
        /\ \A t \in Undeclared : s <= t
        /\ known' = [known EXCEPT ![s] = @ \cup {r[i] : i \in 1 .. p.steps - 1}]
        /\ p.push > 0 => r # <<>> /\ Last(r) \notin known'[s]
        /\ order' = [order EXCEPT ![s] = [route |-> r, push |-> p.push, acts |-> p.push = 0, stance |-> p.stance]]
        /\ goal' = [goal EXCEPT ![s] = IF r = <<>> THEN position[s] ELSE Last(r)]
  BY Zenon DEF Validate
<1>2. PICK p \in Plans[s] : \E r \in Routes(position[s], p.steps) :
        /\ order' = [order EXCEPT ![s] = [route |-> r, push |-> p.push, acts |-> p.push = 0, stance |-> p.stance]]
        /\ known' = [known EXCEPT ![s] = @ \cup {r[i] : i \in 1 .. p.steps - 1}]
  BY <1>1, Zenon
<1>3. PICK r \in Routes(position[s], p.steps) :
        /\ order' = [order EXCEPT ![s] = [route |-> r, push |-> p.push, acts |-> p.push = 0, stance |-> p.stance]]
        /\ known' = [known EXCEPT ![s] = @ \cup {r[i] : i \in 1 .. p.steps - 1}]
  BY <1>2, Zenon
<1>4. s \in Seats /\ p \in [steps : Nat, push : 0 .. 2, stance : {"aggressive", "neutral", "evasive"}]
  BY MovementAssumption DEF Undeclared
<1>5. r \in [1 .. p.steps -> Nodes] /\ r \in Seq(Nodes)
  BY <1>4 DEF Routes
<1>6. [route |-> r, push |-> p.push, acts |-> p.push = 0, stance |-> p.stance] \in Orders
  BY <1>4, <1>5 DEF Orders
<1>7. order' \in [Seats -> Orders]
  BY <1>3, <1>4, <1>6 DEF IInv, TypeOK, Orders
<1>8. known' \in [Seats -> SUBSET Nodes] /\ \A t \in Seats : known[t] \subseteq known'[t]
  BY <1>3, <1>4, <1>5 DEF IInv, TypeOK
<1>9. UNCHANGED <<phase, weather, step, position, walk, pending>>
  BY DEF Validate
<1>10. TypeOK'
  BY <1>7, <1>8, <1>9 DEF IInv, TypeOK, Orders
<1>11. PathEndsHere'
  BY <1>9 DEF IInv, PathEndsHere, NoRepeat
<1>12. WalkKnown' /\ FightsKnown'
  BY <1>8, <1>9 DEF IInv, TypeOK, WalkKnown, FightsKnown, On
<1> QED BY <1>10, <1>11, <1>12 DEF IInv

\* A step takes every path to where its seat goes, and shows it the node.
LEMMA AdvanceKeeps == IInv /\ Advance => IInv'
<1> SUFFICES ASSUME IInv, Advance PROVE IInv'
  OBVIOUS
<1>1. PICK to \in [Seats -> Nodes], stopped \in SUBSET Seats :
        /\ position' = to
        /\ order' = [s \in Seats |-> IF s \in stopped THEN HaltMovement(s) ELSE order[s]]
        /\ walk' = [s \in Seats |->
             [previous |-> position[s],
              path     |-> IF to[s] # position[s] THEN Append(walk[s].path, to[s]) ELSE walk[s].path]]
        /\ \E sixes : known' = [s \in Seats |-> IF to[s] # position[s] THEN Learns(s, to[s], s \in sixes)
                                               ELSE known[s]]
        /\ pending' = Merged(Crossings(to), Collisions(to))
  <2>1. PICK target \in [Seats -> Nodes] :
         LET stopped == {s \in Seats : GasStops(s, target[s])}
             to      == [s \in Seats |-> IF s \in stopped THEN position[s] ELSE target[s]]
             Moves(s) == to[s] # position[s]
         IN /\ position' = to
            /\ order' = [s \in Seats |-> IF s \in stopped THEN HaltMovement(s) ELSE order[s]]
            /\ walk' = [s \in Seats |->
                 [previous |-> position[s],
                  path     |-> IF Moves(s) THEN Append(walk[s].path, to[s]) ELSE walk[s].path]]
            /\ \E sixes \in SUBSET {s \in Lucky : Moves(s) /\ to[s] \notin known[s]} :
                 known' = [s \in Seats |-> IF Moves(s) THEN Learns(s, to[s], s \in sixes) ELSE known[s]]
            /\ pending' = Merged(Crossings(to), Collisions(to))
    BY DEF Advance
  <2> DEFINE stopped == {s \in Seats : GasStops(s, target[s])}
             to      == [s \in Seats |-> IF s \in stopped THEN position[s] ELSE target[s]]
  <2>2. to \in [Seats -> Nodes] /\ stopped \in SUBSET Seats
    BY DEF IInv, TypeOK
  <2>3. /\ position' = to /\ pending' = Merged(Crossings(to), Collisions(to))
        /\ order' = [s \in Seats |-> IF s \in stopped THEN HaltMovement(s) ELSE order[s]]
    BY <2>1
  <2>4. walk' = [s \in Seats |->
             [previous |-> position[s],
              path     |-> IF to[s] # position[s] THEN Append(walk[s].path, to[s]) ELSE walk[s].path]]
    BY <2>1
  <2>5. \E sixes : known' = [s \in Seats |-> IF to[s] # position[s] THEN Learns(s, to[s], s \in sixes)
                                               ELSE known[s]]
    BY <2>1
  <2> HIDE DEF to, stopped
  <2> QED BY <2>2, <2>3, <2>4, <2>5
<1>2. to \in [Seats -> Nodes]
  OBVIOUS
<1>3. ASSUME NEW s \in Seats
      PROVE  /\ walk'[s].previous = position[s]
             /\ to[s] # position[s] => walk'[s].path = Append(walk[s].path, to[s])
             /\ to[s] = position[s] => walk'[s].path = walk[s].path
             /\ walk'[s] = [previous |-> position[s], path |-> walk'[s].path]
  BY <1>1
<1>4. known' \in [Seats -> SUBSET Nodes]
  BY <1>1, <1>2 DEF IInv, TypeOK, Learns, Neighbours
<1>5. \A s \in Seats : known[s] \subseteq known'[s] /\ (to[s] # position[s] => to[s] \in known'[s])
  BY <1>1, <1>2 DEF Learns
<1>6. \A s \in Seats : position[s] \in known[s]
  BY StandsKnown DEF StandsOnKnown
<1>7. ASSUME NEW s \in Seats
      PROVE  /\ walk'[s].path \in Paths /\ NoRepeat(walk'[s].path) /\ Last(walk'[s].path) = to[s]
             /\ On(walk'[s].path, known'[s])
  <2>1. /\ walk[s].path \in Paths /\ NoRepeat(walk[s].path) /\ Last(walk[s].path) = position[s]
        /\ On(walk[s].path, known'[s])
    BY <1>5 DEF IInv, TypeOK, PathEndsHere, WalkKnown, Paths, On
  <2>2. CASE to[s] # position[s]
    <3>1. walk'[s].path = Append(walk[s].path, to[s])
      BY <1>3, <2>2
    <3>2. to[s] \in Nodes /\ to[s] # Last(walk[s].path) /\ to[s] \in known'[s]
      BY <1>2, <1>5, <2>1, <2>2
    <3>3. /\ Append(walk[s].path, to[s]) \in Paths /\ NoRepeat(Append(walk[s].path, to[s]))
          /\ Last(Append(walk[s].path, to[s])) = to[s] /\ On(Append(walk[s].path, to[s]), known'[s])
      BY <2>1, <3>2, Appended
    <3> QED BY <3>1, <3>3
  <2>3. CASE to[s] = position[s]
    <3>1. walk'[s].path = walk[s].path
      BY <1>3, <2>3
    <3> QED BY <2>1, <2>3, <3>1
  <2> QED BY <2>2, <2>3
<1>8. order' \in [Seats -> Orders]
  <2>1. ASSUME NEW s \in Seats
        PROVE  order[s] \in Orders /\ HaltMovement(s) \in Orders
    BY DEF IInv, TypeOK, Orders, HaltMovement
  <2> QED BY <1>1, <2>1
<1>9. pending' = Merged(Crossings(to), Collisions(to))
  BY <1>1
<1>10. ASSUME NEW c \in pending'
       PROVE  c \in [node : Nodes, seats : SUBSET Seats] /\ \A s \in c.seats : c.node \in {position[s], to[s]}
  BY <1>2, <1>9, MeetingsWhereSeatsWere DEF IInv
<1>11. walk' \in [Seats -> [previous : Nodes, path : Paths]]
  <2>1. ASSUME NEW s \in Seats PROVE walk'[s] \in [previous : Nodes, path : Paths]
    <3>1. walk'[s] = [previous |-> position[s], path |-> walk'[s].path]
      BY <1>3
    <3>2. position[s] \in Nodes /\ walk'[s].path \in Paths
      BY <1>7 DEF IInv, TypeOK
    <3> QED BY <3>1, <3>2
  <2> QED BY <1>1, <2>1
<1>12. TypeOK'
  <2>1. phase' \in {"validate", "move", "actions"} /\ weather' \in Weathers /\ step' \in Nat
    BY DEF IInv, TypeOK, Advance
  <2>2. pending' \subseteq [node : Nodes, seats : SUBSET Seats]
    BY <1>10
  <2> QED BY <1>1, <1>4, <1>8, <1>11, <2>1, <2>2 DEF TypeOK, Paths, Orders
<1>13. PathEndsHere'
  BY <1>1, <1>7 DEF PathEndsHere
<1>14. WalkKnown'
  <2>1. ASSUME NEW s \in Seats PROVE walk'[s].previous \in known'[s]
    BY <1>3, <1>5, <1>6
  <2> QED BY <1>7, <2>1 DEF WalkKnown
<1>15. FightsKnown'
  <2> SUFFICES ASSUME NEW c \in pending', NEW s \in c.seats PROVE c.node \in known'[s]
    BY DEF FightsKnown
  <2>1. s \in Seats /\ c.node \in {position[s], to[s]}
    BY <1>10
  <2>2. position[s] \in known'[s] /\ to[s] \in known'[s]
    BY <2>1, <1>5, <1>6
  <2> QED BY <2>1, <2>2
<1> QED BY <1>12, <1>13, <1>14, <1>15 DEF IInv

\* A tie leaves everyone in it on a path of one node, which it knows.
LEMMA TieKeeps ==
  ASSUME IInv, NEW c \in pending, Tie(c), pending' = pending \ {c}, UNCHANGED <<phase, weather, step>>
  PROVE  IInv'
<1>1. c \in [node : Nodes, seats : SUBSET Seats] /\ \A s \in c.seats : c.node \in known[s]
  BY DEF IInv, TypeOK, FightsKnown
<1>2. \A s \in c.seats : /\ position'[s] = walk[s].previous /\ walk'[s].path = <<walk[s].previous>>
                        /\ walk'[s].previous = PreviousAfter(c, s) /\ order'[s] = Halted(s)
                        /\ walk'[s] = [previous |-> PreviousAfter(c, s), path |-> <<walk[s].previous>>]
  BY <1>1 DEF Tie, TieDestination
<1>3. \A s \in Seats \ c.seats : position'[s] = position[s] /\ walk'[s] = walk[s] /\ order'[s] = order[s]
  BY DEF Tie
<1>4. known' = known
  BY DEF Tie
<1>5. \A s \in c.seats : /\ PreviousAfter(c, s) \in Nodes \cap known[s]
                        /\ walk[s].previous \in Nodes \cap known[s]
  BY <1>1 DEF PreviousAfter, IInv, TypeOK, WalkKnown
<1>6. ASSUME NEW s \in Seats
      PROVE  /\ position'[s] \in Nodes /\ order'[s] \in Orders
             /\ walk'[s] \in [previous : Nodes, path : Paths] /\ walk'[s].previous \in known[s]
             /\ NoRepeat(walk'[s].path) /\ Last(walk'[s].path) = position'[s] /\ On(walk'[s].path, known[s])
  <2>1. CASE s \in c.seats
    <3>1. /\ <<walk[s].previous>> \in Paths /\ NoRepeat(<<walk[s].previous>>)
          /\ Last(<<walk[s].previous>>) = walk[s].previous /\ On(<<walk[s].previous>>, known[s])
      BY <1>5, <2>1, Single DEF On
    <3>2. Halted(s) \in Orders
      BY HaltedOrder DEF IInv
    <3>3. /\ position'[s] = walk[s].previous /\ order'[s] = Halted(s)
          /\ walk'[s] = [previous |-> PreviousAfter(c, s), path |-> <<walk[s].previous>>]
      BY <1>2, <2>1
    <3>4. PreviousAfter(c, s) \in Nodes \cap known[s] /\ walk[s].previous \in Nodes
      BY <1>5, <2>1
    <3> QED BY <3>1, <3>2, <3>3, <3>4
  <2>2. CASE s \notin c.seats
    BY <1>3, <2>2 DEF IInv, TypeOK, PathEndsHere, WalkKnown, Paths, Orders
  <2> QED BY <2>1, <2>2
<1>7. position' \in [Seats -> Nodes] /\ order' \in [Seats -> Orders]
  BY <1>6 DEF Tie
<1>8. walk' \in [Seats -> [previous : Nodes, path : Paths]]
  BY <1>6 DEF Tie
<1>9. TypeOK'
  BY <1>4, <1>7, <1>8 DEF IInv, TypeOK, Paths, Orders
<1>10. PathEndsHere' /\ WalkKnown'
  BY <1>4, <1>6 DEF PathEndsHere, WalkKnown
<1>11. FightsKnown'
  BY <1>4 DEF IInv, FightsKnown
<1> QED BY <1>9, <1>10, <1>11 DEF IInv

\* A decided fight leaves the winner at its node and every loser on what is
\* left of its path, and shows it the node it is thrown onto.
LEMMA DecisiveKeeps ==
  ASSUME IInv, NEW c \in pending, NEW w \in c.seats, Decisive(c, w),
         pending' = pending \ {c}, UNCHANGED <<phase, weather, step>>
  PROVE  IInv'
<1>1. c \in [node : Nodes, seats : SUBSET Seats] /\ w \in Seats /\ \A s \in c.seats : c.node \in known[s]
  BY DEF IInv, TypeOK, FightsKnown
<1> DEFINE losers == c.seats \ {w}
<1>2. PICK path :
       /\ path[w] = PathInFight(c, w)
       /\ \A s \in losers : path[s] \in Pushbacks(c, s)
       /\ position' = [s \in Seats |-> IF s = w THEN c.node
                                       ELSE IF s \in losers THEN Last(path[s]) ELSE position[s]]
       /\ walk' = [s \in Seats |->
            IF s \in losers THEN [previous |-> PreviousAfter(c, s), path |-> path[s]]
            ELSE IF s = w THEN [walk[s] EXCEPT !.path = path[s]] ELSE walk[s]]
       /\ order' = [s \in Seats |-> IF s = w THEN WinnersOrder(c, s)
                                    ELSE IF s \in losers THEN Halted(s) ELSE order[s]]
       /\ known' = [s \in Seats |-> IF s \in losers THEN PushedOnto(s, path[s]) ELSE known[s]]
  BY DEF Decisive
<1>3. \A s \in losers : /\ path[s] \in Paths /\ NoRepeat(path[s]) /\ Last(path[s]) \in Nodes
                       /\ On(path[s], known[s] \cup {Last(path[s])})
  BY <1>2, PathsAfterPushback
<1>4. path[w] \in Paths /\ NoRepeat(path[w]) /\ Last(path[w]) = c.node /\ On(path[w], known[w])
  BY <1>2, PathsInFight
<1>5. \A s \in losers : PreviousAfter(c, s) \in Nodes \cap known[s]
  BY <1>1 DEF PreviousAfter, IInv, TypeOK, WalkKnown
<1>6. ASSUME NEW s \in Seats
      PROVE  /\ position'[s] \in Nodes /\ order'[s] \in Orders
             /\ known'[s] \in SUBSET Nodes /\ known[s] \subseteq known'[s]
             /\ walk'[s] \in [previous : Nodes, path : Paths] /\ walk'[s].previous \in known'[s]
             /\ NoRepeat(walk'[s].path) /\ Last(walk'[s].path) = position'[s] /\ On(walk'[s].path, known'[s])
  <2>0. known[s] \in SUBSET Nodes /\ walk[s] \in [previous : Nodes, path : Paths] /\ walk[s].previous \in known[s]
    BY DEF IInv, TypeOK, WalkKnown, Paths
  <2>1. CASE s \in losers
    <3>1. /\ position'[s] = Last(path[s]) /\ order'[s] = Halted(s) /\ known'[s] = known[s] \cup {Last(path[s])}
          /\ walk'[s] = [previous |-> PreviousAfter(c, s), path |-> path[s]]
      BY <1>2, <2>1 DEF PushedOnto
    <3> QED BY <1>3, <1>5, <2>0, <2>1, <3>1, HaltedOrder DEF IInv
  <2>2. CASE s = w
    <3>1. /\ position'[s] = c.node /\ order'[s] = WinnersOrder(c, s) /\ known'[s] = known[s]
          /\ walk'[s] = [walk[s] EXCEPT !.path = path[s]]
      BY <1>2, <2>2
    <3>2. walk'[s] = [previous |-> walk[s].previous, path |-> path[s]]
      BY <2>0, <3>1
    <3>3. order'[s] \in Orders
      BY <3>1, HaltedOrder DEF WinnersOrder, IInv, TypeOK, Orders
    <3> QED BY <1>1, <1>4, <2>0, <2>2, <3>1, <3>2, <3>3
  <2>3. CASE s \notin losers /\ s # w
    <3>1. /\ position'[s] = position[s] /\ order'[s] = order[s] /\ known'[s] = known[s] /\ walk'[s] = walk[s]
      BY <1>2, <2>3
    <3> QED BY <2>0, <3>1 DEF IInv, TypeOK, PathEndsHere, WalkKnown, Orders
  <2> QED BY <2>1, <2>2, <2>3
<1>7. position' \in [Seats -> Nodes] /\ order' \in [Seats -> Orders] /\ known' \in [Seats -> SUBSET Nodes]
  BY <1>2, <1>6
<1>8. walk' \in [Seats -> [previous : Nodes, path : Paths]]
  BY <1>2, <1>6
<1>9. TypeOK'
  BY <1>7, <1>8 DEF IInv, TypeOK, Paths, Orders
<1>10. PathEndsHere' /\ WalkKnown'
  BY <1>6 DEF PathEndsHere, WalkKnown
<1>11. FightsKnown'
  BY <1>6 DEF IInv, TypeOK, FightsKnown
<1> QED BY <1>9, <1>10, <1>11 DEF IInv

\* Every step keeps the invariant.
LEMMA StepKeeps == IInv /\ [Next]_vars => IInv'
<1> SUFFICES ASSUME IInv, [Next]_vars PROVE IInv'
  OBVIOUS
<1>1. CASE Validate
  BY <1>1, ValidateKeeps
<1>2. CASE Advance
  BY <1>2, AdvanceKeeps
<1>3. CASE Fight
  <2>1. PICK c \in pending : pending' = pending \ {c} /\ (Tie(c) \/ \E w \in c.seats : Decisive(c, w))
    BY <1>3 DEF Fight
  <2>2. UNCHANGED <<phase, weather, step>>
    BY <1>3 DEF Fight
  <2>3. CASE Tie(c)
    BY <2>1, <2>2, <2>3, TieKeeps
  <2>4. CASE \E w \in c.seats : Decisive(c, w)
    BY <2>1, <2>2, <2>4, DecisiveKeeps
  <2> QED BY <2>1, <2>3, <2>4
<1>4. CASE StartMoving
  BY <1>4 DEF StartMoving, IInv, TypeOK, PathEndsHere, NoRepeat, WalkKnown, FightsKnown, On
<1>5. CASE EndMovement
  BY <1>5 DEF EndMovement, IInv, TypeOK, PathEndsHere, NoRepeat, WalkKnown, FightsKnown, On
<1>6. CASE UNCHANGED vars
  BY <1>6 DEF vars, IInv, TypeOK, PathEndsHere, NoRepeat, WalkKnown, FightsKnown, On
<1> QED BY <1>1, <1>2, <1>3, <1>4, <1>5, <1>6 DEF Next

-------------------------------------------------------------------------------
(* The second invariant: what the order a seat is left with still promises,  *)
(* who is to meet whom, and what the history variables remember.             *)

HistoryOK ==
  /\ held \in [Seats -> Nodes] /\ fate \in [Seats -> {"none", "won", "lost", "tied"}]
  /\ twice \subseteq Seats /\ fled \in [Seats -> Nodes \cup {0}] /\ goal \in [Seats -> Nodes]

\* No step is taken and nobody meets before movement; nothing is left of a
\* plan after it.
Phases ==
  /\ phase = "validate" => step = 0 /\ pending = {} /\ \A s \in Seats : fled[s] = 0
  /\ phase = "actions" => pending = {} /\ step >= 1 /\ \A s \in Seats : End(s) <= step

\* What is left of a route leads on along edges from where the seat stands.
RoutesAhead ==
  \A s \in Seats : \A i \in 1 .. Len(order[s].route) : i > step =>
    order[s].route[i] \in Neighbours(IF i = step + 1 THEN position[s] ELSE order[s].route[i - 1])

\* Who still acts takes no blind step and is on its way to its goal, or there.
Bound(s) ==
  /\ order[s].push = 0
  /\ Len(order[s].route) <= step => position[s] = goal[s]
  /\ Len(order[s].route) > step => goal[s] = order[s].route[Len(order[s].route)]

ActsAhead == \A s \in Seats : order[s].acts => Bound(s)

\* A fight for each node at most; whoever stands on its node and has not fallen
\* back this step is in it; and no two such seats share a node without one.
Stayed(s) == fate[s] \notin {"lost", "tied"}

Meetings ==
  /\ \A c, d \in pending : c.node = d.node => c = d
  /\ \A c \in pending : \A t \in Seats : Stayed(t) /\ position[t] = c.node => t \in c.seats
  /\ step >= 1 => \A s, t \in Seats : s # t /\ position[s] = position[t] /\ Stayed(s) /\ Stayed(t) =>
       \E c \in pending : c.node = position[s]

\* Until its first fight of the step, a seat's walk records that step, and its
\* fights are at one of its two ends.
StepTaken ==
  \A s \in Seats : fate[s] = "none" =>
    /\ walk[s].previous = held[s]
    /\ \A c \in pending : s \in c.seats => c.node \in {held[s], position[s]}
    /\ position[s] # held[s] =>
         Len(walk[s].path) >= 2 /\ walk[s].path[Len(walk[s].path) - 1] = held[s]

\* A path of a seat that never fought twice in one step follows edges.
Connected(path) == \A i \in 1 .. Len(path) - 1 : path[i] \in Neighbours(path[i + 1])

WalksConnected == \A s \in Seats \ twice : Connected(walk[s].path)

\* What a seat that was thrown out remembers, unless it cannot walk any more.
WayBack ==
  \A s \in Seats : fled[s] # 0 =>
    /\ Len(order[s].route) <= step
    /\ walk[s].previous = fled[s] \/ Open(position[s]) = {} \/ End(s) <= step

Ahead == /\ HistoryOK /\ Phases /\ RoutesAhead /\ ActsAhead
         /\ Meetings /\ StepTaken /\ WalksConnected /\ WayBack

-------------------------------------------------------------------------------
(* Lemmas about sets of numbers and about edges.                             *)

\* Among sets of members of a finite set, one contains no other.
LEMMA HasMinimal ==
  ASSUME NEW S, IsFiniteSet(S), NEW T, T \subseteq SUBSET S, T # {}
  PROVE  \E x \in T : \A y \in T : ~(<<y, x>> \in StrictSubsetOrdering(S))
<1>1. IsWellFoundedOn(StrictSubsetOrdering(S), FiniteSubsetsOf(S))
  BY FS_StrictSubsetOrderingWellFounded
<1>2. T \subseteq FiniteSubsetsOf(S)
  BY FS_Subset DEF FiniteSubsetsOf
<1> QED BY <1>1, <1>2, WFMin

\* A non-empty finite set of numbers has a greatest member.
LEMMA HasGreatest ==
  ASSUME NEW S \in SUBSET Nat, S # {}, IsFiniteSet(S)
  PROVE  Max(S) \in S /\ \A c \in S : Max(S) >= c
<1> DEFINE Above(b) == {c \in S : c > b}
           Aboves   == {Above(b) : b \in S}
<1>1. Aboves \subseteq SUBSET S /\ Aboves # {}
  OBVIOUS
<1>2. PICK T \in Aboves : \A U \in Aboves : ~(<<U, T>> \in StrictSubsetOrdering(S))
  <2> HIDE DEF Aboves
  <2> QED BY <1>1, HasMinimal
<1>3. PICK b \in S : T = Above(b)
  OBVIOUS
<1>4. ASSUME NEW c \in S, c > b
      PROVE  FALSE
  <2>1. c \in Nat /\ b \in Nat /\ ~(c > c)
    OBVIOUS
  <2>2. ASSUME NEW d \in S, d > c
        PROVE  d > b
    <3>1. d \in Nat
      OBVIOUS
    <3> QED BY <1>4, <2>1, <2>2, <3>1
  <2>3. Above(c) \subseteq Above(b) /\ c \in Above(b) /\ c \notin Above(c)
    BY <1>4, <2>1, <2>2
  <2>4. Above(c) \in Aboves /\ Above(c) # Above(b) /\ Above(c) \in SUBSET S /\ Above(b) \in SUBSET S
    BY <2>3
  <2>5. <<Above(c), Above(b)>> \in StrictSubsetOrdering(S)
    <3> HIDE DEF Above
    <3> QED BY <2>3, <2>4 DEF StrictSubsetOrdering
  <2> QED BY <1>2, <1>3, <2>4, <2>5
<1>5. \A c \in S : b >= c
  <2>1. ASSUME NEW c \in S PROVE b >= c
    <3>1. c \in Nat /\ b \in Nat
      OBVIOUS
    <3> QED BY <1>4, <3>1
  <2> QED BY <2>1
<1>6. \E x \in S : \A y \in S : x >= y
  BY <1>5
<1> QED BY <1>6, Zenon DEF Max

\* A finite set with two different members has at least two.
LEMMA TwoOf ==
  ASSUME NEW S, IsFiniteSet(S), NEW x \in S, NEW y \in S, x # y
  PROVE  Cardinality(S) >= 2
<1>1. Cardinality(S) \in Nat
  BY FS_CardinalityType
<1>2. Cardinality(S) # 0
  BY FS_EmptySet
<1>3. Cardinality(S) # 1
  <2> SUFFICES ASSUME Cardinality(S) = 1 PROVE FALSE
    OBVIOUS
  <2>1. PICK z : S = {z}
    BY FS_Singleton
  <2> QED BY <2>1
<1> QED BY <1>1, <1>2, <1>3

\* The seats are finitely many.
LEMMA SeatsFinite == IsFiniteSet(Seats)
<1>1. 0 \in Int /\ NumSeats - 1 \in Int
  BY MovementAssumption
<1> QED BY <1>1, FS_Interval DEF Seats

\* The loop runs for at least one step, and for as long as the longest plan.
LEMMA StepsEnough ==
  ASSUME TypeOK
  PROVE  MovementSteps \in Nat /\ MovementSteps >= 1 /\ \A s \in Seats : End(s) <= MovementSteps
<1> DEFINE ends == {End(s) : s \in Seats}
           end  == [s \in Seats |-> End(s)]
<1>1. \A s \in Seats : End(s) \in Nat
  <2>1. ASSUME NEW s \in Seats PROVE End(s) \in Nat
    <3>1. order[s].route \in Seq(Nodes) /\ order[s].push \in Nat
      BY DEF TypeOK
    <3>2. Len(order[s].route) \in Nat
      BY <3>1
    <3> QED BY <3>1, <3>2 DEF End
  <2> QED BY <2>1
<1>2. end \in Surjection(Seats, ends)
  BY DEF Surjection
<1>3. IsFiniteSet(ends)
  <2> HIDE DEF end, ends
  <2> QED BY <1>2, SeatsFinite, FS_Surjection
<1>4. IsFiniteSet({1} \cup ends) /\ {1} \cup ends \in SUBSET Nat /\ {1} \cup ends # {}
  <2>1. ends \in SUBSET Nat
    BY <1>1
  <2>2. IsFiniteSet({1})
    BY FS_Singleton
  <2> HIDE DEF ends
  <2>3. IsFiniteSet({1} \cup ends)
    BY <1>3, <2>2, FS_Union
  <2> QED BY <2>1, <2>3
<1>5. Max({1} \cup ends) \in {1} \cup ends /\ \A c \in {1} \cup ends : Max({1} \cup ends) >= c
  <2> HIDE DEF ends
  <2> QED BY <1>4, HasGreatest
<1>6. MovementSteps = Max({1} \cup ends)
  BY DEF MovementSteps
<1>7. MovementSteps \in Nat
  <2> HIDE DEF ends
  <2> QED BY <1>4, <1>5, <1>6
<1>8. \A s \in Seats : End(s) \in {1} \cup ends
  OBVIOUS
<1>9. 1 \in {1} \cup ends
  OBVIOUS
<1> HIDE DEF ends
<1> QED BY <1>1, <1>5, <1>6, <1>7, <1>8, <1>9

\* Edges lead both ways, and to another node.
LEMMA EdgesBothWays ==
  ASSUME NEW n \in Nodes, NEW m \in Neighbours(n)
  PROVE  m \in Nodes /\ n \in Neighbours(m) /\ m # n
<1>1. m \in Nodes /\ {m, n} \in Edges /\ {m, n} = {n, m}
  BY DEF Neighbours
<1>2. n \in Neighbours(m)
  BY <1>1 DEF Neighbours
<1>3. m # n
  <2> SUFFICES ASSUME m = n PROVE FALSE
    OBVIOUS
  <2>1. {m, n} = {n} /\ Cardinality({m, n}) = 2
    BY <1>1, MovementAssumption
  <2> QED BY <2>1, FS_Singleton
<1> QED BY <1>1, <1>2, <1>3

-------------------------------------------------------------------------------
(* What the steps do to each seat.                                           *)

\* A halt drops the action and what is left of the route, and moves the end of
\* the plan only when it has come.
LEMMA HaltedAhead ==
  ASSUME TypeOK, NEW s \in Seats
  PROVE  /\ ~Halted(s).acts /\ Len(Halted(s).route) <= step
         /\ Unspent(s) = 0 => End(s) <= step /\ Len(Halted(s).route) + Halted(s).push = 0
         /\ Unspent(s) # 0 => /\ Unspent(s) > 0 /\ End(s) > step
                              /\ Len(Halted(s).route) + Halted(s).push = End(s)
<1>1. order[s] \in Orders /\ step \in Nat /\ Len(order[s].route) \in Nat /\ order[s].route \in Seq(Nodes)
  BY DEF TypeOK, Orders
<1>2. End(s) \in Nat
  BY <1>1 DEF End, Orders
<1>3. Unspent(s) \in {0, End(s) - step} /\ Unspent(s) >= 0 /\ Unspent(s) >= End(s) - step
  <2>1. End(s) - step \in Int /\ 0 \in Int
    BY <1>1, <1>2
  <2> QED BY <2>1, OfTwo DEF Unspent
<1> DEFINE walked == Min({step, Len(order[s].route)})
<1>4. walked \in Nat /\ walked <= step /\ walked <= Len(order[s].route)
  <2>1. step \in Int /\ Len(order[s].route) \in Int
    BY <1>1
  <2>2. walked \in {step, Len(order[s].route)} /\ walked <= step /\ walked <= Len(order[s].route)
    BY <2>1, OfTwo
  <2> QED BY <1>1, <2>2
<1>5. CASE Unspent(s) = 0
  <2>1. Halted(s) = [route |-> <<>>, push |-> 0, acts |-> FALSE, stance |-> order[s].stance]
    BY <1>5 DEF Halted, HaltMovement
  <2>2. ~Halted(s).acts /\ Halted(s).route = <<>> /\ Halted(s).push = 0
    BY <2>1
  <2>3. End(s) <= step
    BY <1>1, <1>2, <1>3, <1>5
  <2> QED BY <1>1, <1>5, <2>2, <2>3
<1>6. CASE Unspent(s) # 0
  <2>1. Halted(s) = [order[s] EXCEPT !.route = SubSeq(order[s].route, 1, walked),
                                     !.push = step - walked + Unspent(s), !.acts = FALSE]
    BY <1>6 DEF Halted
  <2>2. SubSeq(order[s].route, 1, walked) \in Seq(Nodes) /\ Len(SubSeq(order[s].route, 1, walked)) = walked
    <3> HIDE DEF walked
    <3> QED BY <1>1, <1>4
  <2> HIDE DEF walked
  <2>3. /\ Halted(s).route = SubSeq(order[s].route, 1, walked)
        /\ Halted(s).push = step - walked + Unspent(s) /\ ~Halted(s).acts
    BY <1>1, <2>1 DEF Orders
  <2>4. Unspent(s) = End(s) - step /\ Unspent(s) > 0 /\ End(s) > step
    BY <1>1, <1>2, <1>3, <1>6
  <2>5. Len(Halted(s).route) = walked
    BY <2>2, <2>3
  <2>6. walked + (step - walked + Unspent(s)) = End(s)
    BY <1>1, <1>2, <1>4, <2>4
  <2> QED BY <1>4, <1>6, <2>3, <2>4, <2>5, <2>6
<1> QED BY <1>5, <1>6

\* Where an order may take its seat at the loop's next step.
LEMMA TargetsAhead ==
  ASSUME TypeOK, NEW s \in Seats, NEW n \in Targets(s, step + 1)
  PROVE  /\ step + 1 <= Len(order[s].route) => n = order[s].route[step + 1]
         /\ step + 1 > Len(order[s].route) /\ step + 1 <= End(s) =>
              \/ n \in PushOnCandidates(position[s], walk[s].previous)
              \/ n = position[s] /\ Open(position[s]) = {}
         /\ step + 1 > Len(order[s].route) /\ step + 1 > End(s) => n = position[s]
<1>1. step \in Nat /\ Len(order[s].route) \in Nat /\ order[s].push \in Nat
  BY DEF TypeOK
<1>2. End(s) = Len(order[s].route) + order[s].push
  BY DEF End
<1>3. CASE step + 1 <= Len(order[s].route)
  BY <1>1, <1>3 DEF Targets
<1>4. CASE step + 1 > Len(order[s].route) /\ step + 1 <= End(s)
  <2> DEFINE ways == PushOnCandidates(position[s], walk[s].previous)
  <2>1. Targets(s, step + 1) = IF ways = {} THEN {position[s]} ELSE ways
    BY <1>1, <1>2, <1>4 DEF Targets
  <2>2. ways = {} => Open(position[s]) = {}
    BY DEF PushOnCandidates
  <2>3. n \in ways \/ (n = position[s] /\ ways = {})
    <3> HIDE DEF ways
    <3> QED BY <2>1
  <2> QED BY <1>1, <1>2, <1>4, <2>2, <2>3
<1>5. CASE step + 1 > Len(order[s].route) /\ step + 1 > End(s)
  BY <1>1, <1>2, <1>5 DEF Targets
<1> QED BY <1>1, <1>2, <1>3, <1>4, <1>5 DEF End

\* A step takes a seat where its order says, or the gas keeps it and its order is gone.
LEMMA SeatAdvances ==
  ASSUME IInv, Ahead, Advance
  PROVE  /\ position' \in [Seats -> Nodes] /\ phase = "move" /\ pending = {} /\ step' = step + 1
         /\ held' = position /\ fate' = [s \in Seats |-> "none"]
         /\ UNCHANGED <<phase, weather, twice, goal>>
         /\ pending' = Merged(Crossings(position'), Collisions(position'))
         /\ \A s \in Seats :
              /\ \/ order'[s] = order[s] /\ position'[s] \in Targets(s, step + 1)
                 \/ order'[s] = HaltMovement(s) /\ position'[s] = position[s] /\ weather.gas # {}
              /\ walk'[s].previous = position[s]
              /\ position'[s] # position[s] => /\ walk'[s].path = Append(walk[s].path, position'[s])
                                               /\ fled'[s] = 0
              /\ position'[s] = position[s] => walk'[s].path = walk[s].path /\ fled'[s] = fled[s]
         /\ fled' \in [Seats -> Nodes \cup {0}]
<1>1. PICK target \in [Seats -> Nodes] :
       LET stopped == {s \in Seats : GasStops(s, target[s])}
           to      == [s \in Seats |-> IF s \in stopped THEN position[s] ELSE target[s]]
           Moves(s) == to[s] # position[s]
       IN /\ \A s \in Seats : target[s] \in Targets(s, step + 1)
          /\ position' = to
          /\ order' = [s \in Seats |-> IF s \in stopped THEN HaltMovement(s) ELSE order[s]]
          /\ walk' = [s \in Seats |->
               [previous |-> position[s],
                path     |-> IF Moves(s) THEN Append(walk[s].path, to[s]) ELSE walk[s].path]]
          /\ pending' = Merged(Crossings(to), Collisions(to))
          /\ fled' = [s \in Seats |-> IF Moves(s) THEN 0 ELSE fled[s]]
  BY DEF Advance
<1> DEFINE stopped == {s \in Seats : GasStops(s, target[s])}
           to      == [s \in Seats |-> IF s \in stopped THEN position[s] ELSE target[s]]
<1>2. /\ \A s \in Seats : target[s] \in Targets(s, step + 1)
      /\ position' = to
      /\ order' = [s \in Seats |-> IF s \in stopped THEN HaltMovement(s) ELSE order[s]]
      /\ pending' = Merged(Crossings(to), Collisions(to))
  BY <1>1
<1>3. /\ walk' = [s \in Seats |->
               [previous |-> position[s],
                path     |-> IF to[s] # position[s] THEN Append(walk[s].path, to[s]) ELSE walk[s].path]]
      /\ fled' = [s \in Seats |-> IF to[s] # position[s] THEN 0 ELSE fled[s]]
  BY <1>1
<1>4. to \in [Seats -> Nodes]
  BY DEF IInv, TypeOK
<1>5. \A s \in Seats : /\ s \in stopped => to[s] = position[s] /\ weather.gas # {}
                       /\ s \notin stopped => to[s] = target[s]
  BY DEF GasStops
<1> HIDE DEF to, stopped
<1>6. ASSUME NEW s \in Seats
      PROVE  /\ \/ order'[s] = order[s] /\ position'[s] \in Targets(s, step + 1)
                \/ order'[s] = HaltMovement(s) /\ position'[s] = position[s] /\ weather.gas # {}
             /\ walk'[s].previous = position[s]
             /\ position'[s] # position[s] => /\ walk'[s].path = Append(walk[s].path, position'[s])
                                              /\ fled'[s] = 0
             /\ position'[s] = position[s] => walk'[s].path = walk[s].path /\ fled'[s] = fled[s]
  BY <1>2, <1>3, <1>5
<1>7. fled' \in [Seats -> Nodes \cup {0}]
  BY <1>3 DEF Ahead, HistoryOK
<1>8. /\ phase = "move" /\ pending = {} /\ step' = step + 1
      /\ held' = position /\ fate' = [s \in Seats |-> "none"]
      /\ UNCHANGED <<phase, weather, twice, goal>>
  BY DEF Advance
<1> QED BY <1>2, <1>4, <1>6, <1>7, <1>8

\* A seat that loses or ties falls back with a halted order.
Beaten(c, s) ==
  /\ fate'[s] \in {"tied", "lost"} /\ order'[s] = Halted(s) /\ walk'[s].previous = PreviousAfter(c, s)
  /\ fled'[s] = IF Unspent(s) > 0 THEN c.node ELSE 0
  /\ fate'[s] = "tied" => position'[s] = walk[s].previous /\ walk'[s].path = <<position'[s]>>
  /\ fate'[s] = "lost" => walk'[s].path \in Pushbacks(c, s) /\ position'[s] = Last(walk'[s].path)

\* A seat that wins stands at the fight.
Prevailed(c, s) ==
  /\ fate'[s] = "won" /\ order'[s] = WinnersOrder(c, s) /\ walk'[s].previous = walk[s].previous
  /\ fled'[s] = 0 /\ position'[s] = c.node /\ walk'[s].path = PathInFight(c, s)

\* A seat that is not in the fight stays as it was.
Spared(s) ==
  /\ fate'[s] = fate[s] /\ order'[s] = order[s] /\ walk'[s] = walk[s]
  /\ fled'[s] = fled[s] /\ position'[s] = position[s]

\* A fight is over for those in it, one of whom may have won, and changes
\* nothing for the others.
LEMMA SeatFights ==
  ASSUME IInv, Ahead, Fight
  PROVE  /\ phase = "move" /\ UNCHANGED <<phase, weather, step, held, goal>>
         /\ fate' \in [Seats -> {"none", "won", "lost", "tied"}] /\ fled' \in [Seats -> Nodes \cup {0}]
         /\ \E c \in pending :
              /\ NextFight(c) /\ pending' = pending \ {c}
              /\ twice' = twice \cup {s \in c.seats : fate[s] # "none"}
              /\ \A s \in c.seats : Beaten(c, s) \/ Prevailed(c, s)
              /\ \A s, t \in c.seats : Prevailed(c, s) /\ Prevailed(c, t) => s = t
              /\ \A s \in Seats \ c.seats : Spared(s)
<1>1. PICK c \in pending : /\ NextFight(c) /\ pending' = pending \ {c}
                           /\ Tie(c) \/ \E w \in c.seats : Decisive(c, w)
  BY DEF Fight
<1>2. phase = "move" /\ UNCHANGED <<phase, weather, step>>
  BY DEF Fight
<1>3. c.seats \subseteq Seats
  BY DEF IInv, TypeOK
<1>4. CASE Tie(c)
  <2>1. /\ position' = [s \in Seats |-> IF s \in c.seats THEN walk[s].previous ELSE position[s]]
        /\ walk' = [s \in Seats |-> IF s \in c.seats
                                    THEN [previous |-> PreviousAfter(c, s), path |-> <<walk[s].previous>>]
                                    ELSE walk[s]]
        /\ order' = [s \in Seats |-> IF s \in c.seats THEN Halted(s) ELSE order[s]]
    BY <1>3, <1>4 DEF Tie, TieDestination
  <2>2. /\ fate' = [s \in Seats |-> IF s \in c.seats THEN "tied" ELSE fate[s]]
        /\ twice' = twice \cup {s \in c.seats : fate[s] # "none"}
        /\ fled' = [s \in Seats |-> IF s \notin c.seats THEN fled[s]
                                    ELSE IF Unspent(s) > 0 THEN c.node ELSE 0]
        /\ UNCHANGED <<held, goal>>
    BY <1>3, <1>4 DEF Tie, Remember
  <2>3. \A s \in c.seats : Beaten(c, s)
    BY <1>3, <2>1, <2>2 DEF Beaten
  <2>4. \A s \in Seats \ c.seats : Spared(s)
    BY <2>1, <2>2 DEF Spared
  <2>5. fate' \in [Seats -> {"none", "won", "lost", "tied"}] /\ fled' \in [Seats -> Nodes \cup {0}]
    BY <2>2 DEF IInv, TypeOK, Ahead, HistoryOK
  <2>6. \A s \in c.seats : ~Prevailed(c, s)
    BY <1>3, <2>2 DEF Prevailed
  <2> QED BY <1>1, <1>2, <2>2, <2>3, <2>4, <2>5, <2>6
<1>5. CASE \E w \in c.seats : Decisive(c, w)
  <2>1. PICK w \in c.seats : Decisive(c, w)
    BY <1>5
  <2> DEFINE losers == c.seats \ {w}
  <2>2. PICK path :
       /\ path[w] = PathInFight(c, w)
       /\ \A s \in losers : path[s] \in Pushbacks(c, s)
       /\ position' = [s \in Seats |-> IF s = w THEN c.node
                                       ELSE IF s \in losers THEN Last(path[s]) ELSE position[s]]
       /\ walk' = [s \in Seats |->
            IF s \in losers THEN [previous |-> PreviousAfter(c, s), path |-> path[s]]
            ELSE IF s = w THEN [walk[s] EXCEPT !.path = path[s]] ELSE walk[s]]
       /\ order' = [s \in Seats |-> IF s = w THEN WinnersOrder(c, s)
                                    ELSE IF s \in losers THEN Halted(s) ELSE order[s]]
       /\ Remember(c, [s \in c.seats |-> IF s = w THEN "won" ELSE "lost"])
    BY <2>1 DEF Decisive
  <2>3. /\ fate' = [s \in Seats |-> IF s \in c.seats THEN (IF s = w THEN "won" ELSE "lost") ELSE fate[s]]
        /\ twice' = twice \cup {s \in c.seats : fate[s] # "none"}
        /\ fled' = [s \in Seats |-> IF s \notin c.seats THEN fled[s]
                                    ELSE IF s # w /\ Unspent(s) > 0 THEN c.node ELSE 0]
        /\ UNCHANGED <<held, goal>>
    BY <1>3, <2>2 DEF Remember
  <2>4. \A s \in losers : Beaten(c, s)
    BY <1>3, <2>2, <2>3 DEF Beaten
  <2>5. Prevailed(c, w)
    <3>1. walk[w] \in [previous : Nodes, path : Paths] /\ w \in Seats
      BY <1>3 DEF IInv, TypeOK, Paths
    <3>2. walk'[w] = [previous |-> walk[w].previous, path |-> PathInFight(c, w)]
      BY <2>2, <3>1
    <3> QED BY <2>2, <2>3, <3>1, <3>2 DEF Prevailed
  <2>6. \A s \in Seats \ c.seats : Spared(s)
    BY <2>2, <2>3 DEF Spared
  <2>7. \A s \in c.seats : s \in losers \/ s = w
    OBVIOUS
  <2>8. fate' \in [Seats -> {"none", "won", "lost", "tied"}] /\ fled' \in [Seats -> Nodes \cup {0}]
    BY <2>3 DEF IInv, TypeOK, Ahead, HistoryOK
  <2>9. \A s \in losers : ~Prevailed(c, s)
    BY <1>3, <2>3 DEF Prevailed
  <2> QED BY <1>1, <1>2, <2>3, <2>4, <2>5, <2>6, <2>7, <2>8, <2>9
<1> QED BY <1>1, <1>4, <1>5

\* After a step there is one fight for each node, with everyone who stands
\* there, and one wherever two stand.
LEMMA EveryMeeting ==
  ASSUME TypeOK, NEW to \in [Seats -> Nodes]
  PROVE  LET fights == Merged(Crossings(to), Collisions(to))
         IN /\ \A c, d \in fights : c.node = d.node => c = d
            /\ \A c \in fights : \A t \in Seats : to[t] = c.node => t \in c.seats
            /\ \A s, t \in Seats : s # t /\ to[s] = to[t] => \E c \in fights : c.node = to[s]
<1> DEFINE Here(n) == {s \in Seats : to[s] = n}
           all     == Crossings(to) \cup Collisions(to)
           fights  == Merged(Crossings(to), Collisions(to))
<1>1. fights = {[node |-> n, seats |-> UNION {d.seats : d \in {e \in all : e.node = n}}] : n \in {e.node : e \in all}}
  BY DEF Merged
<1>2. ASSUME NEW s \in Seats, NEW t \in Seats, s # t, to[s] = to[t]
      PROVE  [node |-> to[s], seats |-> Here(to[s])] \in all
  <2>1. IsFiniteSet(Here(to[s])) /\ s \in Here(to[s]) /\ t \in Here(to[s])
    BY <1>2, SeatsFinite, FS_Subset
  <2>2. Cardinality(Here(to[s])) >= 2
    <3> HIDE DEF Here
    <3> QED BY <1>2, <2>1, TwoOf
  <2>3. [node |-> to[s], seats |-> Here(to[s])] \in Collisions(to)
    BY <2>2 DEF Collisions
  <2> QED BY <2>3
<1>3. ASSUME NEW c \in fights, NEW t \in Seats, to[t] = c.node
      PROVE  t \in c.seats
  <2>1. PICK e \in all : /\ c.node = e.node
                         /\ c.seats = UNION {d.seats : d \in {f \in all : f.node = e.node}}
    <3> HIDE DEF all, fights
    <3>1. PICK n \in {e.node : e \in all} :
            c = [node |-> n, seats |-> UNION {d.seats : d \in {f \in all : f.node = n}}]
      BY <1>1
    <3> QED BY <3>1
  <2>2. \A d \in all : d.node = c.node => d.seats \subseteq c.seats
    BY <2>1
  <2>3. ASSUME NEW s \in Seats, s # t, to[s] = c.node
        PROVE  t \in c.seats
    <3>1. [node |-> to[t], seats |-> Here(to[t])] \in all
      BY <1>2, <1>3, <2>3
    <3>2. Here(to[t]) \subseteq c.seats
      <4> HIDE DEF all, Here
      <4> QED BY <1>3, <2>2, <3>1
    <3> QED BY <3>2
  <2>4. CASE e \in Collisions(to)
    <3>1. PICK n \in Nodes : e = [node |-> n, seats |-> Here(n)]
      BY <2>4 DEF Collisions
    <3>2. t \in e.seats
      BY <1>3, <2>1, <3>1
    <3>3. e.seats \subseteq c.seats
      <4> HIDE DEF all
      <4> QED BY <2>1, <2>2
    <3> QED BY <3>2, <3>3
  <2>5. CASE e \in Crossings(to)
    <3> DEFINE Swapped(a, b) == /\ a < b /\ to[a] # position[a]
                                /\ position[b] = to[a] /\ to[b] = position[a]
               At(n) == {s \in Seats : \E a, b \in Seats :
                           Swapped(a, b) /\ s \in {a, b} /\ CrossingNode(a, b) = n}
    <3>1. e.seats = At(e.node) /\ At(e.node) # {}
      BY <2>5 DEF Crossings
    <3>2. PICK a \in Seats, b \in Seats : Swapped(a, b) /\ CrossingNode(a, b) = c.node
      BY <2>1, <3>1
    <3>3. CrossingNode(a, b) \in {position[a], position[b]}
      <4>1. Nodes \subseteq Int
        BY MovementAssumption
      <4>2. position[a] \in Int /\ position[b] \in Int
        BY <4>1 DEF TypeOK
      <4>3. Min({position[a], position[b]}) \in {position[a], position[b]}
        BY <4>2, OfTwo
      <4> QED BY <4>3 DEF CrossingNode
    <3>4. PICK s \in {a, b} : to[s] = c.node
      BY <3>2, <3>3
    <3>5. CASE t = s
      <4>1. t \in At(c.node)
        BY <3>2, <3>4, <3>5
      <4> QED BY <2>1, <2>2, <3>1, <4>1
    <3>6. CASE t # s
      BY <2>3, <3>4, <3>6
    <3> QED BY <3>5, <3>6
  <2> QED BY <2>4, <2>5
<1>4. ASSUME NEW s \in Seats, NEW t \in Seats, s # t, to[s] = to[t]
      PROVE  \E c \in fights : c.node = to[s]
  <2>1. [node |-> to[s], seats |-> Here(to[s])] \in all
    BY <1>2, <1>4
  <2>2. to[s] \in {e.node : e \in all}
    <3> HIDE DEF all
    <3> QED BY <2>1
  <2>3. [node |-> to[s], seats |-> UNION {d.seats : d \in {e \in all : e.node = to[s]}}] \in fights
    <3> HIDE DEF all, fights
    <3> QED BY <1>1, <2>2
  <2> HIDE DEF all, fights
  <2> QED BY <2>3
<1>5. \A c, d \in fights : c.node = d.node => c = d
  <2> DEFINE At(n) == UNION {d.seats : d \in {e \in all : e.node = n}}
  <2>1. ASSUME NEW c \in fights PROVE c = [node |-> c.node, seats |-> At(c.node)]
    <3>1. PICK n \in {e.node : e \in all} : c = [node |-> n, seats |-> At(n)]
      <4> HIDE DEF all, fights
      <4> QED BY <1>1
    <3> HIDE DEF At
    <3> QED BY <3>1
  <2> HIDE DEF At, fights
  <2> QED BY <2>1
<1> HIDE DEF fights
<1>6. /\ \A c, d \in fights : c.node = d.node => c = d
      /\ \A c \in fights : \A t \in Seats : to[t] = c.node => t \in c.seats
      /\ \A s, t \in Seats : s # t /\ to[s] = to[t] => \E c \in fights : c.node = to[s]
  BY <1>3, <1>4, <1>5
<1> QED BY <1>6 DEF fights

-------------------------------------------------------------------------------
(* The steps keep the second invariant.                                      *)

\* A round opens with nothing promised.
LEMMA AheadInit == Init => Ahead
<1> SUFFICES ASSUME Init PROVE Ahead
  OBVIOUS
<1>1. \A s \in Seats : order[s].route = <<>> /\ ~order[s].acts
  BY DEF Init, NoOrder
<1>2. \A s \in Seats : walk[s].previous = position[s] /\ walk[s].path = <<position[s]>>
  BY DEF Init
<1>3. HistoryOK /\ Phases
  BY DEF Init, HistoryOK, Phases
<1>4. RoutesAhead /\ ActsAhead /\ WayBack
  BY <1>1 DEF Init, RoutesAhead, ActsAhead, WayBack
<1>5. Meetings /\ StepTaken
  BY <1>2 DEF Init, Meetings, StepTaken
<1>6. WalksConnected
  <2>1. \A n : Connected(<<n>>)
    BY DEF Connected
  <2> QED BY <1>2, <2>1 DEF WalksConnected
<1> QED BY <1>3, <1>4, <1>5, <1>6 DEF Ahead

\* A validated order leads on from where its seat stands, to its goal.
LEMMA AheadValidate == IInv /\ Ahead /\ Validate => Ahead'
<1> SUFFICES ASSUME IInv, Ahead, Validate PROVE Ahead'
  OBVIOUS
<1>1. PICK s \in Undeclared : \E p \in Plans[s] : \E r \in Routes(position[s], p.steps) :
        /\ order' = [order EXCEPT ![s] = [route |-> r, push |-> p.push, acts |-> p.push = 0, stance |-> p.stance]]
        /\ goal' = [goal EXCEPT ![s] = IF r = <<>> THEN position[s] ELSE Last(r)]
  BY Zenon DEF Validate
<1>2. PICK p \in Plans[s] : \E r \in Routes(position[s], p.steps) :
        /\ order' = [order EXCEPT ![s] = [route |-> r, push |-> p.push, acts |-> p.push = 0, stance |-> p.stance]]
        /\ goal' = [goal EXCEPT ![s] = IF r = <<>> THEN position[s] ELSE Last(r)]
  BY <1>1, Zenon
<1>3. PICK r \in Routes(position[s], p.steps) :
        /\ order' = [order EXCEPT ![s] = [route |-> r, push |-> p.push, acts |-> p.push = 0, stance |-> p.stance]]
        /\ goal' = [goal EXCEPT ![s] = IF r = <<>> THEN position[s] ELSE Last(r)]
  BY <1>2, Zenon
<1>4. s \in Seats /\ p.steps \in Nat /\ p.push \in Nat
  BY MovementAssumption DEF Undeclared
<1>5. r \in Seq(Nodes) /\ Len(r) = p.steps
      /\ \A i \in 1 .. Len(r) : r[i] \in Neighbours(IF i = 1 THEN position[s] ELSE r[i - 1])
  BY <1>4 DEF Routes
<1>6. step = 0 /\ pending = {} /\ (\A t \in Seats : fled[t] = 0) /\ phase = "validate"
  BY DEF Validate, Ahead, Phases
<1>7. UNCHANGED <<phase, weather, step, position, walk, pending, held, fate, twice, fled>>
  BY DEF Validate
<1>8. /\ order'[s] = [route |-> r, push |-> p.push, acts |-> p.push = 0, stance |-> p.stance]
      /\ goal'[s] = IF r = <<>> THEN position[s] ELSE Last(r)
      /\ \A t \in Seats \ {s} : order'[t] = order[t] /\ goal'[t] = goal[t]
  BY <1>3, <1>4 DEF IInv, TypeOK, Ahead, HistoryOK
<1>9. goal'[s] \in Nodes
  <2>1. r # <<>> => Last(r) \in Nodes
    BY <1>5 DEF Last
  <2> QED BY <1>4, <1>8, <2>1 DEF IInv, TypeOK
<1>10. HistoryOK'
  BY <1>3, <1>7, <1>9 DEF Ahead, HistoryOK
<1>11. Phases'
  BY <1>6, <1>7 DEF Phases
<1>12. RoutesAhead'
  <2> SUFFICES ASSUME NEW t \in Seats, NEW i \in 1 .. Len(order'[t].route), i > step'
               PROVE  order'[t].route[i] \in
                        Neighbours(IF i = step' + 1 THEN position'[t] ELSE order'[t].route[i - 1])
    BY DEF RoutesAhead, Neighbours
  <2>1. CASE t = s
    BY <1>5, <1>6, <1>7, <1>8, <2>1
  <2>2. CASE t # s
    BY <1>7, <1>8, <2>2 DEF Ahead, RoutesAhead
  <2> QED BY <2>1, <2>2
<1>13. ActsAhead'
  <2> SUFFICES ASSUME NEW t \in Seats, order'[t].acts PROVE Bound(t)'
    BY DEF ActsAhead
  <2>1. CASE t = s
    <3>1. order'[s].push = 0 /\ order'[s].route = r
      <4>1. order'[s].acts = (p.push = 0) /\ order'[s].push = p.push /\ order'[s].route = r
        BY <1>8
      <4>2. order'[s].acts
        BY <2>1
      <4> QED BY <4>1, <4>2, Zenon
    <3>2. Len(r) <= 0 => goal'[s] = position[s]
      BY <1>5, <1>8
    <3>3. Len(r) > 0 => goal'[s] = r[Len(r)]
      BY <1>5, <1>8 DEF Last
    <3> QED BY <1>6, <1>7, <2>1, <3>1, <3>2, <3>3 DEF Bound
  <2>2. CASE t # s
    BY <1>7, <1>8, <2>2 DEF Ahead, ActsAhead, Bound
  <2> QED BY <2>1, <2>2
<1>14. Meetings' /\ StepTaken' /\ WalksConnected'
  BY <1>7 DEF Ahead, Meetings, Stayed, StepTaken, WalksConnected, Connected, Neighbours
<1>15. WayBack'
  BY <1>6, <1>7 DEF WayBack
<1> QED BY <1>10, <1>11, <1>12, <1>13, <1>14, <1>15 DEF Ahead

\* A step follows routes and edges, brings everyone who meets into a fight,
\* and sends nobody back where it was thrown out.
LEMMA AheadAdvance == IInv /\ Ahead /\ Advance => Ahead'
<1> SUFFICES ASSUME IInv, Ahead, Advance PROVE Ahead'
  OBVIOUS
<1>1. /\ position' \in [Seats -> Nodes] /\ phase = "move" /\ pending = {} /\ step' = step + 1
      /\ held' = position /\ fate' = [s \in Seats |-> "none"]
      /\ UNCHANGED <<phase, weather, twice, goal>>
      /\ pending' = Merged(Crossings(position'), Collisions(position'))
      /\ fled' \in [Seats -> Nodes \cup {0}]
  BY SeatAdvances
<1>2. \A s \in Seats :
        /\ \/ order'[s] = order[s] /\ position'[s] \in Targets(s, step + 1)
           \/ order'[s] = HaltMovement(s) /\ position'[s] = position[s] /\ weather.gas # {}
        /\ walk'[s].previous = position[s]
        /\ position'[s] # position[s] => /\ walk'[s].path = Append(walk[s].path, position'[s])
                                         /\ fled'[s] = 0
        /\ position'[s] = position[s] => walk'[s].path = walk[s].path /\ fled'[s] = fled[s]
  BY SeatAdvances
<1>3. step \in Nat /\ \A s \in Seats :
        /\ position[s] \in Nodes /\ position'[s] \in Nodes
        /\ order[s].route \in Seq(Nodes) /\ order[s].push \in Nat /\ Len(order[s].route) \in Nat
        /\ walk[s].path \in Paths /\ Last(walk[s].path) = position[s]
  BY <1>1 DEF IInv, TypeOK, PathEndsHere, Paths
<1>4. \A s \in Seats : HaltMovement(s).route = <<>> /\ HaltMovement(s).push = 0 /\ ~HaltMovement(s).acts
  BY DEF HaltMovement
<1>5. ASSUME NEW s \in Seats, position'[s] \in Targets(s, step + 1)
      PROVE  /\ step + 1 <= Len(order[s].route) => position'[s] = order[s].route[step + 1]
             /\ step + 1 > Len(order[s].route) /\ step + 1 <= End(s) =>
                  \/ position'[s] \in PushOnCandidates(position[s], walk[s].previous)
                  \/ position'[s] = position[s] /\ Open(position[s]) = {}
             /\ step + 1 > Len(order[s].route) /\ step + 1 > End(s) => position'[s] = position[s]
  BY <1>5, TargetsAhead DEF IInv
<1>6. \A s \in Seats : PushOnCandidates(position[s], walk[s].previous) \subseteq Open(position[s])
  BY DEF PushOnCandidates
<1>7. HistoryOK'
  BY <1>1 DEF IInv, TypeOK, Ahead, HistoryOK
<1>8. Phases'
  BY <1>1 DEF Phases
<1>9. RoutesAhead'
  <2> SUFFICES ASSUME NEW s \in Seats, NEW i \in 1 .. Len(order'[s].route), i > step'
               PROVE  order'[s].route[i] \in
                        Neighbours(IF i = step' + 1 THEN position'[s] ELSE order'[s].route[i - 1])
    BY DEF RoutesAhead, Neighbours
  <2>1. CASE order'[s] = HaltMovement(s)
    BY <1>4, <2>1
  <2>2. CASE order'[s] = order[s] /\ position'[s] \in Targets(s, step + 1)
    <3>1. i \in 1 .. Len(order[s].route) /\ i > step + 1 /\ i > step /\ i # step + 1
      BY <1>1, <1>3, <2>2
    <3>2. order[s].route[i] \in Neighbours(order[s].route[i - 1])
      BY <3>1 DEF Ahead, RoutesAhead
    <3>3. position'[s] = order[s].route[step + 1]
      BY <1>3, <1>5, <2>2, <3>1
    <3>4. i = step' + 1 => i - 1 = step + 1
      BY <1>1, <1>3
    <3> QED BY <2>2, <3>2, <3>3, <3>4
  <2> QED BY <1>2, <2>1, <2>2
<1>10. ActsAhead'
  <2> SUFFICES ASSUME NEW s \in Seats, order'[s].acts PROVE Bound(s)'
    BY DEF ActsAhead
  <2>1. order'[s] = order[s] /\ position'[s] \in Targets(s, step + 1)
    BY <1>2, <1>4
  <2>2. Bound(s)
    BY <2>1 DEF Ahead, ActsAhead
  <2>3. End(s) = Len(order[s].route)
    BY <1>3, <2>2 DEF Bound, End
  <2>4. CASE Len(order[s].route) <= step
    <3>1. position'[s] = position[s] /\ position[s] = goal[s] /\ Len(order[s].route) <= step + 1
      BY <1>3, <1>5, <2>1, <2>2, <2>3, <2>4 DEF Bound
    <3>2. ~(Len(order[s].route) > step + 1)
      BY <1>3, <2>4
    <3> QED BY <1>1, <2>1, <2>2, <3>1, <3>2 DEF Bound
  <2>5. CASE Len(order[s].route) > step
    <3>1. position'[s] = order[s].route[step + 1] /\ goal[s] = order[s].route[Len(order[s].route)]
      BY <1>3, <1>5, <2>1, <2>2, <2>5 DEF Bound
    <3>2. Len(order[s].route) <= step + 1 => Len(order[s].route) = step + 1
      BY <1>3, <2>5
    <3> QED BY <1>1, <2>1, <2>2, <3>1, <3>2 DEF Bound
  <2> QED BY <1>3, <2>4, <2>5
<1>11. Meetings'
  BY <1>1, EveryMeeting DEF IInv, Meetings
<1>12. StepTaken'
  <2> SUFFICES ASSUME NEW s \in Seats
               PROVE  /\ walk'[s].previous = position[s]
                      /\ \A c \in pending' : s \in c.seats => c.node \in {position[s], position'[s]}
                      /\ position'[s] # position[s] =>
                           Len(walk'[s].path) >= 2 /\ walk'[s].path[Len(walk'[s].path) - 1] = position[s]
    BY <1>1 DEF StepTaken
  <2>1. \A c \in pending' : s \in c.seats => c.node \in {position[s], position'[s]}
    BY <1>1, MeetingsWhereSeatsWere DEF IInv
  <2>2. ASSUME position'[s] # position[s]
        PROVE  Len(walk'[s].path) >= 2 /\ walk'[s].path[Len(walk'[s].path) - 1] = position[s]
    <3> DEFINE path == walk[s].path
    <3>1. walk'[s].path = Append(path, position'[s])
      BY <1>2, <2>2
    <3>2. path \in Seq(Nodes) /\ Len(path) \in Nat /\ Len(path) >= 1 /\ path[Len(path)] = position[s]
      BY <1>3 DEF Paths, Last
    <3> HIDE DEF path
    <3>3. Len(Append(path, position'[s])) = Len(path) + 1
      BY <1>3, <3>2
    <3>4. Append(path, position'[s])[Len(path)] = path[Len(path)]
      BY <1>3, <3>2
    <3>5. Len(path) + 1 - 1 = Len(path)
      BY <3>2
    <3> QED BY <3>1, <3>2, <3>3, <3>4, <3>5
  <2> QED BY <1>2, <2>1, <2>2
<1>13. ASSUME NEW s \in Seats, position'[s] # position[s]
       PROVE  position'[s] \in Neighbours(position[s])
  <2>1. position'[s] \in Targets(s, step + 1)
    BY <1>2, <1>13
  <2>2. CASE step + 1 <= Len(order[s].route)
    <3>1. position'[s] = order[s].route[step + 1] /\ step + 1 \in 1 .. Len(order[s].route) /\ step + 1 > step
      BY <1>3, <1>5, <2>1, <2>2
    <3> QED BY <3>1 DEF Ahead, RoutesAhead
  <2>3. CASE step + 1 > Len(order[s].route)
    <3>1. End(s) \in Nat
      BY <1>3 DEF End
    <3>2. position'[s] \in Open(position[s])
      BY <1>3, <1>5, <1>6, <1>13, <2>1, <2>3, <3>1
    <3> QED BY <3>2 DEF Open
  <2> QED BY <1>3, <2>2, <2>3
<1>14. WalksConnected'
  <2> SUFFICES ASSUME NEW s \in Seats \ twice PROVE Connected(walk[s].path)'
    BY <1>1 DEF WalksConnected
  <2>1. Connected(walk[s].path)
    BY DEF Ahead, WalksConnected
  <2>2. CASE position'[s] = position[s]
    BY <1>2, <2>1, <2>2 DEF Connected, Neighbours
  <2>3. CASE position'[s] # position[s]
    <3> DEFINE path == walk[s].path
               n    == position'[s]
    <3>1. path \in Seq(Nodes) /\ Len(path) \in Nat /\ Len(path) >= 1 /\ path[Len(path)] = position[s] /\ n \in Nodes
      BY <1>3 DEF Paths, Last
    <3>2. position[s] \in Neighbours(n)
      BY <1>3, <1>13, <2>3, EdgesBothWays
    <3>3. \A i \in 1 .. Len(path) - 1 : path[i] \in Neighbours(path[i + 1])
      BY <2>1 DEF Connected
    <3> HIDE DEF path, n
    <3>4. Len(Append(path, n)) = Len(path) + 1 /\ Append(path, n)[Len(path) + 1] = n
          /\ \A i \in 1 .. Len(path) : Append(path, n)[i] = path[i]
      BY <3>1
    <3>5. \A i \in 1 .. Len(Append(path, n)) - 1 : Append(path, n)[i] \in Neighbours(Append(path, n)[i + 1])
      <4> SUFFICES ASSUME NEW i \in 1 .. Len(path)
                   PROVE  Append(path, n)[i] \in Neighbours(Append(path, n)[i + 1])
        BY <3>1, <3>4
      <4>1. CASE i = Len(path)
        BY <3>1, <3>2, <3>4, <4>1
      <4>2. CASE i # Len(path)
        <5>1. i \in 1 .. Len(path) - 1 /\ i + 1 \in 1 .. Len(path)
          BY <3>1, <4>2
        <5> QED BY <3>3, <3>4, <5>1
      <4> QED BY <4>1, <4>2
    <3>6. walk'[s].path = Append(path, n)
      BY <1>2, <2>3 DEF path, n
    <3> QED BY <3>5, <3>6 DEF Connected, Neighbours
  <2> QED BY <2>2, <2>3
<1>15. WayBack'
  <2> SUFFICES ASSUME NEW s \in Seats, fled'[s] # 0
               PROVE  /\ Len(order'[s].route) <= step'
                      /\ walk'[s].previous = fled'[s] \/ Open(position[s])' = {} \/ End(s)' <= step'
    BY DEF WayBack
  <2>1. position'[s] = position[s] /\ fled'[s] = fled[s]
    BY <1>2
  <2>2. Open(position[s])' = Open(position[s])
    BY <1>1, <2>1 DEF Open, Neighbours
  <2>3. Len(order[s].route) <= step /\ (walk[s].previous = fled[s] \/ Open(position[s]) = {} \/ End(s) <= step)
    BY <2>1 DEF Ahead, WayBack
  <2>4. CASE order'[s] = HaltMovement(s)
    <3>1. order'[s].route = <<>> /\ order'[s].push = 0
      BY <1>4, <2>4
    <3>2. Len(order'[s].route) = 0 /\ End(s)' = 0
      BY <3>1 DEF End
    <3> QED BY <1>1, <1>3, <3>2
  <2>5. CASE order'[s] = order[s] /\ position'[s] \in Targets(s, step + 1)
    <3>1. End(s)' = End(s) /\ End(s) \in Nat
      BY <1>3, <2>5 DEF End
    <3>2. Len(order'[s].route) <= step'
      BY <1>1, <1>3, <2>3, <2>5
    <3>3. CASE step + 1 > End(s)
      BY <1>1, <1>3, <3>1, <3>2, <3>3
    <3>4. CASE step + 1 <= End(s)
      <4>1. position'[s] \in Open(position[s]) => position'[s] # position[s]
        BY <1>3, EdgesBothWays DEF Open
      <4>2. step + 1 > Len(order[s].route)
        BY <1>3, <2>3
      <4>3. \/ position'[s] \in PushOnCandidates(position[s], walk[s].previous)
            \/ position'[s] = position[s] /\ Open(position[s]) = {}
        BY <1>5, <2>5, <3>4, <4>2
      <4>4. Open(position[s]) = {}
        BY <1>6, <2>1, <4>1, <4>3
      <4> QED BY <2>2, <3>2, <4>4
    <3> QED BY <1>3, <3>1, <3>3, <3>4
  <2> QED BY <1>2, <2>4, <2>5
<1> QED BY <1>7, <1>8, <1>9, <1>10, <1>11, <1>12, <1>14, <1>15 DEF Ahead

\* The path a seat comes to its first fight of a step with follows edges: a
\* correction only takes back the step.
LEMMA PathsConnected ==
  ASSUME IInv, Ahead, NEW c \in pending, NEW s \in c.seats, fate[s] = "none", s \notin twice
  PROVE  Connected(PathInFight(c, s))
<1> DEFINE path  == walk[s].path
           fixed == [path EXCEPT ![Len(path)] = c.node]
<1>1. s \in Seats /\ path \in Seq(Nodes) /\ c.node \in Nodes /\ Len(path) \in Nat
  BY DEF IInv, TypeOK
<1>2. \A i \in 1 .. Len(path) - 1 : path[i] \in Neighbours(path[i + 1])
  BY <1>1 DEF Ahead, WalksConnected, Connected
<1>3. CASE s \notin Corrected(c)
  BY <1>2, <1>3 DEF PathInFight, Connected
<1>4. CASE s \in Corrected(c)
  <2>1. position[s] # c.node /\ c.node \in {held[s], position[s]}
    BY <1>1, <1>4 DEF Corrected, Ahead, StepTaken
  <2>2. Len(path) >= 2 /\ path[Len(path) - 1] = c.node
    BY <1>1, <2>1 DEF Ahead, StepTaken
  <2> HIDE DEF path
  <2>3. fixed \in Seq(Nodes) /\ Len(fixed) = Len(path) /\ \A i \in 1 .. Len(path) - 1 : fixed[i] = path[i]
    BY <1>1, <2>2
  <2>4. PathInFight(c, s) = SubSeq(fixed, 1, Len(fixed) - 1)
    BY <1>4, <2>2, <2>3 DEF PathInFight, FixPathTail, Front, path
  <2>5. Len(SubSeq(fixed, 1, Len(fixed) - 1)) = Len(path) - 1
        /\ \A i \in 1 .. Len(path) - 1 : SubSeq(fixed, 1, Len(fixed) - 1)[i] = fixed[i]
    <3> HIDE DEF fixed
    <3> QED BY <1>1, <2>2, <2>3
  <2>6. \A i \in 1 .. Len(path) - 2 : /\ i \in 1 .. Len(path) - 1 /\ i + 1 \in 1 .. Len(path) - 1
    BY <1>1
  <2> DEFINE part == SubSeq(fixed, 1, Len(fixed) - 1)
  <2>7. \A i \in 1 .. Len(path) - 1 : part[i] = path[i]
    BY <2>3, <2>5
  <2>8. Len(part) - 1 = Len(path) - 2
    BY <1>1, <2>5
  <2> HIDE DEF part
  <2>9. \A i \in 1 .. Len(part) - 1 : part[i] \in Neighbours(part[i + 1])
    BY <1>2, <2>6, <2>7, <2>8
  <2> QED BY <2>4, <2>9 DEF Connected, part
<1> QED BY <1>3, <1>4

\* A random hop ends within one step of the fight, two for who is evasive.
LEMMA HopsWithin ==
  ASSUME NEW n \in Nodes, NEW evasive \in BOOLEAN, NEW m \in RandomHops(n, evasive)
  PROVE  Within(n, m, IF evasive THEN 2 ELSE 1)
<1>1. \A k \in Open(n) : k \in Neighbours(n)
  BY DEF Open
<1>2. CASE Open(n) = {}
  BY <1>2 DEF RandomHops, Within
<1>3. CASE Open(n) # {}
  <2>1. PICK k \in Open(n) : m \in (IF evasive /\ Open(k) \ {n} # {} THEN Open(k) \ {n} ELSE {k})
    BY <1>3 DEF RandomHops
  <2>2. CASE m = k
    BY <1>1, <2>2 DEF Within
  <2>3. CASE evasive /\ m \in Open(k)
    <3>1. m \in Neighbours(k) /\ k \in Neighbours(n)
      BY <1>1, <2>3 DEF Open
    <3> QED BY <2>3, <3>1 DEF Within
  <2> QED BY <2>1, <2>2, <2>3
<1> QED BY <1>2, <1>3

\* What is left of a connected path is connected, and ends within one step of
\* the fight, two for who is evasive.
LEMMA PushbackFalls ==
  ASSUME IInv, NEW c \in pending, NEW s \in c.seats, Connected(PathInFight(c, s)),
         NEW path \in Pushbacks(c, s)
  PROVE  Connected(path) /\ Within(c.node, Last(path), IF Evasive(s) THEN 2 ELSE 1)
<1> DEFINE before == PathInFight(c, s)
           hops   == IF Evasive(s) THEN 2 ELSE 1
<1>1. before \in Paths /\ Last(before) = c.node
  BY PathsInFight
<1>2. /\ before \in Seq(Nodes) /\ Len(before) \in Nat \ {0} /\ before[Len(before)] = c.node
      /\ c.node \in Nodes /\ Evasive(s) \in BOOLEAN /\ hops \in {1, 2}
  BY <1>1 DEF IInv, TypeOK, Paths, Last, Evasive
<1>3. \A i \in 1 .. Len(before) - 1 : before[i] \in Neighbours(before[i + 1])
  BY DEF Connected
<1>4. \A n : Connected(<<n>>) /\ Last(<<n>>) = n
  BY DEF Connected, Last
<1>5. CASE Len(before) - 1 >= hops
  <2> DEFINE k == Len(before) - hops
  <2>1. path = SubSeq(before, 1, k)
    BY <1>2, <1>5 DEF Pushbacks
  <2>2. k \in Nat /\ k >= 1 /\ k <= Len(before) /\ k + hops = Len(before)
    BY <1>2, <1>5
  <2> HIDE DEF before, k, hops
  <2>3. Len(path) = k /\ (\A i \in 1 .. k : path[i] = before[i])
    BY <1>2, <2>1, <2>2
  <2>4. \A i \in 1 .. k - 1 : i \in 1 .. k /\ i + 1 \in 1 .. k /\ i \in 1 .. Len(before) - 1
    BY <1>2, <2>2
  <2>5. Connected(path)
    BY <1>3, <2>3, <2>4 DEF Connected
  <2>6. Last(path) = before[k]
    BY <2>2, <2>3 DEF Last
  <2>7. CASE hops = 1
    <3>1. k \in 1 .. Len(before) - 1 /\ k + 1 = Len(before)
      BY <1>2, <2>2, <2>7
    <3>2. before[k] \in Neighbours(c.node)
      BY <1>2, <1>3, <3>1
    <3> QED BY <2>5, <2>6, <3>2 DEF Within, hops
  <2>8. CASE hops = 2
    <3>1. /\ k \in 1 .. Len(before) - 1 /\ k + 1 \in 1 .. Len(before) - 1 /\ (k + 1) + 1 = Len(before)
      BY <1>2, <2>2, <2>8
    <3>2. before[k] \in Neighbours(before[k + 1]) /\ before[k + 1] \in Neighbours(c.node)
      BY <1>2, <1>3, <3>1
    <3>3. Evasive(s)
      BY <2>8 DEF hops
    <3> QED BY <2>5, <2>6, <3>2, <3>3 DEF Within
  <2> QED BY <1>2, <2>7, <2>8
<1>6. CASE ~(Len(before) - 1 >= hops) /\ Len(before) = 2
  <2>1. path = <<before[1]>>
    BY <1>2, <1>6 DEF Pushbacks
  <2>2. before[1] \in Neighbours(c.node)
    BY <1>2, <1>3, <1>6
  <2> QED BY <1>4, <2>1, <2>2 DEF Within
<1>7. CASE ~(Len(before) - 1 >= hops) /\ Len(before) # 2
  <2>1. PICK n \in RandomHops(c.node, Evasive(s)) : path = <<n>>
    BY <1>2, <1>7 DEF Pushbacks
  <2>2. Within(c.node, n, IF Evasive(s) THEN 2 ELSE 1)
    BY <1>2, <2>1, HopsWithin
  <2> QED BY <1>4, <2>1, <2>2
<1> QED BY <1>5, <1>6, <1>7

\* A fight leaves the orders of those it moved halted, and everyone who then
\* shares a node with one that has not fallen back in a fight still to come.
LEMMA AheadFight == IInv /\ Ahead /\ Fight => Ahead'
<1> SUFFICES ASSUME IInv, Ahead, Fight PROVE Ahead'
  OBVIOUS
<1>1. /\ phase = "move" /\ UNCHANGED <<phase, weather, step, held, goal>>
      /\ fate' \in [Seats -> {"none", "won", "lost", "tied"}] /\ fled' \in [Seats -> Nodes \cup {0}]
  BY SeatFights
<1>2. PICK c \in pending :
        /\ NextFight(c) /\ pending' = pending \ {c}
        /\ twice' = twice \cup {s \in c.seats : fate[s] # "none"}
        /\ \A s \in c.seats : Beaten(c, s) \/ Prevailed(c, s)
        /\ \A s, t \in c.seats : Prevailed(c, s) /\ Prevailed(c, t) => s = t
        /\ \A s \in Seats \ c.seats : Spared(s)
  BY SeatFights
<1>3. c.seats \subseteq Seats /\ c.node \in Nodes /\ c.node # 0 /\ step \in Nat
  <2>1. 0 \notin Nodes
    BY MovementAssumption
  <2> QED BY <2>1 DEF IInv, TypeOK
<1>4. ASSUME NEW s \in Seats
      PROVE  /\ ~Halted(s).acts /\ Len(Halted(s).route) <= step
             /\ Unspent(s) = 0 => End(s) <= step /\ Len(Halted(s).route) + Halted(s).push = 0
             /\ Unspent(s) # 0 => Unspent(s) > 0
             /\ Len(Halted(s).route) \in Nat
  BY HaltedAhead, HaltedOrder DEF IInv, Orders
<1>5. \A s \in c.seats : \/ order'[s] = Halted(s)
                         \/ order'[s] = order[s] /\ position'[s] = position[s]
  BY <1>2, <1>3 DEF Beaten, Prevailed, WinnersOrder, Corrected
<1>6. \A s \in Seats \ c.seats : order'[s] = order[s] /\ position'[s] = position[s]
  BY <1>2 DEF Spared
<1>7. HistoryOK'
  BY <1>1, <1>2, <1>3 DEF Ahead, HistoryOK
<1>8. Phases'
  BY <1>1 DEF Phases
<1>9. RoutesAhead'
  <2> SUFFICES ASSUME NEW s \in Seats, NEW i \in 1 .. Len(order'[s].route), i > step'
               PROVE  order'[s].route[i] \in
                        Neighbours(IF i = step' + 1 THEN position'[s] ELSE order'[s].route[i - 1])
    BY DEF RoutesAhead, Neighbours
  <2>1. CASE order'[s] = Halted(s)
    BY <1>1, <1>3, <1>4, <2>1
  <2>2. CASE order'[s] = order[s] /\ position'[s] = position[s]
    BY <1>1, <2>2 DEF Ahead, RoutesAhead
  <2> QED BY <1>5, <1>6, <2>1, <2>2
<1>10. ActsAhead'
  <2> SUFFICES ASSUME NEW s \in Seats, order'[s].acts PROVE Bound(s)'
    BY DEF ActsAhead
  <2>1. order'[s] = order[s] /\ position'[s] = position[s]
    BY <1>4, <1>5, <1>6
  <2>2. Bound(s)
    BY <2>1 DEF Ahead, ActsAhead
  <2> QED BY <1>1, <2>1, <2>2 DEF Bound
<1>11. ASSUME NEW t \in Seats, Stayed(t)'
       PROVE  \/ t \in c.seats /\ position'[t] = c.node
              \/ t \notin c.seats /\ position'[t] = position[t] /\ Stayed(t)
  <2>1. fate'[t] \notin {"tied", "lost"}
    BY <1>11 DEF Stayed
  <2>2. CASE t \in c.seats
    BY <1>2, <2>1, <2>2 DEF Beaten, Prevailed
  <2>3. CASE t \notin c.seats
    BY <1>2, <2>1, <2>3 DEF Spared, Stayed
  <2> QED BY <2>2, <2>3
<1>12. Meetings'
  <2>1. \A d, e \in pending' : d.node = e.node => d = e
    BY <1>2 DEF Ahead, Meetings
  <2>2. ASSUME NEW d \in pending', NEW t \in Seats, Stayed(t)', position'[t] = d.node
        PROVE  t \in d.seats
    <3>1. d \in pending /\ d.node # c.node
      BY <1>2 DEF Ahead, Meetings
    <3>2. position[t] = d.node /\ Stayed(t)
      BY <1>11, <2>2, <3>1
    <3> QED BY <3>1, <3>2 DEF Ahead, Meetings
  <2>3. ASSUME step' >= 1, NEW s \in Seats, NEW t \in Seats, s # t, position'[s] = position'[t],
               Stayed(s)', Stayed(t)'
        PROVE  \E d \in pending' : d.node = position'[s]
    <3>1. ASSUME NEW u \in Seats, u \notin c.seats, Stayed(u)
          PROVE  position[u] # c.node
      BY <3>1 DEF Ahead, Meetings
    <3>2. CASE s \in c.seats
      <4>1. position'[s] = c.node /\ position'[t] = c.node
        BY <1>11, <2>3, <3>2
      <4>2. t \in c.seats
        BY <1>11, <2>3, <3>1, <4>1
      <4>3. Prevailed(c, s) /\ Prevailed(c, t)
        BY <1>2, <2>3, <3>2, <4>2 DEF Beaten, Stayed
      <4> QED BY <1>2, <2>3, <3>2, <4>2, <4>3
    <3>3. CASE s \notin c.seats
      <4>1. position'[s] = position[s] /\ Stayed(s) /\ position[s] # c.node
        BY <1>11, <2>3, <3>1, <3>3
      <4>2. t \notin c.seats /\ position'[t] = position[t] /\ Stayed(t)
        BY <1>11, <2>3, <4>1
      <4>3. PICK d \in pending : d.node = position[s]
        BY <1>1, <2>3, <4>1, <4>2 DEF Ahead, Meetings
      <4> QED BY <1>2, <4>1, <4>3
    <3> QED BY <3>2, <3>3
  <2> QED BY <2>1, <2>2, <2>3 DEF Meetings
<1>13. StepTaken'
  <2> SUFFICES ASSUME NEW s \in Seats, fate'[s] = "none"
               PROVE  /\ walk'[s].previous = held'[s]
                      /\ \A d \in pending' : s \in d.seats => d.node \in {held'[s], position'[s]}
                      /\ position'[s] # held'[s] =>
                           Len(walk'[s].path) >= 2 /\ walk'[s].path[Len(walk'[s].path) - 1] = held'[s]
    BY DEF StepTaken
  <2>1. Spared(s)
    BY <1>2 DEF Beaten, Prevailed
  <2> QED BY <1>1, <1>2, <2>1 DEF Spared, Ahead, StepTaken
<1>14. WalksConnected'
  <2> SUFFICES ASSUME NEW s \in Seats, s \notin twice' PROVE Connected(walk'[s].path)
    BY DEF WalksConnected, Connected, Neighbours
  <2>1. s \notin twice /\ (s \in c.seats => fate[s] = "none")
    BY <1>2
  <2>2. CASE s \notin c.seats
    <3>1. walk'[s] = walk[s] /\ Connected(walk[s].path)
      BY <1>2, <2>1, <2>2 DEF Spared, Ahead, WalksConnected
    <3> QED BY <3>1
  <2>3. CASE s \in c.seats
    <3>1. Connected(PathInFight(c, s))
      BY <2>1, <2>3, PathsConnected
    <3>2. CASE Prevailed(c, s)
      BY <3>1, <3>2 DEF Prevailed
    <3>3. CASE Beaten(c, s) /\ fate'[s] = "tied"
      <4>1. walk'[s].path = <<position'[s]>>
        BY <3>3 DEF Beaten
      <4> QED BY <4>1 DEF Connected
    <3>4. CASE Beaten(c, s) /\ fate'[s] = "lost"
      <4>1. walk'[s].path \in Pushbacks(c, s)
        BY <3>4 DEF Beaten
      <4> QED BY <2>3, <3>1, <4>1, PushbackFalls
    <3> QED BY <1>2, <2>3, <3>2, <3>3, <3>4 DEF Beaten
  <2> QED BY <2>2, <2>3
<1>15. WayBack'
  <2> SUFFICES ASSUME NEW s \in Seats, fled'[s] # 0
               PROVE  /\ Len(order'[s].route) <= step'
                      /\ walk'[s].previous = fled'[s] \/ Open(position[s])' = {} \/ End(s)' <= step'
    BY DEF WayBack
  <2>1. CASE s \in c.seats
    <3>1. Beaten(c, s) /\ Unspent(s) > 0 /\ fled'[s] = c.node
      BY <1>2, <2>1 DEF Beaten, Prevailed
    <3>2. order'[s] = Halted(s) /\ walk'[s].previous = c.node
      BY <3>1 DEF Beaten, PreviousAfter
    <3> QED BY <1>1, <1>4, <3>1, <3>2
  <2>2. CASE s \notin c.seats
    <3>1. /\ fled'[s] = fled[s] /\ order'[s] = order[s] /\ walk'[s] = walk[s] /\ position'[s] = position[s]
      BY <1>2, <2>2 DEF Spared
    <3>2. Open(position[s])' = Open(position[s]) /\ End(s)' = End(s)
      BY <1>1, <3>1 DEF Open, Neighbours, End
    <3> QED BY <1>1, <3>1, <3>2 DEF Ahead, WayBack
  <2> QED BY <2>1, <2>2
<1> QED BY <1>7, <1>8, <1>9, <1>10, <1>12, <1>13, <1>14, <1>15 DEF Ahead

\* Every step keeps both invariants.
LEMMA AheadStep == IInv /\ Ahead /\ [Next]_vars => Ahead'
<1> SUFFICES ASSUME IInv, Ahead, [Next]_vars PROVE Ahead'
  OBVIOUS
<1>1. CASE Validate
  BY <1>1, AheadValidate
<1>2. CASE Advance
  BY <1>2, AheadAdvance
<1>3. CASE Fight
  BY <1>3, AheadFight
<1>4. ASSUME UNCHANGED <<weather, step, position, known, order, walk, pending, history>>,
             phase' \in {"validate", "move", "actions"}, Phases'
      PROVE  Ahead'
  <2>1. UNCHANGED <<held, fate, twice, fled, goal>>
    BY <1>4 DEF history
  <2>2. HistoryOK'
    BY <2>1 DEF Ahead, HistoryOK
  <2>3. RoutesAhead' /\ ActsAhead'
    BY <1>4, <2>1 DEF Ahead, RoutesAhead, ActsAhead, Bound, Neighbours
  <2>4. Meetings' /\ StepTaken'
    BY <1>4, <2>1 DEF Ahead, Meetings, Stayed, StepTaken
  <2>5. WalksConnected' /\ WayBack'
    BY <1>4, <2>1 DEF Ahead, WalksConnected, Connected, WayBack, Open, Neighbours, End
  <2> QED BY <1>4, <2>2, <2>3, <2>4, <2>5 DEF Ahead
<1>5. CASE StartMoving
  <2>1. Phases'
    BY <1>5 DEF StartMoving, Phases
  <2> QED BY <1>4, <1>5, <2>1 DEF StartMoving
<1>6. CASE EndMovement
  <2>1. UNCHANGED <<step, order, pending>> /\ phase' = "actions" /\ pending = {} /\ step >= MovementSteps
    BY <1>6 DEF EndMovement
  <2>2. \A s \in Seats : End(s)' = End(s) /\ End(s) \in Nat
    BY <2>1 DEF End, IInv, TypeOK
  <2>3. step \in Nat /\ MovementSteps \in Nat /\ MovementSteps >= 1 /\ \A s \in Seats : End(s) <= MovementSteps
    BY StepsEnough DEF IInv, TypeOK
  <2>4. step >= 1 /\ \A s \in Seats : End(s) <= step
    BY <2>1, <2>2, <2>3
  <2>5. Phases'
    BY <2>1, <2>2, <2>4 DEF Phases
  <2> QED BY <1>4, <1>6, <2>5 DEF EndMovement
<1>7. CASE UNCHANGED vars
  <2>1. Phases'
    BY <1>7 DEF vars, history, Ahead, Phases, End
  <2> QED BY <1>4, <1>7, <2>1 DEF vars, IInv, TypeOK
<1> QED BY <1>1, <1>2, <1>3, <1>5, <1>6, <1>7 DEF Next

\* The two invariants say what an order left to a seat says.
LEMMA FitFollows == IInv /\ Ahead => OrdersFitWalks
<1> SUFFICES ASSUME IInv, Ahead PROVE OrdersFitWalks
  OBVIOUS
<1>1. RoutesFit
  <2> SUFFICES ASSUME NEW s \in Seats, step < Len(order[s].route)
               PROVE  order[s].route[step + 1] \in Neighbours(position[s])
    BY DEF RoutesFit
  <2>1. step \in Nat /\ Len(order[s].route) \in Nat
    BY DEF IInv, TypeOK
  <2>2. step + 1 \in 1 .. Len(order[s].route) /\ step + 1 > step
    BY <2>1
  <2> QED BY <2>2 DEF Ahead, RoutesAhead
<1>2. ActsWhereDeclared
  <2> SUFFICES ASSUME phase = "actions", NEW s \in Seats, order[s].acts PROVE position[s] = goal[s]
    BY DEF ActsWhereDeclared
  <2>1. Bound(s) /\ End(s) <= step
    BY DEF Ahead, ActsAhead, Phases
  <2>2. Len(order[s].route) \in Nat
    BY DEF IInv, TypeOK
  <2>3. End(s) = Len(order[s].route)
    BY <2>1, <2>2 DEF Bound, End
  <2> QED BY <2>1, <2>3 DEF Bound
<1>3. SharedOnlyByFallback
  BY DEF SharedOnlyByFallback, Ahead, Phases, Meetings, Stayed
<1> QED BY <1>1, <1>2, <1>3 DEF OrdersFitWalks

\* A step moves the end of a plan only to end it.
LEMMA ClockStep ==
  ASSUME IInv, Ahead, [Next]_vars, NEW s \in Seats, phase = "move", End(s)' # End(s)
  PROVE  End(s)' = 0 /\ (End(s) <= step' \/ weather.gas # {})
<1>1. CASE Advance
  <2>1. \/ order'[s] = order[s]
        \/ order'[s] = HaltMovement(s) /\ weather.gas # {}
    BY <1>1, SeatAdvances
  <2>2. CASE order'[s] = order[s]
    BY <2>2 DEF End
  <2>3. CASE order'[s] = HaltMovement(s) /\ weather.gas # {}
    <3>1. order'[s].route = <<>> /\ order'[s].push = 0
      BY <2>3 DEF HaltMovement
    <3>2. Len(order'[s].route) = 0
      BY <3>1
    <3> QED BY <2>3, <3>1, <3>2 DEF End
  <2> QED BY <2>1, <2>2, <2>3
<1>2. CASE Fight
  <2>1. PICK c \in pending : /\ \A t \in c.seats : Beaten(c, t) \/ Prevailed(c, t)
                             /\ \A t \in Seats \ c.seats : Spared(t)
    BY <1>2, SeatFights
  <2>2. order'[s] = Halted(s) \/ order'[s] = order[s]
    BY <2>1 DEF Beaten, Prevailed, Spared, WinnersOrder
  <2>3. step' = step
    BY <1>2, SeatFights
  <2>4. order'[s] = Halted(s)
    BY <2>2 DEF End
  <2>5. /\ Unspent(s) = 0 => End(s) <= step /\ Len(Halted(s).route) + Halted(s).push = 0
        /\ Unspent(s) # 0 => Len(Halted(s).route) + Halted(s).push = End(s)
    BY HaltedAhead DEF IInv
  <2> QED BY <2>3, <2>4, <2>5 DEF End
<1>3. CASE Validate \/ StartMoving
  BY <1>3 DEF Validate, StartMoving
<1>4. CASE EndMovement \/ UNCHANGED vars
  BY <1>4 DEF EndMovement, vars, End
<1> QED BY <1>1, <1>2, <1>3, <1>4 DEF Next

\* Who fights once in a step falls back as the rules say.
LEMMA FallStep ==
  ASSUME IInv, Ahead, Next, NEW s \in Seats, NEW c \in FightsOf(s), s \notin twice'
  PROVE  /\ fate'[s] = "tied" => position'[s] = held[s]
         /\ fate'[s] = "lost" => Within(c.node, position'[s], IF Evasive(s) THEN 2 ELSE 1)
<1>1. c \in pending /\ NextFight(c) /\ s \in c.seats
  BY DEF FightsOf
<1>2. Fight
  <2>1. ~Advance /\ ~EndMovement
    BY <1>1 DEF Advance, EndMovement
  <2>2. ~Validate /\ ~StartMoving
    BY <1>1 DEF Ahead, Phases, Validate, StartMoving
  <2> QED BY <2>1, <2>2 DEF Next
<1>3. PICK d \in pending :
        /\ NextFight(d)
        /\ twice' = twice \cup {t \in d.seats : fate[t] # "none"}
        /\ \A t \in d.seats : Beaten(d, t) \/ Prevailed(d, t)
  BY <1>2, SeatFights
<1>4. d = c
  <2>1. c.node \in Int /\ d.node \in Int
    <3>1. Nodes \subseteq Int
      BY MovementAssumption
    <3> QED BY <1>1, <3>1 DEF IInv, TypeOK
  <2>2. c.node <= d.node /\ d.node <= c.node
    BY <1>1, <1>3 DEF NextFight
  <2>3. c.node = d.node
    BY <2>1, <2>2
  <2> QED BY <1>1, <2>3 DEF Ahead, Meetings
<1>5. fate[s] = "none" /\ s \notin twice
  BY <1>1, <1>3, <1>4
<1>6. ASSUME fate'[s] = "tied" PROVE position'[s] = held[s]
  <2>1. position'[s] = walk[s].previous
    BY <1>1, <1>3, <1>4, <1>6 DEF Beaten, Prevailed
  <2> QED BY <1>5, <2>1 DEF Ahead, StepTaken
<1>7. ASSUME fate'[s] = "lost"
      PROVE  Within(c.node, position'[s], IF Evasive(s) THEN 2 ELSE 1)
  <2>1. walk'[s].path \in Pushbacks(c, s) /\ position'[s] = Last(walk'[s].path)
    BY <1>1, <1>3, <1>4, <1>7 DEF Beaten, Prevailed
  <2>2. Connected(PathInFight(c, s))
    BY <1>1, <1>5, PathsConnected
  <2> QED BY <1>1, <2>1, <2>2, PushbackFalls
<1> QED BY <1>6, <1>7

\* A blind step goes back to where its seat was thrown out only when there is
\* no other way.
LEMMA WayStep ==
  ASSUME IInv, Ahead, Next, NEW s \in Seats, phase = "move", pending = {}, fled[s] # 0,
         position'[s] # position[s], position'[s] = fled[s]
  PROVE  Open(position[s]) = {fled[s]}
<1>1. Advance
  BY DEF Next, Validate, StartMoving, Fight, EndMovement
<1>2. position'[s] \in Targets(s, step + 1)
  BY <1>1, SeatAdvances
<1>3. step \in Nat /\ Len(order[s].route) \in Nat /\ order[s].push \in Nat
  BY DEF IInv, TypeOK
<1>4. Len(order[s].route) <= step /\ (walk[s].previous = fled[s] \/ Open(position[s]) = {} \/ End(s) <= step)
  BY DEF Ahead, WayBack
<1>5. step + 1 > Len(order[s].route) /\ End(s) \in Nat
  BY <1>3, <1>4 DEF End
<1>6. step + 1 <= End(s)
  <2>1. step + 1 > End(s) => position'[s] = position[s]
    BY <1>2, <1>5, TargetsAhead DEF IInv
  <2> QED BY <1>3, <1>5, <2>1
<1>7. position'[s] \in PushOnCandidates(position[s], walk[s].previous)
  BY <1>2, <1>5, <1>6, TargetsAhead DEF IInv
<1>8. position'[s] \in Open(position[s])
  BY <1>7 DEF PushOnCandidates
<1>9. walk[s].previous = fled[s]
  BY <1>3, <1>4, <1>5, <1>6, <1>8
<1> QED BY <1>7, <1>8, <1>9 DEF PushOnCandidates

-------------------------------------------------------------------------------
(* The theorems.                                                             *)

\* The inductive invariant: shapes, walks that end where their seats stand,
\* and nothing unknown on a walk or ahead in a fight.
THEOREM IInvHolds == Spec => []IInv
BY InitKeeps, StepKeeps, PTL DEF Spec

\* Positions, orders and walks keep their shape; no walk is ever empty.
THEOREM TypeCorrect == Spec => []TypeOK
<1>1. IInv => TypeOK
  BY DEF IInv
<1> QED BY <1>1, IInvHolds, PTL

\* A seat's path ends where it stands and repeats no node at once, whatever
\* crossings, pushbacks and ties did to it.
THEOREM WalksEndHere == Spec => []PathEndsHere
<1>1. IInv => PathEndsHere
  BY DEF IInv
<1> QED BY <1>1, IInvHolds, PTL

\* Nobody ever stands on a node that is not Known to it.
THEOREM NobodyLost == Spec => []StandsOnKnown
BY StandsKnown, IInvHolds, PTL

\* Both invariants hold throughout.
LEMMA AheadHolds == Spec => [](IInv /\ Ahead)
<1>1. Init => IInv /\ Ahead
  BY InitKeeps, AheadInit
<1>2. IInv /\ Ahead /\ [Next]_vars => (IInv /\ Ahead)'
  BY StepKeeps, AheadStep
<1> QED BY <1>1, <1>2, PTL DEF Spec

\* The order a seat is left with describes the walk it is on: its route leads
\* on, its action is where it was declared, and no meeting was skipped.
THEOREM OrdersFit == Spec => []OrdersFitWalks
BY FitFollows, AheadHolds, PTL

\* The step at which a plan runs out never moves, except to nothing when it
\* has come or when gas takes the order.
THEOREM PlansKeepTime == Spec => ClockKept
<1>1. IInv /\ Ahead /\ [Next]_vars =>
        [\A s \in Seats : phase = "move" /\ End(s)' # End(s) =>
           End(s)' = 0 /\ (End(s) <= step' \/ weather.gas # {})]_vars
  BY ClockStep
<1> QED BY <1>1, AheadHolds, PTL DEF Spec, ClockKept

\* Who loses is sent where the rules say, and does not walk blindly back.
THEOREM ThrownOut == Spec => ThrownOutAsRuled
<1>1. IInv /\ Ahead /\ [Next]_vars =>
        [\A s \in Seats : \A c \in FightsOf(s) : s \notin twice' =>
           /\ fate'[s] = "tied" => position'[s] = held[s]
           /\ fate'[s] = "lost" => Within(c.node, position'[s], IF Evasive(s) THEN 2 ELSE 1)]_vars
  BY FallStep
<1>2. IInv /\ Ahead /\ [Next]_vars =>
        [\A s \in Seats : phase = "move" /\ pending = {} /\ fled[s] # 0 /\ position'[s] # position[s]
           /\ position'[s] = fled[s] => Open(position[s]) = {fled[s]}]_vars
  BY WayStep
<1>3. Spec => FallsBackAsRuled
  BY <1>1, AheadHolds, PTL DEF Spec, FallsBackAsRuled
<1>4. Spec => NoWayBackIn
  BY <1>2, AheadHolds, PTL DEF Spec, NoWayBackIn
<1> QED BY <1>3, <1>4, PTL DEF ThrownOutAsRuled
===============================================================================
