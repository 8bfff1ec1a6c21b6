----------------------------- MODULE LeasesProofs -----------------------------
(***************************************************************************)
(* What holds of Leases for every table size, map, price list and number   *)
(* of rounds: the ranges, the agreement of the two lease records, the post *)
(* cap, the life of a lease, the flag a Debt leaves and what it may cost.  *)
(***************************************************************************)
EXTENDS Leases, FiniteSetTheorems, TLAPS

\* A seat's flag and the history of Debt move together in every phase; at the
\* order phase that is FlagMatchesDebt.
FlagsTrackDebt == \A s \in Seats : flagged[s] <=> s \in indebted

\* The invariant, by what it is about: the two lease records and the cap, the
\* money and the ladder, the flags, and the course of the round.
LeaseBooks ==
  /\ post \in [Nodes -> Post \cup {NoPost}]
  /\ posts \in [Seats -> SUBSET Nodes]
  /\ PostsAgree /\ CapRespected

MoneyBooks == balance \in [Seats -> Nat] /\ infamy \in [Seats -> 0 .. MaxInfamy]

FlagBooks ==
  flagged \in [Seats -> BOOLEAN] /\ indebted \subseteq Seats /\ FlagsTrackDebt

ClockType ==
  /\ round \in 0 .. Rounds /\ phase \in Phases /\ queue \in Seq(Seats)
  /\ card \in Cards \cup {"none"} /\ levy \in Levies \cup {0}
  /\ entry \in [Seats -> Nat] /\ staking \subseteq Seats
  /\ eve \in [Nodes -> Post \cup {NoPost}]
  /\ dues \in [Seats -> Nat] /\ lapsed \in [Seats -> 0 .. 2]

IInv == LeaseBooks /\ MoneyBooks /\ FlagBooks /\ ClockType /\ LeasesLive

\* The invariant says all the type invariant says.
LEMMA IInvShapes == IInv => TypeOK
BY DEF IInv, LeaseBooks, MoneyBooks, FlagBooks, ClockType, TypeOK

-------------------------------------------------------------------------------
(* Lemmas about the helpers.                                                 *)

\* ApplyInfamyDelta always lands on the ladder.
LEMMA InfamyOnLadder ==
  ASSUME NEW i \in 0 .. MaxInfamy, NEW d \in Int
  PROVE  InfamyPlus(i, d) \in 0 .. MaxInfamy
BY ShapeAssumption DEF InfamyPlus, Least

\* A lease that is extended keeps to the ceiling.
LEMMA RenewalUnderCeiling ==
  ASSUME NEW c \in Int, NEW b \in Nat
  PROVE  /\ RenewedRoundsRemaining(c, b) \in Int
         /\ RenewedRoundsRemaining(c, b) <= Ceiling
<1>1. Ceiling \in Nat /\ b * BlockRounds \in Nat
  BY AmountAssumption DEF Ceiling
<1> QED BY <1>1 DEF RenewedRoundsRemaining, Least

\* Debt pays out of the purse it finds: never more, and never below zero.
LEMMA PaidFromPurse ==
  ASSUME MoneyBooks, NEW s \in Seats, NEW owed \in Nat
  PROVE  Paid(s, owed) \in Nat /\ balance[s] - Paid(s, owed) \in Nat
BY DEF Paid, Least, MoneyBooks

\* The lease Debt picks is one of the seat's own, and there is at most one.
LEMMA WeakestIsOwn ==
  ASSUME LeaseBooks, NEW s \in Seats
  PROVE  /\ Weakest(s) \subseteq posts[s]
         /\ \A n, m \in Weakest(s) : n = m
<1>1. posts[s] \subseteq Nodes /\ Nodes \subseteq Nat
  BY ShapeAssumption DEF LeaseBooks
<1>2. \A n \in posts[s] : post[n].rounds \in Int
  <2> SUFFICES ASSUME NEW n \in posts[s] PROVE post[n].rounds \in Int
    OBVIOUS
  <2>1. post[n] \in Post \cup {NoPost}
    BY <1>1 DEF LeaseBooks
  <2> QED BY <2>1 DEF Post, NoPost
<1>3. Weakest(s) \subseteq posts[s]
  BY DEF Weakest
<1>4. ASSUME NEW n \in Weakest(s), NEW m \in Weakest(s) PROVE n = m
  <2>1. n \in Nat /\ m \in Nat /\ n \in posts[s] /\ m \in posts[s]
    BY <1>1, <1>3
  <2>2. post[n].rounds \in Int /\ post[m].rounds \in Int
    BY <1>2, <2>1
  <2> QED BY <1>4, <2>1, <2>2 DEF Weakest
<1> QED BY <1>3, <1>4

\* A charge closes leases of the seat it is made to, and of nobody else.
LEMMA SurrenderedIsOwn ==
  ASSUME LeaseBooks, NEW s \in Seats, NEW owed \in Nat
  PROVE  Surrendered(s, owed) \subseteq posts[s]
BY WeakestIsOwn DEF Surrendered

\* A set of posts stays within the cap when it shrinks.
LEMMA FewerPosts ==
  ASSUME NEW A \in SUBSET Nodes, NEW B \in SUBSET A,
         Cardinality(A) <= PostCap
  PROVE  Cardinality(B) <= PostCap
<1>1. IsFiniteSet(A)
  BY ShapeAssumption, FS_Subset
<1>2. Cardinality(B) <= Cardinality(A) /\ IsFiniteSet(B)
  BY <1>1, FS_Subset
<1>3. Cardinality(A) \in Nat /\ Cardinality(B) \in Nat /\ PostCap \in Nat
  BY <1>1, <1>2, FS_CardinalityType, ShapeAssumption
<1> QED BY <1>2, <1>3

-------------------------------------------------------------------------------
(* What one charge, stake or renewal does to each part of the books.         *)

\* Closing some leases of one seat on both records keeps them in agreement,
\* whatever it does to the rounds of the others.
LEMMA SurrenderKeepsLeases ==
  ASSUME LeaseBooks, NEW s \in Seats, NEW gone \in SUBSET posts[s],
         post' \in [Nodes -> Post \cup {NoPost}],
         posts' = [posts EXCEPT ![s] = @ \ gone],
         \A n \in Nodes :
           post'[n].owner = IF n \in gone THEN -1 ELSE post[n].owner
  PROVE  LeaseBooks'
<1>1. posts' \in [Seats -> SUBSET Nodes]
  BY DEF LeaseBooks
<1>2. PostsAgree'
  <2> SUFFICES ASSUME NEW t \in Seats
               PROVE  posts'[t] = {n \in Nodes : post'[n].owner = t}
    BY DEF PostsAgree
  <2>1. posts[t] = {n \in Nodes : post[n].owner = t} /\ t # -1
    BY ShapeAssumption DEF LeaseBooks, PostsAgree, Seats
  <2>2. \A n \in gone : post[n].owner = s
    BY DEF LeaseBooks, PostsAgree
  <2> QED BY <2>1, <2>2 DEF LeaseBooks
<1>3. CapRespected'
  <2> SUFFICES ASSUME NEW t \in Seats PROVE Cardinality(posts'[t]) <= PostCap
    BY DEF CapRespected
  <2>1. posts[t] \in SUBSET Nodes /\ posts'[t] \in SUBSET posts[t]
    BY DEF LeaseBooks
  <2>2. Cardinality(posts[t]) <= PostCap
    BY DEF LeaseBooks, CapRespected
  <2> QED BY <2>1, <2>2, FewerPosts
<1> QED BY <1>1, <1>2, <1>3 DEF LeaseBooks

\* Flag records a Debt on both the flag and the history.
LEMMA FlagKeepsFlags ==
  ASSUME FlagBooks, NEW s \in Seats, NEW owed \in Nat, Flag(s, owed)
  PROVE  FlagBooks'
<1> DEFINE broke == Broke(s, owed)
<1>1. broke \in BOOLEAN
  BY DEF Broke
<1>2. /\ flagged'  = [flagged EXCEPT ![s] = @ \/ broke]
      /\ indebted' = IF broke THEN indebted \cup {s} ELSE indebted
  BY DEF Flag
<1> HIDE DEF broke
<1>3. flagged' \in [Seats -> BOOLEAN] /\ indebted' \subseteq Seats
  BY <1>1, <1>2 DEF FlagBooks
<1>4. FlagsTrackDebt'
  BY <1>1, <1>2 DEF FlagBooks, FlagsTrackDebt
<1> QED BY <1>3, <1>4 DEF FlagBooks

\* applyDebt keeps the whole of the books.
LEMMA DebtKeepsBooks ==
  ASSUME LeaseBooks, MoneyBooks, FlagBooks,
         NEW s \in Seats, NEW owed \in Nat, NEW income \in Nat, NEW delta \in Int,
         ApplyDebt(s, owed, income, delta)
  PROVE  LeaseBooks' /\ MoneyBooks' /\ FlagBooks'
<1>1. Surrendered(s, owed) \in SUBSET posts[s] /\ posts[s] \subseteq Nodes
  BY SurrenderedIsOwn DEF LeaseBooks
<1>2. LeaseBooks'
  <2>1. post' = NodesAfter(s, owed)
    BY DEF ApplyDebt
  <2>2. post' \in [Nodes -> Post \cup {NoPost}]
    BY <2>1 DEF NodesAfter, LeaseBooks
  <2>3. posts' = [posts EXCEPT ![s] = @ \ Surrendered(s, owed)]
    BY DEF ApplyDebt, PostsAfter
  <2>4. \A n \in Nodes : post'[n].owner =
          IF n \in Surrendered(s, owed) THEN -1 ELSE post[n].owner
    BY <2>1 DEF NodesAfter, NoPost
  <2> QED BY <1>1, <2>2, <2>3, <2>4, SurrenderKeepsLeases
<1>3. MoneyBooks'
  <2>1. balance[s] - Paid(s, owed) + income \in Nat
    BY PaidFromPurse
  <2>2. infamy[s] \in 0 .. MaxInfamy
    BY DEF MoneyBooks
  <2>3. InfamyAfter(s, owed) \in 0 .. MaxInfamy
    BY <2>2, InfamyOnLadder DEF InfamyAfter
  <2>4. InfamyPlus(InfamyAfter(s, owed), delta) \in 0 .. MaxInfamy
    BY <2>3, InfamyOnLadder
  <2> QED BY <2>1, <2>4 DEF ApplyDebt, MoneyBooks
<1>4. FlagBooks'
  BY FlagKeepsFlags DEF ApplyDebt
<1> QED BY <1>2, <1>3, <1>4

\* A stake: the cost may close one lease of the seat, and the new one fits the
\* cap because the seat was under it when the action began.
LEMMA StakeKeepsLeases ==
  ASSUME LeaseBooks, NEW s \in Seats, NEW n \in Nodes, NEW gone \in SUBSET posts[s],
         NEW r \in Int, r <= Ceiling,
         Cardinality(posts[s]) < PostCap, post[n] = NoPost,
         posts' = [posts EXCEPT ![s] = (@ \ gone) \cup {n}],
         post' = [m \in Nodes |-> IF m = n THEN [owner |-> s, rounds |-> r]
                                  ELSE IF m \in gone THEN NoPost ELSE post[m]]
  PROVE  LeaseBooks'
<1>1. post' \in [Nodes -> Post \cup {NoPost}]
  BY DEF LeaseBooks, Post
<1>2. posts' \in [Seats -> SUBSET Nodes]
  BY DEF LeaseBooks
<1>3. PostsAgree'
  <2> SUFFICES ASSUME NEW t \in Seats
               PROVE  posts'[t] = {m \in Nodes : post'[m].owner = t}
    BY DEF PostsAgree
  <2>1. posts[t] = {m \in Nodes : post[m].owner = t} /\ t # -1
    BY ShapeAssumption DEF LeaseBooks, PostsAgree, Seats
  <2>2. /\ \A m \in gone : post[m].owner = s
        /\ post[n].owner = -1
    BY DEF LeaseBooks, PostsAgree, NoPost
  <2> QED BY <2>1, <2>2 DEF LeaseBooks, NoPost
<1>4. CapRespected'
  <2> SUFFICES ASSUME NEW t \in Seats PROVE Cardinality(posts'[t]) <= PostCap
    BY DEF CapRespected
  <2>1. posts[t] \in SUBSET Nodes /\ Cardinality(posts[t]) <= PostCap
    BY DEF LeaseBooks, CapRespected
  <2>2. CASE t # s
    BY <2>1, <2>2 DEF LeaseBooks
  <2>3. CASE t = s
    <3>1. IsFiniteSet(posts[s])
      BY <2>1, <2>3, ShapeAssumption, FS_Subset
    <3>2. Cardinality(posts[s] \cup {n}) <= PostCap
      <4>1. Cardinality(posts[s] \cup {n}) \in
              {Cardinality(posts[s]), Cardinality(posts[s]) + 1}
        BY <3>1, FS_AddElement
      <4>2. Cardinality(posts[s]) \in Nat /\ PostCap \in Nat
        BY <3>1, FS_CardinalityType, ShapeAssumption
      <4> QED BY <4>1, <4>2
    <3>3. posts'[s] \in SUBSET (posts[s] \cup {n})
      BY DEF LeaseBooks
    <3>4. posts[s] \cup {n} \in SUBSET Nodes
      BY <2>1, <2>3
    <3> QED BY <2>3, <3>2, <3>3, <3>4, FewerPosts
  <2> QED BY <2>2, <2>3
<1> QED BY <1>1, <1>2, <1>3, <1>4 DEF LeaseBooks

\* A lease costs a natural number, discounted or not.
LEMMA LeaseCostIsNat ==
  ASSUME NEW blocks \in Nat
  PROVE  LeaseCost(blocks) \in Nat
BY AmountAssumption DEF LeaseCost

\* The books through the whole of resolveStakePost.
LEMMA StakeKeepsBooks ==
  ASSUME LeaseBooks, MoneyBooks, FlagBooks, NEW s \in Seats, StakePost(s)
  PROVE  LeaseBooks' /\ MoneyBooks' /\ FlagBooks'
<1>1. PICK n \in Nodes, blocks \in 0 .. MaxDeclared :
        LET owed == LeaseCost(blocks)
            held == posts[s] \ Surrendered(s, owed)
            gain == IF FirstPostInSector(held, n) THEN 1 ELSE 0
        IN \/ post[n] # NoPost /\ UNCHANGED books
           \/ /\ post[n] = NoPost
              /\ balance' = [balance EXCEPT ![s] = @ - Paid(s, owed)]
              /\ post' = [NodesAfter(s, owed) EXCEPT
                     ![n] = [owner  |-> s,
                             rounds |-> RenewedRoundsRemaining(0, blocks)]]
              /\ posts' = [posts EXCEPT ![s] = held \cup {n}]
              /\ infamy' = [infamy EXCEPT ![s] =
                                 InfamyPlus(InfamyAfter(s, owed), gain)]
              /\ Flag(s, owed)
  BY DEF StakePost
<1> DEFINE owed == LeaseCost(blocks)
           gone == Surrendered(s, owed)
           gain == IF FirstPostInSector(posts[s] \ gone, n) THEN 1 ELSE 0
           r    == RenewedRoundsRemaining(0, blocks)
<1>2. blocks \in Nat /\ owed \in Nat
  BY ShapeAssumption, LeaseCostIsNat
<1>3. CASE UNCHANGED books
  BY <1>3 DEF books, LeaseBooks, MoneyBooks, FlagBooks, PostsAgree,
     CapRespected, FlagsTrackDebt
<1>4. CASE /\ post[n] = NoPost
           /\ balance' = [balance EXCEPT ![s] = @ - Paid(s, owed)]
           /\ post' = [NodesAfter(s, owed) EXCEPT
                          ![n] = [owner |-> s, rounds |-> r]]
           /\ posts' = [posts EXCEPT ![s] = (posts[s] \ gone) \cup {n}]
           /\ infamy' = [infamy EXCEPT ![s] =
                              InfamyPlus(InfamyAfter(s, owed), gain)]
           /\ Flag(s, owed)
  <2>1. gone \in SUBSET posts[s]
    BY <1>2, SurrenderedIsOwn
  <2>2. r \in Int /\ r <= Ceiling
    BY <1>2, RenewalUnderCeiling
  <2>3. Cardinality(posts[s]) < PostCap
    <3>1. Cardinality(posts[s]) \in Nat
      BY ShapeAssumption, FS_Subset, FS_CardinalityType DEF LeaseBooks
    <3> QED BY <3>1, ShapeAssumption DEF StakePost, PostCapReached
  <2>4. LeaseBooks'
    <3>1. post' = [m \in Nodes |-> IF m = n THEN [owner |-> s, rounds |-> r]
                                   ELSE IF m \in gone THEN NoPost ELSE post[m]]
      BY <1>4 DEF NodesAfter
    <3>2. posts' = [posts EXCEPT ![s] = (@ \ gone) \cup {n}]
      BY <1>4
    <3>3. post[n] = NoPost
      BY <1>4
    <3> HIDE DEF gone, r
    <3> QED BY <2>1, <2>2, <2>3, <3>1, <3>2, <3>3, StakeKeepsLeases
  <2>5. MoneyBooks'
    <3>1. balance[s] - Paid(s, owed) \in Nat
      BY <1>2, PaidFromPurse
    <3>2. InfamyAfter(s, owed) \in 0 .. MaxInfamy
      BY InfamyOnLadder DEF InfamyAfter, MoneyBooks
    <3>3. InfamyPlus(InfamyAfter(s, owed), gain) \in 0 .. MaxInfamy
      BY <3>2, InfamyOnLadder
    <3> HIDE DEF owed, gain
    <3> QED BY <1>4, <3>1, <3>3 DEF MoneyBooks
  <2>6. FlagBooks'
    BY <1>2, <1>4, FlagKeepsFlags
  <2> QED BY <2>4, <2>5, <2>6
<1> QED BY <1>1, <1>3, <1>4

\* The books through resolveRenewal, out of any purse.
LEMMA RenewKeepsBooks ==
  ASSUME LeaseBooks, MoneyBooks, FlagBooks, NEW s \in Seats,
         NEW n \in posts[s], NEW blocks \in Nat, NEW purse \in Nat,
         Renew(s, n, blocks, purse)
  PROVE  LeaseBooks' /\ MoneyBooks' /\ FlagBooks'
<1> DEFINE owed  == LeaseCost(blocks)
           broke == owed > purse
           gone  == IF broke THEN Weakest(s) ELSE {}
<1>1. owed \in Nat /\ broke \in BOOLEAN
  BY LeaseCostIsNat
<1>2. /\ balance' = [balance EXCEPT ![s] = purse - Least(purse, owed)]
      /\ infamy'  = [infamy EXCEPT ![s] = InfamyPlus(@, IF broke THEN -1 ELSE 0)]
      /\ posts'   = [posts EXCEPT ![s] = @ \ gone]
      /\ post'    = [m \in Nodes |->
                       IF m \in gone THEN NoPost
                       ELSE IF m # n THEN post[m]
                       ELSE Extended(post[m], blocks)]
      /\ flagged' = [flagged EXCEPT ![s] = @ \/ broke]
      /\ indebted' = IF broke THEN indebted \cup {s} ELSE indebted
  BY DEF Renew
<1>3. gone \in SUBSET posts[s]
  BY WeakestIsOwn
<1> HIDE DEF gone, broke
<1>4. LeaseBooks'
  <2>1. \A m \in Nodes : post[m] \in Post \cup {NoPost}
    BY DEF LeaseBooks
  <2>2. \A m \in Nodes : post[m].rounds \in Int
    BY <2>1 DEF Post, NoPost
  <2>3. n \in Nodes /\ post[n] \in Post
    BY <2>1, ShapeAssumption DEF LeaseBooks, PostsAgree, NoPost, Seats
  <2>4. Extended(post[n], blocks) \in Post
    BY <2>2, <2>3, RenewalUnderCeiling DEF Extended, Post
  <2>5. post' \in [Nodes -> Post \cup {NoPost}]
    BY <1>2, <2>1, <2>4
  <2>6. \A m \in Nodes : post'[m].owner = IF m \in gone THEN -1 ELSE post[m].owner
    BY <1>2, <2>1 DEF Extended, NoPost
  <2> QED BY <1>2, <1>3, <2>5, <2>6, SurrenderKeepsLeases
<1>5. MoneyBooks'
  <2>1. purse - Least(purse, owed) \in Nat
    BY <1>1 DEF Least
  <2>2. infamy[s] \in 0 .. MaxInfamy
    BY DEF MoneyBooks
  <2>3. \A d \in {-1, 0} : InfamyPlus(infamy[s], d) \in 0 .. MaxInfamy
    BY <2>2, InfamyOnLadder, SMTT(20)
  <2> HIDE DEF owed
  <2> QED BY <1>2, <2>1, <2>3 DEF MoneyBooks
<1>6. FlagBooks'
  <2>1. flagged' \in [Seats -> BOOLEAN] /\ indebted' \subseteq Seats
    BY <1>1, <1>2 DEF FlagBooks
  <2>2. FlagsTrackDebt'
    BY <1>1, <1>2 DEF FlagBooks, FlagsTrackDebt
  <2> QED BY <2>1, <2>2 DEF FlagBooks
<1> QED BY <1>4, <1>5, <1>6

-------------------------------------------------------------------------------
(* The course of the round.                                                  *)

\* Seat order is a queue of seats, and so is the empty one.
LEMMA SeatOrder == BySeat \in Seq(Seats) /\ <<>> \in Seq(Seats)
BY ShapeAssumption DEF BySeat, Seats

\* Serving a seat moves to the phase named or stays, and keeps a queue of seats.
LEMMA ServeKeepsQueue ==
  ASSUME queue \in Seq(Seats), queue # <<>>, NEW next, NEW q \in Seq(Seats),
         Serve(next, q)
  PROVE  phase' \in {phase, next} /\ queue' \in Seq(Seats)
BY DEF Serve

\* A step that leaves all the books alone keeps what is said of them.
LEMMA SameBooks ==
  ASSUME LeaseBooks, MoneyBooks, FlagBooks, UNCHANGED books
  PROVE  LeaseBooks' /\ MoneyBooks' /\ FlagBooks'
BY DEF books, LeaseBooks, MoneyBooks, FlagBooks, PostsAgree, CapRespected,
   FlagsTrackDebt

\* A step that leaves both lease records alone keeps them in agreement.
LEMMA SameLeases ==
  ASSUME LeaseBooks, UNCHANGED <<post, posts>>
  PROVE  LeaseBooks'
BY DEF LeaseBooks, PostsAgree, CapRespected

\* A step that runs no Debt keeps the flags.
LEMMA SameFlags ==
  ASSUME FlagBooks, UNCHANGED <<flagged, indebted>>
  PROVE  FlagBooks'
BY DEF FlagBooks, FlagsTrackDebt

\* initial() satisfies the invariant.
LEMMA InitIInv == Init => IInv
<1> SUFFICES ASSUME Init PROVE IInv
  OBVIOUS
<1>1. LeaseBooks
  <2>1. \A s \in Seats : posts[s] = {} /\ s # -1
    BY ShapeAssumption DEF Init, Seats
  <2>2. PostsAgree
    BY <2>1 DEF Init, PostsAgree, NoPost
  <2>3. CapRespected
    BY <2>1, FS_EmptySet, ShapeAssumption DEF CapRespected
  <2> QED BY <2>2, <2>3 DEF Init, LeaseBooks
<1>2. MoneyBooks /\ FlagBooks
  BY ShapeAssumption, AmountAssumption DEF Init, MoneyBooks, FlagBooks, FlagsTrackDebt
<1>3. ClockType
  BY ShapeAssumption DEF Init, ClockType, Phases, Zero
<1>4. LeasesLive
  BY DEF Init, LeasesLive
<1> QED BY <1>1, <1>2, <1>3, <1>4 DEF IInv

\* Upkeep's lease step: the expired leases leave both records, and every lease
\* that stays has a round to run.
LEMMA UpkeepKeepsIInv ==
  ASSUME IInv, UpkeepLeases
  PROVE  IInv'
<1>1. \A n \in Nodes : post[n] \in Post \cup {NoPost}
  BY DEF IInv, LeaseBooks
<1>2. \A n \in Nodes : post'[n] =
        IF post[n] = NoPost \/ n \in Expired THEN NoPost ELSE Aged(post[n], 1)
  BY DEF UpkeepLeases
<1>3. \A n \in Nodes : post'[n] \in Post \cup {NoPost}
  <2> SUFFICES ASSUME NEW n \in Nodes, post[n] \in Post
               PROVE  Aged(post[n], 1) \in Post
    BY <1>1, <1>2
  <2> QED BY AmountAssumption DEF Aged, Post, Ceiling
<1>4. LeaseBooks'
  <2>1. post' \in [Nodes -> Post \cup {NoPost}]
    BY <1>3 DEF UpkeepLeases
  <2>2. posts' \in [Seats -> SUBSET Nodes]
    BY DEF UpkeepLeases, IInv, LeaseBooks
  <2>3. \A s \in Seats : posts'[s] \subseteq posts[s]
    BY DEF UpkeepLeases
  <2>4. CapRespected'
    <3> SUFFICES ASSUME NEW s \in Seats PROVE Cardinality(posts'[s]) <= PostCap
      BY DEF CapRespected
    <3>1. posts[s] \in SUBSET Nodes /\ Cardinality(posts[s]) <= PostCap
      BY DEF IInv, LeaseBooks, CapRespected
    <3> QED BY <2>3, <3>1, FewerPosts
  <2>5. PostsAgree'
    <3> SUFFICES ASSUME NEW s \in Seats
                 PROVE  posts'[s] = {n \in Nodes : post'[n].owner = s}
      BY DEF PostsAgree
    <3>1. posts[s] = {n \in Nodes : post[n].owner = s} /\ s # -1
      BY ShapeAssumption DEF IInv, LeaseBooks, PostsAgree, Seats
    <3>2. posts'[s] = posts[s] \ {n \in Expired : post[n].owner = s}
      BY DEF UpkeepLeases
    <3>3. \A n \in Nodes : post'[n].owner =
            IF post[n] = NoPost \/ n \in Expired THEN -1 ELSE post[n].owner
      <4> SUFFICES ASSUME NEW n \in Nodes
                   PROVE  post'[n].owner = IF post[n] = NoPost \/ n \in Expired
                                           THEN -1 ELSE post[n].owner
        OBVIOUS
      <4>1. CASE post[n] = NoPost \/ n \in Expired
        BY <1>2, <4>1 DEF NoPost
      <4>2. CASE ~(post[n] = NoPost \/ n \in Expired)
        <5>1. post'[n] = Aged(post[n], 1)
          BY <1>2, <4>2
        <5> QED BY <4>2, <5>1 DEF Aged
      <4> QED BY <4>1, <4>2
    <3> QED BY <3>1, <3>2, <3>3 DEF NoPost
  <2> QED BY <2>1, <2>2, <2>4, <2>5 DEF LeaseBooks
<1>5. MoneyBooks' /\ FlagBooks'
  BY SameFlags DEF IInv, UpkeepLeases, MoneyBooks
<1>6. ClockType'
  BY DEF IInv, UpkeepLeases, ClockType, Phases, Zero
<1>7. LeasesLive'
  <2> SUFFICES ASSUME NEW n \in Nodes, post'[n] # NoPost
               PROVE  post'[n].rounds >= 1
    BY DEF LeasesLive
  <2>1. /\ post[n] \in Post /\ post[n] # NoPost /\ n \notin Expired
        /\ post'[n] = Aged(post[n], 1)
    BY <1>1, <1>2
  <2>2. ~(post[n].rounds - 1 <= 0) /\ post[n].rounds \in Int
    BY <2>1 DEF Expired, Post
  <2> QED BY <2>1, <2>2 DEF Aged
<1> QED BY <1>4, <1>5, <1>6, <1>7 DEF IInv

\* Everything IInv says of the order phase is UpkeepLeases' to establish: no
\* other step that changes anything ends in it.
LEMMA Assemble ==
  ASSUME LeaseBooks', MoneyBooks', FlagBooks', ClockType', phase' # "orders"
  PROVE  IInv'
BY DEF IInv, LeasesLive

\* The movement loop moves money and Infamy and keeps both in range.
LEMMA MovementKeepsIInv ==
  ASSUME IInv, Movement
  PROVE  IInv'
<1> USE DEF IInv
<1>1. LeaseBooks' /\ FlagBooks'
  BY SameLeases, SameFlags DEF Movement
<1>2. MoneyBooks'
  <2>1. CASE UNCHANGED <<balance, infamy>>
    BY <2>1 DEF MoneyBooks
  <2>2. ASSUME NEW w \in Seats, NEW l \in Seats, NEW stake \in Stakes,
               NEW fee \in {0, ShakedownCost}, w # l,
               LET staked == Least(stake, balance[l])
                   shaken == Least(fee, balance[l] - staked)
               IN  balance' = [balance EXCEPT ![l] = @ - staked - shaken,
                                              ![w] = @ + (staked \div 2) + shaken],
               infamy' = [infamy EXCEPT ![l] = InfamyPlus(@, -1),
                                        ![w] = InfamyPlus(@, 2)]
        PROVE  MoneyBooks'
    <3> DEFINE staked == Least(stake, balance[l])
               shaken == Least(fee, balance[l] - staked)
    <3>1. balance[l] \in Nat /\ balance[w] \in Nat /\ stake \in Nat /\ fee \in Nat
      BY AmountAssumption DEF MoneyBooks
    <3>2. staked \in Nat /\ shaken \in Nat /\ balance[l] - staked - shaken \in Nat
      BY <3>1 DEF Least
    <3>3. balance[w] + (staked \div 2) + shaken \in Nat
      BY <3>1, <3>2
    <3>4. \A s \in Seats : infamy[s] \in 0 .. MaxInfamy
      BY DEF MoneyBooks
    <3>5. InfamyPlus(infamy[l], -1) \in 0 .. MaxInfamy
      BY <3>4, InfamyOnLadder
    <3>6. InfamyPlus(infamy[w], 2) \in 0 .. MaxInfamy
      BY <3>4, InfamyOnLadder
    <3>7. balance' = [balance EXCEPT ![l] = @ - staked - shaken,
                                     ![w] = @ + (staked \div 2) + shaken]
      BY <2>2
    <3> HIDE DEF staked, shaken
    <3>8. balance' \in [Seats -> Nat]
      BY <2>2, <3>2, <3>3, <3>7 DEF MoneyBooks
    <3>9. infamy' \in [Seats -> 0 .. MaxInfamy]
      BY <2>2, <3>5, <3>6 DEF MoneyBooks
    <3> QED BY <3>8, <3>9 DEF MoneyBooks
  <2>3. ASSUME NEW s \in Seats,
               balance' = [balance EXCEPT ![s] = @ + ScavengeCash], UNCHANGED infamy
        PROVE  MoneyBooks'
    BY <2>3, AmountAssumption DEF MoneyBooks
  <2> QED BY <2>1, <2>2, <2>3 DEF Movement
<1>3. ClockType' /\ phase' # "orders"
  <2>1. queue' \in Seq(Seats)
    BY ShapeAssumption DEF Movement
  <2> QED BY <2>1 DEF Movement, ClockType, Phases
<1> QED BY <1>1, <1>2, <1>3, Assemble

\* Actions, deliveries and add-ons keep the invariant, seat by seat.
LEMMA OrderStepsKeepIInv ==
  ASSUME IInv, NEW s \in Seats,
         StakePost(s) \/ OtherAction(s) \/ Deliver(s) \/ AddOns(s)
  PROVE  IInv'
<1> USE DEF IInv
<1>1. CASE StakePost(s)
  <2>1. LeaseBooks' /\ MoneyBooks' /\ FlagBooks'
    BY <1>1, StakeKeepsBooks
  <2>2. phase' \in {"actions", "deliveries"} /\ queue' \in Seq(Seats)
    BY <1>1, SeatOrder, ServeKeepsQueue DEF StakePost, Turn, Acted, ClockType
  <2>3. entry' \in [Seats -> Nat]
    <3>1. PICK blocks \in 0 .. MaxDeclared :
            /\ blocks * BlockCost <= entry[s]
            /\ entry' = [entry EXCEPT ![s] = @ - blocks * BlockCost]
      BY <1>1 DEF StakePost, LegalBlocks
    <3>2. entry \in [Seats -> Nat] /\ blocks * BlockCost \in Nat
      BY ShapeAssumption, AmountAssumption DEF ClockType
    <3>3. entry[s] - blocks * BlockCost \in Nat
      BY <3>1, <3>2
    <3> QED BY <3>1, <3>2, <3>3
  <2>4. ClockType' /\ phase' # "orders"
    BY <1>1, <2>2, <2>3 DEF StakePost, ClockType, Phases
  <2> QED BY <2>1, <2>4, Assemble
<1>2. CASE OtherAction(s)
  <2>1. LeaseBooks' /\ FlagBooks'
    BY <1>2, SameLeases, SameFlags DEF OtherAction
  <2>2. MoneyBooks'
    <3>1. CASE UNCHANGED <<balance, infamy>>
      BY <3>1 DEF MoneyBooks
    <3>2. ASSUME NEW price \in Prices, price <= balance[s],
                 balance' = [balance EXCEPT ![s] = @ - price], UNCHANGED infamy
          PROVE  MoneyBooks'
      <4>1. balance[s] - price \in Nat
        BY <3>2, AmountAssumption DEF MoneyBooks
      <4> QED BY <3>2, <4>1 DEF MoneyBooks
    <3>3. CASE infamy' = [infamy EXCEPT ![s] = InfamyPlus(@, -2)] /\ UNCHANGED balance
      <4>1. infamy[s] \in 0 .. MaxInfamy
        BY DEF MoneyBooks
      <4>2. InfamyPlus(infamy[s], -2) \in 0 .. MaxInfamy
        BY <4>1, InfamyOnLadder
      <4> QED BY <3>3, <4>2 DEF MoneyBooks
    <3> QED BY <1>2, <3>1, <3>2, <3>3 DEF OtherAction
  <2>3. phase' \in {"actions", "deliveries"} /\ queue' \in Seq(Seats)
    BY <1>2, SeatOrder, ServeKeepsQueue DEF OtherAction, Turn, Acted, ClockType
  <2>4. ClockType' /\ phase' # "orders"
    BY <1>2, <2>3 DEF OtherAction, ClockType, Phases
  <2> QED BY <2>1, <2>2, <2>4, Assemble
<1>3. CASE Deliver(s)
  <2>1. LeaseBooks' /\ MoneyBooks' /\ FlagBooks'
    <3>1. ASSUME NEW payment \in Payments, NEW gain \in 0 .. 2,
                 ApplyDebt(s, GateFee, payment, gain)
          PROVE  LeaseBooks' /\ MoneyBooks' /\ FlagBooks'
      <4>1. payment \in Nat /\ GateFee \in Nat /\ gain \in Int
        BY AmountAssumption
      <4> QED BY <3>1, <4>1, DebtKeepsBooks
    <3> QED BY <1>3, <3>1, SameBooks DEF Deliver
  <2>2. phase' \in {"deliveries", "addons"} /\ queue' \in Seq(Seats)
    BY <1>3, SeatOrder, ServeKeepsQueue DEF Deliver, Turn, ClockType
  <2>3. ClockType' /\ phase' # "orders"
    BY <1>3, <2>2 DEF Deliver, ClockType, Phases
  <2> QED BY <2>1, <2>3, Assemble
<1>4. CASE AddOns(s)
  <2>1. PICK ledger \in {0, LedgerCost} :
          LET purse == IF ledger <= balance[s] THEN balance[s] - ledger
                                               ELSE balance[s]
          IN \/ /\ balance' = [balance EXCEPT ![s] = purse]
                /\ UNCHANGED <<infamy, post, posts, flagged, indebted>>
             \/ \E n \in posts[s], blocks \in 1 .. MaxDeclared :
                  Renew(s, n, blocks, purse)
    BY <1>4 DEF AddOns
  <2> DEFINE purse == IF ledger <= balance[s] THEN balance[s] - ledger
                                              ELSE balance[s]
  <2>2. purse \in Nat
    BY AmountAssumption DEF MoneyBooks
  <2>3. LeaseBooks' /\ MoneyBooks' /\ FlagBooks'
    <3>1. CASE /\ balance' = [balance EXCEPT ![s] = purse]
               /\ UNCHANGED <<infamy, post, posts, flagged, indebted>>
      <4> HIDE DEF purse
      <4>1. LeaseBooks' /\ FlagBooks'
        BY <3>1, SameLeases, SameFlags
      <4>2. MoneyBooks'
        BY <2>2, <3>1 DEF MoneyBooks
      <4> QED BY <4>1, <4>2
    <3>2. ASSUME NEW n \in posts[s], NEW blocks \in 1 .. MaxDeclared,
                 Renew(s, n, blocks, purse)
          PROVE  LeaseBooks' /\ MoneyBooks' /\ FlagBooks'
      <4>1. blocks \in Nat
        BY ShapeAssumption
      <4> HIDE DEF purse
      <4> QED BY <2>2, <3>2, <4>1, RenewKeepsBooks
    <3> QED BY <2>1, <3>1, <3>2
  <2>4. phase' \in {"addons", "event"} /\ queue' \in Seq(Seats)
    BY <1>4, SeatOrder, ServeKeepsQueue DEF AddOns, Turn, ClockType
  <2>5. entry' \in [Seats -> Nat] /\ staking' \subseteq Seats
    BY <1>4 DEF AddOns, ClockType, Zero
  <2>6. ClockType' /\ phase' # "orders"
    BY <1>4, <2>4, <2>5 DEF AddOns, ClockType, Phases
  <2> QED BY <2>3, <2>6, Assemble
<1> QED BY <1>1, <1>2, <1>3, <1>4

\* The global cards keep the invariant.
LEMMA CardsKeepIInv ==
  ASSUME IInv,
         ShiftChange \/ CurrencySlide \/ NewBoss \/ Raid \/ OtherCard \/ PayrollDay
  PROVE  IInv'
<1> USE DEF IInv
<1>1. LeaseBooks' /\ FlagBooks'
  BY SameLeases, SameFlags DEF ShiftChange, CurrencySlide, NewBoss, Raid,
     OtherCard, PayrollDay, Played, books
<1>2. MoneyBooks'
  <2>1. \A s \in Seats : balance[s] \in Nat /\ infamy[s] \in 0 .. MaxInfamy
    BY DEF MoneyBooks
  <2>2. \A s \in Seats, d \in {-2, -1, 1} :
          InfamyPlus(infamy[s], d) \in 0 .. MaxInfamy
    BY <2>1, InfamyOnLadder
  <2>3. CASE ShiftChange
    BY <2>2, <2>3 DEF ShiftChange, MoneyBooks
  <2>4. CASE CurrencySlide
    <3>1. \A s \in Seats : balance[s] - (balance[s] \div 4) \in Nat
      BY <2>1
    <3> QED BY <2>4, <3>1 DEF CurrencySlide, MoneyBooks
  <2>5. CASE NewBoss
    <3>1. PICK s \in Seats :
            /\ balance' = [balance EXCEPT ![s] = @ + BossPayout]
            /\ infamy'  = [infamy EXCEPT ![s] = InfamyPlus(@, 1)]
      BY <2>5 DEF NewBoss
    <3>2. balance[s] + BossPayout \in Nat
      BY <2>1, AmountAssumption
    <3> QED BY <2>2, <3>1, <3>2 DEF MoneyBooks
  <2>6. CASE Raid
    BY <2>1, <2>2, <2>6 DEF Raid, MoneyBooks
  <2>7. CASE OtherCard \/ PayrollDay
    BY <2>7 DEF OtherCard, PayrollDay, books, MoneyBooks
  <2> QED BY <2>3, <2>4, <2>5, <2>6, <2>7
<1>3. ClockType' /\ phase' # "orders"
  BY SeatOrder DEF ShiftChange, CurrencySlide, NewBoss, Raid, OtherCard,
     PayrollDay, Played, ClockType, Phases
<1> QED BY <1>1, <1>2, <1>3, Assemble

\* An incident keeps the invariant; Torched ages leases and closes none.
LEMMA IncidentsKeepIInv ==
  ASSUME IInv, Torched \/ StartLevy \/ QuietIncident
  PROVE  IInv'
<1> USE DEF IInv
<1>1. CASE Torched
  <2>1. PICK sector :
          post' = [n \in Nodes |->
                     IF SectorOf[n] = sector /\ post[n] # NoPost
                     THEN Aged(post[n], TorchedRounds) ELSE post[n]]
    BY <1>1 DEF Torched
  <2>2. \A n \in Nodes : post[n] \in Post => Aged(post[n], TorchedRounds) \in Post
    BY AmountAssumption DEF Aged, Post, Ceiling
  <2>3. post' \in [Nodes -> Post \cup {NoPost}]
    BY <2>1, <2>2 DEF LeaseBooks
  <2>4. 0 \in Seats /\ {} \in SUBSET posts[0]
    BY ShapeAssumption DEF Seats
  <2>5. posts' = [posts EXCEPT ![0] = @ \ {}]
    BY <1>1 DEF Torched, LeaseBooks
  <2>6. \A n \in Nodes : post'[n].owner = IF n \in {} THEN -1 ELSE post[n].owner
    BY <2>1 DEF Aged
  <2>7. LeaseBooks'
    BY <2>3, <2>4, <2>5, <2>6, SurrenderKeepsLeases
  <2>8. MoneyBooks' /\ FlagBooks'
    BY <1>1, SameFlags DEF Torched, MoneyBooks
  <2>9. ClockType' /\ phase' # "orders"
    BY <1>1, SeatOrder DEF Torched, ClockType, Phases
  <2> QED BY <2>7, <2>8, <2>9, Assemble
<1>2. CASE StartLevy \/ QuietIncident
  <2>1. LeaseBooks' /\ MoneyBooks' /\ FlagBooks'
    BY <1>2, SameBooks DEF StartLevy, QuietIncident
  <2>2. ClockType' /\ phase' # "orders"
    BY <1>2, SeatOrder DEF StartLevy, QuietIncident, ClockType, Phases
  <2> QED BY <2>1, <2>2, Assemble
<1> QED BY <1>1, <1>2

\* Payroll, levies, Pressure and expired contracts keep the invariant: each is one Debt.
LEMMA ChargesKeepIInv ==
  ASSUME IInv, NEW s \in Seats,
         \/ Payroll(s) \/ Levy(s) \/ Pressure(s)
         \/ ExpireContract(s) \/ ContractsDone(s)
  PROVE  IInv'
<1> USE DEF IInv
<1>1. CASE Payroll(s)
  <2>1. Cardinality(posts[s]) \in Nat
    BY ShapeAssumption, FS_Subset, FS_CardinalityType DEF LeaseBooks
  <2>2. LeaseBooks' /\ MoneyBooks' /\ FlagBooks'
    BY <1>1, <2>1, DebtKeepsBooks DEF Payroll
  <2>3. phase' \in {"payroll", "incident"} /\ queue' \in Seq(Seats)
    BY <1>1, SeatOrder, ServeKeepsQueue DEF Payroll, Turn, ClockType
  <2>4. ClockType' /\ phase' # "orders"
    BY <1>1, <2>3 DEF Payroll, ClockType, Phases
  <2> QED BY <2>2, <2>4, Assemble
<1>2. CASE Levy(s)
  <2>1. levy \in Nat
    BY AmountAssumption DEF ClockType
  <2>2. ASSUME NEW loss \in {0, 1}, ApplyDebt(s, levy, 0, -loss)
        PROVE  LeaseBooks' /\ MoneyBooks' /\ FlagBooks'
    <3>1. -loss \in Int
      OBVIOUS
    <3> QED BY <2>1, <2>2, <3>1, DebtKeepsBooks
  <2>3. LeaseBooks' /\ MoneyBooks' /\ FlagBooks'
    BY <1>2, <2>2, SameBooks DEF Levy
  <2>4. phase' \in {"levy", "pressure"} /\ queue' \in Seq(Seats)
    BY <1>2, SeatOrder, ServeKeepsQueue DEF Levy, Turn, ClockType
  <2>5. ClockType' /\ phase' # "orders"
    BY <1>2, <2>4 DEF Levy, ClockType, Phases
  <2> QED BY <2>3, <2>5, Assemble
<1>3. CASE Pressure(s)
  <2>1. LeaseBooks' /\ MoneyBooks' /\ FlagBooks'
    BY <1>3, AmountAssumption, SameBooks, DebtKeepsBooks DEF Pressure
  <2>2. phase' \in {"pressure", "contracts"} /\ queue' \in Seq(Seats)
    BY <1>3, SeatOrder, ServeKeepsQueue DEF Pressure, Turn, ClockType
  <2>3. eve' \in [Nodes -> Post \cup {NoPost}]
    BY <1>3, <2>1 DEF Pressure, LeaseBooks, ClockType
  <2>4. ClockType' /\ phase' # "orders"
    BY <1>3, <2>2, <2>3 DEF Pressure, ClockType, Phases
  <2> QED BY <2>1, <2>4, Assemble
<1>4. CASE ExpireContract(s)
  <2>1. ASSUME NEW penalty \in Penalties, NEW loss \in {0, 2},
               ApplyDebt(s, penalty, 0, -loss)
        PROVE  LeaseBooks' /\ MoneyBooks' /\ FlagBooks'
    <3>1. penalty \in Nat /\ -loss \in Int
      BY AmountAssumption
    <3> QED BY <2>1, <3>1, DebtKeepsBooks
  <2>2. LeaseBooks' /\ MoneyBooks' /\ FlagBooks'
    BY <1>4, <2>1 DEF ExpireContract
  <2>3. dues' \in [Seats -> Nat]
    <3>1. dues \in [Seats -> Nat]
      BY DEF ClockType
    <3>2. dues' = dues \/ dues' = [dues EXCEPT ![s] = @ + 1]
      BY <1>4 DEF ExpireContract
    <3> QED BY <3>1, <3>2
  <2>4. lapsed' \in [Seats -> 0 .. 2]
    <3>1. lapsed \in [Seats -> 0 .. 2]
      BY DEF ClockType
    <3>2. lapsed[s] < 2 /\ lapsed' = [lapsed EXCEPT ![s] = @ + 1]
      BY <1>4 DEF ExpireContract
    <3> QED BY <3>1, <3>2
  <2>5. ClockType' /\ phase' # "orders"
    <3>1. phase = "contracts"
          /\ UNCHANGED <<round, phase, queue, card, levy, entry, staking, eve>>
      BY <1>4 DEF ExpireContract
    <3> QED BY <2>3, <2>4, <3>1 DEF ClockType
  <2> QED BY <2>2, <2>5, Assemble
<1>5. CASE ContractsDone(s)
  <2>1. LeaseBooks' /\ MoneyBooks' /\ FlagBooks'
    BY <1>5, SameBooks DEF ContractsDone
  <2>2. phase' \in {"contracts", "leases"} /\ queue' \in Seq(Seats)
    BY <1>5, SeatOrder, ServeKeepsQueue DEF ContractsDone, Turn, ClockType
  <2>3. ClockType' /\ phase' # "orders"
    BY <1>5, <2>2 DEF ContractsDone, ClockType, Phases
  <2> QED BY <2>1, <2>3, Assemble
<1> QED BY <1>1, <1>2, <1>3, <1>4, <1>5

\* Opening a round clears the flags and their history together.
LEMMA OpenRoundKeepsIInv ==
  ASSUME IInv, OpenRound
  PROVE  IInv'
<1> USE DEF IInv
<1>1. LeaseBooks' /\ MoneyBooks'
  BY SameLeases DEF OpenRound, MoneyBooks
<1>2. FlagBooks'
  BY DEF OpenRound, FlagBooks, FlagsTrackDebt
<1>3. ClockType' /\ phase' # "orders"
  BY ShapeAssumption DEF OpenRound, ClockType, Phases, MoneyBooks, Zero
<1> QED BY <1>1, <1>2, <1>3, Assemble

\* A step that changes nothing keeps the invariant.
LEMMA StutterKeepsIInv ==
  ASSUME IInv, UNCHANGED vars
  PROVE  IInv'
<1>1. LeaseBooks' /\ MoneyBooks' /\ FlagBooks'
  BY SameBooks DEF vars, IInv
<1>2. ClockType' /\ LeasesLive'
  BY DEF vars, books, IInv, ClockType, LeasesLive
<1> QED BY <1>1, <1>2 DEF IInv

\* Every step of Next, or a stutter, keeps the invariant.
LEMMA StepKeepsIInv == IInv /\ [Next]_vars => IInv'
<1> SUFFICES ASSUME IInv, [Next]_vars PROVE IInv'
  OBVIOUS
<1>1. CASE OpenRound
  BY <1>1, OpenRoundKeepsIInv
<1>2. CASE Movement
  BY <1>2, MovementKeepsIInv
<1>3. CASE ShiftChange \/ CurrencySlide \/ NewBoss \/ Raid \/ OtherCard \/ PayrollDay
  BY <1>3, CardsKeepIInv
<1>4. CASE Torched \/ StartLevy \/ QuietIncident
  BY <1>4, IncidentsKeepIInv
<1>5. CASE UpkeepLeases
  BY <1>5, UpkeepKeepsIInv
<1>6. CASE MatchOver \/ UNCHANGED vars
  BY <1>6, StutterKeepsIInv DEF MatchOver
<1>7. ASSUME NEW s \in Seats, SeatStep(s) PROVE IInv'
  BY <1>7, OrderStepsKeepIInv, ChargesKeepIInv DEF SeatStep
<1> QED BY <1>1, <1>2, <1>3, <1>4, <1>5, <1>6, <1>7 DEF Next

-------------------------------------------------------------------------------
(* The theorems.                                                             *)

\* The inductive invariant holds in every state a match can reach: the two
\* lease records agree and respect the cap, money and Infamy stay in range,
\* flags track Debt and no dead lease outlives upkeep.
THEOREM IInvHolds == Spec => []IInv
<1>1. Init => IInv
  BY InitIInv
<1>2. IInv /\ [Next]_vars => IInv'
  BY StepKeepsIInv
<1> QED BY <1>1, <1>2, PTL DEF Spec

\* Balances, Infamy, leases and every other piece of state stay in range.
THEOREM TypeCorrect == Spec => []TypeOK
<1>1. IInv => TypeOK
  BY IInvShapes
<1> QED BY <1>1, IInvHolds, PTL

\* The seat's list and the node's post never disagree, so leasePosts never
\* dereferences a nil post, for any number of seats, nodes and rounds.
THEOREM RecordsAgree == Spec => []PostsAgree
<1>1. IInv => PostsAgree
  BY DEF IInv, LeaseBooks
<1> QED BY <1>1, IInvHolds, PTL

\* No seat ever holds more posts than the cap of its table.
THEOREM CapHolds == Spec => []CapRespected
<1>1. IInv => CapRespected
  BY DEF IInv, LeaseBooks
<1> QED BY <1>1, IInvHolds, PTL

\* No lease survives a round's upkeep without a round left to run.
THEOREM LiveLeases == Spec => []LeasesLive
<1>1. IInv => LeasesLive
  BY DEF IInv
<1> QED BY <1>1, IInvHolds, PTL

\* Flagged says exactly whom Debt caught in the round just closed.
THEOREM FlagIsDebt == Spec => []FlagMatchesDebt
<1>1. IInv => FlagMatchesDebt
  BY DEF IInv, FlagBooks, FlagsTrackDebt, FlagMatchesDebt
<1> QED BY <1>1, IInvHolds, PTL

-------------------------------------------------------------------------------
(* What a Debt cascade may take.  It never costs a seat more than one lease, *)
(* always the one with fewest rounds, and upkeep charges contracts before it *)
(* lets leases lapse, so that a lease about to lapse pays for a Debt before  *)
(* a healthy one does.                                                       *)

\* The leases seat s had when upkeep opened and no longer holds.
LostSince(s) == {n \in Nodes : eve[n].owner = s} \ posts[s]

\* While upkeep charges contracts: a lost lease was paid for by a cascade of
\* its own and was no healthier than any that is left, and those are as upkeep
\* found them.
UpkeepSoFar(s) ==
  /\ Cardinality(LostSince(s)) <= dues[s]
  /\ \A n \in posts[s] : post[n] = eve[n]
  /\ \A n \in LostSince(s), m \in posts[s] : eve[n].rounds <= eve[m].rounds

InUpkeep == phase \in {"contracts", "leases"}

UInv ==
  /\ ~InUpkeep /\ phase # "orders" => dues = Zero
  /\ InUpkeep => \A s \in Seats : UpkeepSoFar(s)
  /\ UpkeepSparesHealthyLeases

-------------------------------------------------------------------------------
(* One cascade takes one lease.                                              *)

\* A set whose members are all equal has at most one.
LEMMA OneOrNone ==
  ASSUME NEW A, \A n, m \in A : n = m
  PROVE  IsFiniteSet(A) /\ Cardinality(A) <= 1 /\ (A # {} => Cardinality(A) = 1)
<1>1. CASE A = {}
  BY <1>1, FS_EmptySet
<1>2. CASE A # {}
  <2>1. PICK x \in A : A = {x}
    BY <1>2
  <2>2. IsFiniteSet({x}) /\ Cardinality({x}) = 1
    BY FS_Singleton
  <2> QED BY <2>1, <2>2
<1> QED BY <1>1, <1>2

\* The leases a seat lost can be counted.
LEMMA LostIsFinite ==
  ASSUME NEW s \in Seats
  PROVE  IsFiniteSet(LostSince(s)) /\ Cardinality(LostSince(s)) \in Nat
<1>1. LostSince(s) \subseteq Nodes
  BY DEF LostSince
<1> QED BY <1>1, ShapeAssumption, FS_Subset, FS_CardinalityType

\* The first step of upkeep finds every lease in place.
LEMMA PressureOpensUpkeep ==
  ASSUME IInv, IInv', UInv, NEW s \in Seats, Pressure(s)
  PROVE  UInv'
<1>1. CASE Len(queue) = 1
  <2>1. phase' = "contracts" /\ eve' = post' /\ dues' = dues /\ dues = Zero
    BY <1>1 DEF Pressure, Serve, Turn, UInv, InUpkeep
  <2>2. ASSUME NEW t \in Seats PROVE UpkeepSoFar(t)'
    <3>1. LostSince(t)' = {}
      BY <2>1 DEF LostSince, IInv, LeaseBooks, PostsAgree
    <3>2. Cardinality(LostSince(t)') = 0 /\ dues'[t] = 0
      BY <2>1, <3>1, FS_EmptySet DEF Zero
    <3> QED BY <2>1, <3>1, <3>2 DEF UpkeepSoFar
  <2> QED BY <2>1, <2>2 DEF UInv, InUpkeep, UpkeepSparesHealthyLeases
<1>2. CASE Len(queue) # 1
  <2>1. phase' = "pressure" /\ dues' = dues /\ dues = Zero
    BY <1>2 DEF Pressure, Serve, Turn, UInv, InUpkeep
  <2> QED BY <2>1 DEF UInv, InUpkeep, UpkeepSparesHealthyLeases
<1> QED BY <1>1, <1>2

\* An expired contract costs its seat at most the weakest of its leases, and
\* counts one cascade when it does.
LEMMA ExpiryKeepsUInv ==
  ASSUME IInv, UInv, NEW s \in Seats, ExpireContract(s)
  PROVE  UInv'
<1>1. PICK penalty \in Penalties, loss \in {0, 2} :
        /\ ApplyDebt(s, penalty, 0, -loss)
        /\ dues' = IF Broke(s, penalty) THEN [dues EXCEPT ![s] = @ + 1] ELSE dues
  BY DEF ExpireContract
<1> DEFINE gone == Surrendered(s, penalty)
<1>2. penalty \in Nat /\ LeaseBooks /\ dues \in [Seats -> Nat]
  BY AmountAssumption DEF IInv, ClockType
<1>3. gone \in SUBSET posts[s] /\ (\A n, m \in gone : n = m)
  BY <1>2, WeakestIsOwn DEF Surrendered
<1>4. \A n \in gone, m \in posts[s] : post[n].rounds <= post[m].rounds
  <2>1. \A n \in posts[s] : post[n].rounds \in Int
    BY <1>2 DEF LeaseBooks, Post, NoPost
  <2> QED BY <1>3, <2>1 DEF Surrendered, Weakest
<1>5. /\ posts' = [posts EXCEPT ![s] = @ \ gone]
      /\ post' = [n \in Nodes |-> IF n \in gone THEN NoPost ELSE post[n]]
      /\ eve' = eve /\ phase' = phase /\ phase = "contracts"
  BY <1>1 DEF ExpireContract, ApplyDebt, PostsAfter, NodesAfter
<1>6. gone # {} => dues'[s] = dues[s] + 1
  BY <1>1, <1>2 DEF Surrendered
<1>7. dues'[s] >= dues[s] /\ \A t \in Seats : t # s => dues'[t] = dues[t]
  BY <1>1, <1>2
<1>8. \A t \in Seats : UpkeepSoFar(t)
  BY <1>5 DEF UInv, InUpkeep
<1> HIDE DEF gone
<1>9. ASSUME NEW t \in Seats PROVE UpkeepSoFar(t)'
  <2>1. posts[t] \in SUBSET Nodes /\ posts[s] \in SUBSET Nodes
    BY <1>2 DEF LeaseBooks
  <2>2. posts[t] = {n \in Nodes : post[n].owner = t}
    BY <1>2 DEF LeaseBooks, PostsAgree
  <2>3. t # s => gone \cap posts[t] = {}
    BY <1>2, <1>3 DEF LeaseBooks, PostsAgree
  <2>4. posts'[t] \subseteq posts[t] /\ posts'[t] \cap gone = {}
    BY <1>2, <1>5, <2>3 DEF LeaseBooks
  <2>5. \A n \in posts'[t] : post'[n] = eve'[n]
    BY <1>5, <1>8, <2>1, <2>4 DEF UpkeepSoFar
  <2>6. CASE t # s
    <3>1. posts'[t] = posts[t] /\ LostSince(t)' = LostSince(t)
      BY <1>2, <1>5, <2>6 DEF LostSince, LeaseBooks
    <3> QED BY <1>5, <1>7, <1>8, <2>5, <2>6, <3>1 DEF UpkeepSoFar
  <2>7. CASE t = s
    <3>1. posts'[s] = posts[s] \ gone
      BY <1>2, <1>5 DEF LeaseBooks
    <3>2. \A n \in gone : n \in Nodes /\ post[n] = eve[n] /\ eve[n].owner = s
      BY <1>3, <1>8, <2>1, <2>2, <2>7 DEF UpkeepSoFar
    <3>3. LostSince(s)' = LostSince(s) \cup gone
      BY <1>5, <3>1, <3>2 DEF LostSince
    <3>4. \A n \in LostSince(s)', m \in posts'[s] : eve'[n].rounds <= eve'[m].rounds
      <4>1. ASSUME NEW n \in LostSince(s), NEW m \in posts'[s]
            PROVE  eve[n].rounds <= eve[m].rounds
        BY <1>8, <2>4, <2>7 DEF UpkeepSoFar
      <4>2. ASSUME NEW n \in gone, NEW m \in posts'[s]
            PROVE  eve[n].rounds <= eve[m].rounds
        <5>1. m \in posts[s] /\ post[m] = eve[m] /\ post[n] = eve[n]
          BY <1>8, <2>4, <2>7, <3>2 DEF UpkeepSoFar
        <5> QED BY <1>4, <5>1
      <4>3. eve' = eve
        BY <1>5
      <4>4. ASSUME NEW n \in LostSince(s)', NEW m \in posts'[s]
            PROVE  eve'[n].rounds <= eve'[m].rounds
        <5>1. CASE n \in LostSince(s)
          BY <4>1, <4>3, <5>1
        <5>2. CASE n \in gone
          BY <4>2, <4>3, <5>2
        <5> QED BY <3>3, <5>1, <5>2
      <4> QED BY <4>4
    <3>5. Cardinality(LostSince(s)') <= dues'[s]
      <4>1. Cardinality(LostSince(s)) <= dues[s] /\ dues[s] \in Nat /\ dues'[s] \in Int
        BY <1>1, <1>2, <1>8 DEF UpkeepSoFar
      <4>2. IsFiniteSet(LostSince(s)) /\ Cardinality(LostSince(s)) \in Nat
        BY LostIsFinite
      <4>3. CASE gone = {}
        BY <1>7, <3>3, <4>1, <4>2, <4>3
      <4>4. CASE gone # {}
        <5>1. PICK n \in gone : gone = {n}
          BY <1>3, <4>4
        <5>2. Cardinality(LostSince(s) \cup {n}) \in
                {Cardinality(LostSince(s)), Cardinality(LostSince(s)) + 1}
          BY <4>2, FS_AddElement
        <5> QED BY <1>6, <3>3, <4>1, <4>2, <4>4, <5>1, <5>2
      <4> QED BY <4>3, <4>4
    <3> QED BY <2>5, <2>7, <3>4, <3>5 DEF UpkeepSoFar
  <2> QED BY <2>6, <2>7
<1> QED BY <1>5, <1>9 DEF UInv, InUpkeep, UpkeepSparesHealthyLeases

\* A lease Debt took while it still had rounds to run leaves nothing behind it
\* that could lapse; and if none had, every lost lease was about to lapse.
LEMMA LapseKeepsUInv ==
  ASSUME IInv, UInv, UpkeepLeases
  PROVE  UInv'
<1>1. \A s \in Seats : UpkeepSoFar(s)
  BY DEF UpkeepLeases, UInv, InUpkeep
<1>2. /\ eve' = eve /\ dues' = dues /\ phase' = "orders"
      /\ \A s \in Seats : posts'[s] = posts[s] \ {n \in Expired : post[n].owner = s}
  BY DEF UpkeepLeases
<1>3. /\ eve \in [Nodes -> Post \cup {NoPost}]
      /\ \A s \in Seats : posts[s] = {n \in Nodes : post[n].owner = s}
  BY DEF IInv, ClockType, LeaseBooks, PostsAgree
<1>4. \A n \in Nodes : eve[n].rounds \in Int
  BY <1>3 DEF Post, NoPost
<1>5. ASSUME NEW s \in Seats
      PROVE  \/ \A n \in {m \in Nodes : eve[m].owner = s} \ posts'[s] :
                  eve[n].rounds <= 1
             \/ Cardinality({m \in Nodes : eve[m].owner = s} \ posts'[s]) <= dues[s]
  <2> DEFINE due  == {n \in Expired : post[n].owner = s}
             lost == {m \in Nodes : eve[m].owner = s} \ posts'[s]
  <2>1. due \subseteq posts[s] /\ \A n \in due : eve[n].rounds <= 1
    <3>1. due \subseteq posts[s]
      BY <1>3 DEF Expired
    <3>2. ASSUME NEW n \in due PROVE eve[n].rounds <= 1
      <4>1. post[n] = eve[n] /\ n \in Nodes
        BY <1>1, <1>3, <3>1 DEF UpkeepSoFar
      <4>2. post[n].rounds - 1 <= 0
        BY DEF Expired
      <4> QED BY <1>4, <4>1, <4>2
    <3> QED BY <3>1, <3>2
  <2>2. lost \subseteq LostSince(s) \cup due
    BY <1>2 DEF LostSince
  <2>3. CASE due = {}
    <3>1. lost = LostSince(s)
      BY <1>2, <2>3 DEF LostSince
    <3> QED BY <1>1, <3>1 DEF UpkeepSoFar
  <2>4. CASE due # {}
    <3>1. PICK m \in due : eve[m].rounds <= 1 /\ m \in posts[s] /\ m \in Nodes
      BY <1>3, <2>1, <2>4
    <3>2. ASSUME NEW n \in LostSince(s) PROVE eve[n].rounds <= 1
      <4>1. eve[n].rounds <= eve[m].rounds
        BY <1>1, <3>1 DEF UpkeepSoFar
      <4>2. n \in Nodes
        BY DEF LostSince
      <4> QED BY <1>4, <3>1, <4>1, <4>2
    <3> QED BY <2>1, <2>2, <3>2
  <2> QED BY <2>3, <2>4
<1>6. UpkeepSparesHealthyLeases'
  BY <1>2, <1>5 DEF UpkeepSparesHealthyLeases
<1> QED BY <1>2, <1>6 DEF UInv, InUpkeep

\* initial() satisfies the upkeep invariant.
LEMMA InitUInv == Init => UInv
<1> SUFFICES ASSUME Init PROVE UInv
  OBVIOUS
<1>1. \A s \in Seats : {n \in Nodes : eve[n].owner = s} = {}
  BY ShapeAssumption DEF Init, NoPost, Seats
<1>2. UpkeepSparesHealthyLeases
  BY <1>1 DEF UpkeepSparesHealthyLeases
<1> QED BY <1>2 DEF Init, UInv, InUpkeep

\* The steps of a round before upkeep touch neither the history of dues nor the
\* leases of a closed upkeep.
LEMMA BeforeUpkeepKeepsUInv ==
  ASSUME UInv, phase' \notin {"contracts", "leases", "orders"},
         phase \notin {"contracts", "leases", "orders"}, dues' = dues
  PROVE  UInv'
BY DEF UInv, InUpkeep, UpkeepSparesHealthyLeases

\* A step that leaves the leases and upkeep's history alone keeps it.
LEMMA SameUpkeep ==
  ASSUME UInv, UNCHANGED <<post, posts, eve, dues>>,
         \/ phase' = phase
         \/ phase = "contracts" /\ phase' = "leases"
  PROVE  UInv'
<1>1. \A s \in Seats : UpkeepSoFar(s) => UpkeepSoFar(s)'
  BY DEF UpkeepSoFar, LostSince
<1>2. UpkeepSparesHealthyLeases /\ phase' = "orders" => UpkeepSparesHealthyLeases'
  BY DEF UpkeepSparesHealthyLeases
<1>3. UpkeepSparesHealthyLeases'
  BY <1>2 DEF UInv, UpkeepSparesHealthyLeases
<1>4. InUpkeep' => InUpkeep
  BY DEF InUpkeep
<1>5. (~InUpkeep /\ phase # "orders")' => ~InUpkeep /\ phase # "orders"
  BY DEF InUpkeep
<1> QED BY <1>1, <1>3, <1>4, <1>5 DEF UInv

\* Every step of Next, or a stutter, keeps the upkeep invariant.
LEMMA StepKeepsUInv == IInv /\ IInv' /\ UInv /\ [Next]_vars => UInv'
<1> SUFFICES ASSUME IInv, IInv', UInv, [Next]_vars PROVE UInv'
  OBVIOUS
<1>1. CASE OpenRound
  BY <1>1 DEF OpenRound, UInv, InUpkeep, UpkeepSparesHealthyLeases
<1>2. CASE \/ Movement \/ ShiftChange \/ CurrencySlide \/ NewBoss \/ Raid
           \/ OtherCard \/ PayrollDay \/ Torched \/ StartLevy \/ QuietIncident
  BY <1>2, BeforeUpkeepKeepsUInv DEF Movement, ShiftChange, CurrencySlide, NewBoss,
     Raid, OtherCard, PayrollDay, Played, Torched, StartLevy, QuietIncident
<1>3. CASE UpkeepLeases
  BY <1>3, LapseKeepsUInv
<1>4. CASE MatchOver \/ UNCHANGED vars
  BY <1>4, SameUpkeep DEF MatchOver, vars, books
<1>5. ASSUME NEW s \in Seats, SeatStep(s) PROVE UInv'
  <2>1. CASE StakePost(s) \/ OtherAction(s) \/ Deliver(s) \/ AddOns(s)
             \/ Payroll(s) \/ Levy(s)
    BY <2>1, BeforeUpkeepKeepsUInv DEF StakePost, OtherAction, Deliver, AddOns,
       Payroll, Levy, Acted, Serve, Turn
  <2>2. CASE Pressure(s)
    BY <2>2, PressureOpensUpkeep
  <2>3. CASE ExpireContract(s)
    BY <2>3, ExpiryKeepsUInv
  <2>4. CASE ContractsDone(s)
    BY <2>4, SameUpkeep DEF ContractsDone, Serve, Turn, books
  <2> QED BY <1>5, <2>1, <2>2, <2>3, <2>4 DEF SeatStep
<1> QED BY <1>1, <1>2, <1>3, <1>4, <1>5 DEF Next

-------------------------------------------------------------------------------
(* The theorems.                                                             *)

\* Charging contracts before lapsing leases is what the order of upkeep is for:
\* a lease with rounds to run is lost to upkeep only where every lost lease was
\* paid for by a cascade of its own.
THEOREM UpkeepOrderSparesLeases == Spec => []UpkeepSparesHealthyLeases
<1>1. Init => UInv
  BY InitUInv
<1>2. IInv /\ IInv' /\ UInv /\ [Next]_vars => UInv'
  BY StepKeepsUInv
<1>3. UInv => UpkeepSparesHealthyLeases
  BY DEF UInv
<1> QED BY <1>1, <1>2, <1>3, IInvHolds, PTL DEF Spec

\* What LeaseLostOnlyToDebt asks of one seat in one step.
LossIsDebt(t) ==
  LET lost == posts[t] \ posts'[t]
  IN  lost = {} \/ phase = "leases"
      \/ /\ flagged'[t] /\ Cardinality(lost) = 1
         /\ \A n \in lost, m \in posts'[t] \cap posts[t] :
              post[n].rounds <= post[m].rounds

\* A seat that gives up a lease gives up its weakest, and is flagged for it.
LEMMA SurrenderIsDebt ==
  ASSUME IInv, NEW s \in Seats, NEW gone,
         gone = {} \/ (gone = Weakest(s) /\ flagged'[s]),
         \A t \in Seats \ {s} : posts[t] \subseteq posts'[t],
         posts[s] \ gone \subseteq posts'[s]
  PROVE  \A t \in Seats : LossIsDebt(t)
<1>1. \A t \in Seats \ {s} : LossIsDebt(t)
  BY DEF LossIsDebt
<1>2. LossIsDebt(s)
  <2> DEFINE lost == posts[s] \ posts'[s]
  <2>1. lost \subseteq gone
    OBVIOUS
  <2>2. CASE lost = {}
    BY <2>2 DEF LossIsDebt
  <2>3. CASE lost # {}
    <3>1. gone = Weakest(s) /\ flagged'[s]
      BY <2>1, <2>3
    <3>2. LeaseBooks
      BY DEF IInv
    <3>3. \A n, m \in lost : n = m
      BY <2>1, <3>1, <3>2, WeakestIsOwn
    <3>4. Cardinality(lost) = 1
      BY <2>3, <3>3, OneOrNone
    <3>5. \A n \in posts[s] : post[n].rounds \in Int
      BY <3>2 DEF LeaseBooks, Post, NoPost
    <3>6. \A n \in lost, m \in posts[s] : post[n].rounds <= post[m].rounds
      BY <2>1, <3>1, <3>5 DEF Weakest
    <3> QED BY <3>1, <3>4, <3>6 DEF LossIsDebt
  <2> QED BY <2>2, <2>3
<1> QED BY <1>1, <1>2

\* Steps that charge nobody, or only add a lease.
LEMMA ApplyDebtIsDebt ==
  ASSUME IInv, NEW s \in Seats, NEW owed \in Nat, NEW income, NEW delta,
         ApplyDebt(s, owed, income, delta)
  PROVE  \A t \in Seats : LossIsDebt(t)
<1> DEFINE gone == Surrendered(s, owed)
<1>1. /\ posts \in [Seats -> SUBSET Nodes] /\ flagged \in [Seats -> BOOLEAN]
      /\ LeaseBooks
  BY DEF IInv, LeaseBooks, FlagBooks
<1>2. posts' = [posts EXCEPT ![s] = @ \ gone]
  BY DEF ApplyDebt, PostsAfter
<1>3. gone = {} \/ (gone = Weakest(s) /\ flagged'[s])
  <2>1. CASE Broke(s, owed)
    <3>1. flagged' = [flagged EXCEPT ![s] = @ \/ Broke(s, owed)]
      BY DEF ApplyDebt, Flag
    <3>2. flagged'[s]
      BY <1>1, <2>1, <3>1
    <3> QED BY <2>1, <3>2 DEF Surrendered
  <2>2. CASE ~Broke(s, owed)
    BY <2>2 DEF Surrendered
  <2> QED BY <2>1, <2>2
<1> HIDE DEF gone
<1> QED BY <1>1, <1>2, <1>3, SurrenderIsDebt

\* A step that leaves Player.Posts alone loses no lease.
LEMMA SamePosts ==
  ASSUME posts' = posts
  PROVE  \A t \in Seats : LossIsDebt(t)
BY DEF LossIsDebt

\* A stake loses a lease only to the Debt of its own cost.
LEMMA StakeIsDebt ==
  ASSUME IInv, NEW s \in Seats, StakePost(s)
  PROVE  \A t \in Seats : LossIsDebt(t)
<1>1. PICK n \in Nodes, blocks \in 0 .. MaxDeclared :
        LET owed == LeaseCost(blocks)
            held == posts[s] \ Surrendered(s, owed)
        IN \/ UNCHANGED books
           \/ /\ posts' = [posts EXCEPT ![s] = held \cup {n}]
              /\ Flag(s, owed)
  BY DEF StakePost
<1> DEFINE owed == LeaseCost(blocks)
           gone == Surrendered(s, owed)
<1>2. CASE UNCHANGED books
  BY <1>2, SamePosts DEF books
<1>3. CASE posts' = [posts EXCEPT ![s] = (posts[s] \ gone) \cup {n}] /\ Flag(s, owed)
  <2>1. posts \in [Seats -> SUBSET Nodes] /\ flagged \in [Seats -> BOOLEAN]
    BY DEF IInv, LeaseBooks, FlagBooks
  <2>2. gone = {} \/ (gone = Weakest(s) /\ flagged'[s])
    <3>1. CASE Broke(s, owed)
      <4>1. flagged' = [flagged EXCEPT ![s] = @ \/ Broke(s, owed)]
        BY <1>3 DEF Flag
      <4>2. flagged'[s]
        BY <2>1, <3>1, <4>1
      <4> QED BY <3>1, <4>2 DEF Surrendered
    <3>2. CASE ~Broke(s, owed)
      BY <3>2 DEF Surrendered
    <3> QED BY <3>1, <3>2
  <2>3. /\ posts[s] \ gone \subseteq posts'[s]
        /\ \A t \in Seats \ {s} : posts[t] \subseteq posts'[t]
    BY <1>3, <2>1
  <2> HIDE DEF gone
  <2> QED BY <2>2, <2>3, SurrenderIsDebt
<1> QED BY <1>1, <1>2, <1>3

\* A renewal loses a lease only to the Debt of its own cost.
LEMMA AddOnsIsDebt ==
  ASSUME IInv, NEW s \in Seats, AddOns(s)
  PROVE  \A t \in Seats : LossIsDebt(t)
<1>1. posts \in [Seats -> SUBSET Nodes] /\ flagged \in [Seats -> BOOLEAN]
  BY DEF IInv, LeaseBooks, FlagBooks
<1>2. posts' = posts \/ \E purse, n, blocks : Renew(s, n, blocks, purse)
  BY DEF AddOns
<1>3. ASSUME NEW purse, NEW n, NEW blocks, Renew(s, n, blocks, purse)
      PROVE  \A t \in Seats : LossIsDebt(t)
  <2> DEFINE broke == LeaseCost(blocks) > purse
             gone  == IF broke THEN Weakest(s) ELSE {}
  <2>1. /\ posts'   = [posts EXCEPT ![s] = @ \ gone]
        /\ flagged' = [flagged EXCEPT ![s] = @ \/ broke]
    BY <1>3 DEF Renew
  <2>2. gone = {} \/ (gone = Weakest(s) /\ flagged'[s])
    <3>1. CASE broke
      <4>1. flagged'[s]
        BY <1>1, <2>1, <3>1
      <4> QED BY <3>1, <4>1
    <3>2. CASE ~broke
      BY <3>2
    <3> QED BY <3>1, <3>2
  <2> HIDE DEF gone
  <2>3. /\ posts[s] \ gone \subseteq posts'[s]
        /\ \A t \in Seats \ {s} : posts[t] \subseteq posts'[t]
    BY <1>1, <2>1
  <2> QED BY <2>2, <2>3, SurrenderIsDebt
<1> QED BY <1>2, <1>3, SamePosts

\* No step of Next loses a lease otherwise.
LEMMA StepLosesOnlyToDebt ==
  IInv /\ [Next]_vars => \A t \in Seats : LossIsDebt(t)
<1> SUFFICES ASSUME IInv, [Next]_vars PROVE \A t \in Seats : LossIsDebt(t)
  OBVIOUS
<1>1. CASE \/ OpenRound \/ Movement \/ ShiftChange \/ CurrencySlide \/ NewBoss
           \/ Raid \/ OtherCard \/ PayrollDay \/ Torched \/ StartLevy
           \/ QuietIncident \/ MatchOver \/ UNCHANGED vars
  BY <1>1, SamePosts DEF OpenRound, Movement, ShiftChange, CurrencySlide, NewBoss,
     Raid, OtherCard, PayrollDay, Played, Torched, StartLevy, QuietIncident,
     MatchOver, vars, books
<1>2. CASE UpkeepLeases
  BY <1>2 DEF UpkeepLeases, LossIsDebt
<1>3. ASSUME NEW s \in Seats, SeatStep(s) PROVE \A t \in Seats : LossIsDebt(t)
  <2>1. CASE OtherAction(s) \/ ContractsDone(s)
    BY <2>1, SamePosts DEF OtherAction, ContractsDone, books
  <2>2. CASE StakePost(s) \/ AddOns(s)
    BY <2>2, StakeIsDebt, AddOnsIsDebt
  <2>3. CASE Deliver(s)
    BY <2>3, AmountAssumption, ApplyDebtIsDebt, SamePosts DEF Deliver, books
  <2>4. CASE Payroll(s)
    <3>1. Cardinality(posts[s]) \in Nat
      BY ShapeAssumption, FS_Subset, FS_CardinalityType DEF IInv, LeaseBooks
    <3> QED BY <2>4, <3>1, ApplyDebtIsDebt DEF Payroll
  <2>5. CASE Levy(s)
    <3>1. levy \in Nat
      BY AmountAssumption DEF IInv, ClockType
    <3> QED BY <2>5, <3>1, ApplyDebtIsDebt, SamePosts DEF Levy, books
  <2>6. CASE Pressure(s)
    BY <2>6, AmountAssumption, ApplyDebtIsDebt, SamePosts DEF Pressure, books
  <2>7. CASE ExpireContract(s)
    BY <2>7, AmountAssumption, ApplyDebtIsDebt DEF ExpireContract
  <2> QED BY <1>3, <2>1, <2>2, <2>3, <2>4, <2>5, <2>6, <2>7 DEF SeatStep
<1> QED BY <1>1, <1>2, <1>3 DEF Next

\* Outside upkeep's own lease step a seat loses at most one lease in a step,
\* never a healthier one than it keeps, and is Flagged for it.
THEOREM LeasesLostOnlyToDebt == Spec => LeaseLostOnlyToDebt
<1>1. IInv /\ [Next]_vars =>
        [\A s \in Seats :
           LET lost == posts[s] \ posts'[s]
           IN  lost = {} \/ phase = "leases"
               \/ /\ flagged'[s] /\ Cardinality(lost) = 1
                  /\ \A n \in lost, m \in posts'[s] \cap posts[s] :
                       post[n].rounds <= post[m].rounds]_vars
  BY StepLosesOnlyToDebt DEF LossIsDebt
<1> QED BY <1>1, IInvHolds, PTL DEF Spec, LeaseLostOnlyToDebt
===============================================================================
