----------------------------- MODULE ContractsProofs ---------------------------
(***************************************************************************)
(* What holds of Contracts for every number of seats, map, deadline and    *)
(* cooldown: an ID names one contract, an honest crate is never without    *)
(* its contract, a deadline is paused once and kept, and fights neither    *)
(* make nor destroy crates.                                                *)
(***************************************************************************)
EXTENDS Contracts, FiniteSetTheorems, SequenceTheorems, TLAPS

\* What one seat holds.
UniqueIDs(held) ==
  \A i, j \in 1 .. Len(held) : i # j => held[i].id # held[j].id
Promised(c) == c.expires - c.taken - (IF c.paused THEN 1 ELSE 0) \in Deadlines
Book(held) ==
  /\ held \in Seq(Contract) /\ Len(held) <= 2 /\ UniqueIDs(held)
  /\ \A i \in 1 .. Len(held) : Promised(held[i])

\* What it carries, against what it holds.
Honest(crate)  == crate.bound /\ ~crate.stolen
Covered(crate, held) ==
  \E i \in 1 .. Len(held) : held[i].id = crate.id /\ held[i].pair = crate.pair
Slot(crate, held) ==
  /\ crate \in Crate /\ (crate # NoCargo => crate.id # -1)
  /\ Honest(crate) => Covered(crate, held)

Board ==
  /\ round \in 0 .. Rounds
  /\ phase \in {"orders", "movement", "actions", "windfall", "deliveries",
                "cards", "upkeep", "offers"}
  /\ offer \in [Seats -> SUBSET Pairs] /\ lastOffer \in [Seats -> 0 .. Rounds]
  /\ ground \in Seq(Dropped)
  /\ plan \in [Seats -> Plans] /\ todo \subseteq Seats /\ fights \in 0 .. MaxFights

Purses ==
  /\ contracts = [s \in Seats |-> contracts[s]] /\ cargo = [s \in Seats |-> cargo[s]]
  /\ \A s \in Seats : Book(contracts[s]) /\ Slot(cargo[s], contracts[s])

\* An offer is open only until it is answered, and only to a seat with room.
OffersHaveRoom ==
  \A s \in Seats : offer[s] # {} => phase = "orders" /\ Len(contracts[s]) < 2

\* From upkeep until orders open no contract is past its deadline.
Timely ==
  phase \in {"offers", "orders"} =>
    \A s \in Seats : \A i \in 1 .. Len(contracts[s]) : contracts[s][i].expires > round

IInv == Board /\ Purses /\ OffersHaveRoom /\ Timely

-------------------------------------------------------------------------------
(* Sets of numbers in order.                                                 *)

Rank(S, x) == Cardinality({y \in S : y <= x})

\* The numbers up to n are n.
LEMMA UpTo ==
  ASSUME NEW n \in Nat
  PROVE  IsFiniteSet(1 .. n) /\ Cardinality(1 .. n) = n
<1>1. Cardinality(1 .. n) = IF 1 > n THEN 0 ELSE n - 1 + 1
  BY FS_Interval
<1>2. IsFiniteSet(1 .. n)
  BY FS_Interval
<1> QED  BY <1>1, <1>2

\* The higher of two members has the higher rank.
LEMMA RankGrows ==
  ASSUME NEW S \in SUBSET Nat, IsFiniteSet(S), NEW x \in S, NEW y \in S, x < y
  PROVE  Rank(S, x) # Rank(S, y)
<1> DEFINE Upto(z) == {t \in S : t <= z}
<1>1. x \in Nat /\ y \in Nat /\ \A t \in S : t \in Nat
  OBVIOUS
<1>2. Upto(x) \in SUBSET Upto(y) /\ y \in Upto(y) /\ y \notin Upto(x)
  <2>1. (\A t \in S : t <= x => t <= y) /\ y <= y /\ ~(y <= x)
    BY <1>1
  <2> QED  BY <2>1
<1>3. IsFiniteSet(Upto(y))
  BY FS_Subset
<1>4. Upto(x) # Upto(y)
  BY <1>2
<1>5. Cardinality(Upto(y)) # Cardinality(Upto(x))
  <2> HIDE DEF Upto
  <2> QED  BY <1>2, <1>3, <1>4, FS_Subset
<1> QED  BY <1>5 DEF Rank

\* The ranks of a set's members are 1, 2, and so on to its size, each once.
LEMMA EveryRank ==
  ASSUME NEW S \in SUBSET Nat, IsFiniteSet(S)
  PROVE  /\ Cardinality(S) \in Nat
         /\ \A x \in S : Rank(S, x) \in 1 .. Cardinality(S)
         /\ \A x, y \in S : x # y => Rank(S, x) # Rank(S, y)
         /\ \A k \in 1 .. Cardinality(S) : \E x \in S : Rank(S, x) = k
<1> DEFINE n == Cardinality(S)
           rank == [x \in S |-> Rank(S, x)]
<1>1. n \in Nat
  BY FS_CardinalityType
<1>2. ASSUME NEW x \in S  PROVE Rank(S, x) \in 1 .. n
  <2> DEFINE below == {y \in S : y <= x}
  <2>1. IsFiniteSet(below) /\ Cardinality(below) <= n /\ Cardinality(below) \in Nat
    BY FS_Subset, FS_CardinalityType
  <2>2. x \in below
    OBVIOUS
  <2>3. Cardinality(below) # 0
    <3> HIDE DEF below
    <3> QED  BY <2>1, <2>2, FS_EmptySet
  <2> QED  BY <1>1, <2>1, <2>3 DEF Rank
<1>3. ASSUME NEW x \in S, NEW y \in S, x # y  PROVE Rank(S, x) # Rank(S, y)
  <2>1. x \in Nat /\ y \in Nat
    OBVIOUS
  <2>2. CASE x < y  BY <2>2, RankGrows
  <2>3. CASE y < x  BY <2>3, RankGrows
  <2> QED  BY <1>3, <2>1, <2>2, <2>3
<1>4. rank \in Injection(S, 1 .. n)
  BY <1>2, <1>3 DEF Injection, IsInjective
<1>5. IsFiniteSet(1 .. n) /\ Cardinality(1 .. n) = n
  BY <1>1, UpTo
<1>6. rank \in Surjection(S, 1 .. n)
  <2> HIDE DEF rank
  <2> QED  BY <1>4, <1>5, FS_Injection
<1>7. \A k \in 1 .. n : \E x \in S : rank[x] = k
  BY <1>6 DEF Surjection
<1> QED  BY <1>1, <1>2, <1>3, <1>7

\* InOrder lists every member once.
LEMMA Listed ==
  ASSUME NEW S \in SUBSET Nat, IsFiniteSet(S)
  PROVE  /\ Cardinality(S) \in Nat
         /\ InOrder(S) \in [1 .. Cardinality(S) -> S]
         /\ InOrder(S) \in Seq(S) /\ Len(InOrder(S)) = Cardinality(S)
         /\ \A i, j \in 1 .. Cardinality(S) : i # j => InOrder(S)[i] # InOrder(S)[j]
         /\ \A x \in S : \E k \in 1 .. Cardinality(S) : InOrder(S)[k] = x
<1> DEFINE n == Cardinality(S)
<1>1. n \in Nat /\ (\A x \in S : Rank(S, x) \in 1 .. n)
      /\ (\A x, y \in S : x # y => Rank(S, x) # Rank(S, y))
      /\ \A k \in 1 .. n : \E x \in S : Rank(S, x) = k
  BY EveryRank
<1>2. InOrder(S) = [k \in 1 .. n |-> CHOOSE x \in S : Rank(S, x) = k]
  BY DEF InOrder, Rank
<1>3. ASSUME NEW k \in 1 .. n
      PROVE  InOrder(S)[k] \in S /\ Rank(S, InOrder(S)[k]) = k
  <2>1. InOrder(S)[k] = CHOOSE x \in S : Rank(S, x) = k
    BY <1>2
  <2> QED  BY <1>1, <2>1
<1>4. InOrder(S) \in [1 .. n -> S]
  BY <1>2, <1>3
<1>5. InOrder(S) \in Seq(S) /\ Len(InOrder(S)) = n
  BY <1>1, <1>4
<1>6. \A x \in S : InOrder(S)[Rank(S, x)] = x
  BY <1>1, <1>3
<1> QED  BY <1>1, <1>3, <1>4, <1>5, <1>6

\* A non-empty set of numbers up to n has a least member.
LEMMA LeastOf ==
  ASSUME NEW n \in Nat, NEW S \in SUBSET (1 .. n), S # {}
  PROVE  Min(S) \in S /\ \A y \in S : Min(S) <= y
<1>0. IsFiniteSet(1 .. n)
  BY UpTo
<1>1. IsFiniteSet(S) /\ S \in SUBSET Nat
  <2>1. IsFiniteSet(S)  BY <1>0, FS_Subset
  <2> QED  BY <2>1
<1>2. Cardinality(S) \in Nat /\ Cardinality(S) # 0
  BY <1>1, FS_CardinalityType, FS_EmptySet
<1>3. PICK x \in S : Rank(S, x) = 1
  BY <1>1, <1>2, EveryRank
<1>4. \A y \in S : x <= y
  <2> SUFFICES ASSUME NEW y \in S, ~(x <= y)  PROVE FALSE
    OBVIOUS
  <2> DEFINE below == {t \in S : t <= x}
  <2>1. IsFiniteSet(below) /\ Cardinality(below) = 1 /\ x \in below /\ y \in below /\ x # y
    BY <1>1, <1>3, FS_Subset DEF Rank
  <2>2. PICK z : below = {z}
    <3> HIDE DEF below
    <3> QED  BY <2>1, FS_Singleton
  <2> HIDE DEF below
  <2> QED  BY <2>1, <2>2
<1> QED  BY <1>4 DEF Min

-------------------------------------------------------------------------------
(* Looking something up, taking it out, keeping what is current.             *)

\* WithID finds the contract of an ID exactly when there is one.
LEMMA IDFound ==
  ASSUME NEW T, NEW held \in Seq(T), NEW id
  PROVE  LET i == WithID(held, id)
         IN /\ i \in 0 .. Len(held)
            /\ i # 0 => i \in 1 .. Len(held) /\ held[i].id = id
            /\ i = 0 => \A j \in 1 .. Len(held) : held[j].id # id
<1> DEFINE I == {i \in 1 .. Len(held) : held[i].id = id}
<1>1. WithID(held, id) = IF I # {} THEN Min(I) ELSE 0
  BY DEF WithID, SelectInSeq
<1>2. I # {} => Min(I) \in I /\ \A j \in I : Min(I) <= j
  <2>1. I \in SUBSET (1 .. Len(held)) /\ Len(held) \in Nat
    OBVIOUS
  <2> HIDE DEF I
  <2> QED  BY <2>1, LeastOf
<1> QED  BY <1>1, <1>2

\* ForPair finds the contract of a pair exactly when there is one.
LEMMA PairFound ==
  ASSUME NEW T, NEW held \in Seq(T), NEW p
  PROVE  LET i == ForPair(held, p)
         IN /\ i \in 0 .. Len(held)
            /\ i # 0 => i \in 1 .. Len(held) /\ held[i].pair = p
<1> DEFINE I == {i \in 1 .. Len(held) : held[i].pair = p}
<1>1. ForPair(held, p) = IF I # {} THEN Min(I) ELSE 0
  BY DEF ForPair, SelectInSeq
<1>2. I # {} => Min(I) \in I /\ \A j \in I : Min(I) <= j
  <2>1. I \in SUBSET (1 .. Len(held)) /\ Len(held) \in Nat
    OBVIOUS
  <2> HIDE DEF I
  <2> QED  BY <2>1, LeastOf
<1> QED  BY <1>1, <1>2

\* FromNode finds a contract that is picked up at the node.
LEMMA OriginFound ==
  ASSUME NEW T, NEW held \in Seq(T), NEW n
  PROVE  LET i == FromNode(held, n)
         IN /\ i \in 0 .. Len(held)
            /\ i # 0 => i \in 1 .. Len(held) /\ held[i].pair[1] = n
<1> DEFINE I == {i \in 1 .. Len(held) : held[i].pair[1] = n}
<1>1. FromNode(held, n) = IF I # {} THEN Min(I) ELSE 0
  BY DEF FromNode, SelectInSeq
<1>2. I # {} => Min(I) \in I /\ \A j \in I : Min(I) <= j
  <2>1. I \in SUBSET (1 .. Len(held)) /\ Len(held) \in Nat
    OBVIOUS
  <2> HIDE DEF I
  <2> QED  BY <2>1, LeastOf
<1> QED  BY <1>1, <1>2

\* GroundIndex finds a crate on the node that the seat may collect.
LEMMA CrateFound ==
  ASSUME NEW T, NEW held, NEW lying \in Seq(T), NEW n
  PROVE  LET i == GroundIndex(held, lying, n)
         IN /\ i \in 0 .. Len(lying)
            /\ i # 0 => i \in 1 .. Len(lying) /\ CanCollect(held, lying[i])
<1> DEFINE I == {i \in 1 .. Len(lying) : lying[i].at = n /\ CanCollect(held, lying[i])}
<1>1. GroundIndex(held, lying, n) = IF I # {} THEN Min(I) ELSE 0
  BY DEF GroundIndex, SelectInSeq
<1>2. I # {} => Min(I) \in I /\ \A j \in I : Min(I) <= j
  <2>1. I \in SUBSET (1 .. Len(lying)) /\ Len(lying) \in Nat
    OBVIOUS
  <2> HIDE DEF I
  <2> QED  BY <2>1, LeastOf
<1> QED  BY <1>1, <1>2

\* Taking one entry out moves the later ones up and changes nothing else.
LEMMA Removed ==
  ASSUME NEW T, NEW seq \in Seq(T), NEW i \in 1 .. Len(seq)
  PROVE  /\ RemoveAt(seq, i) \in Seq(T) /\ Len(RemoveAt(seq, i)) = Len(seq) - 1
         /\ \A j \in 1 .. Len(seq) - 1 :
              RemoveAt(seq, i)[j] = IF j < i THEN seq[j] ELSE seq[j + 1]
<1> DEFINE before == SubSeq(seq, 1, i - 1)
           after  == SubSeq(seq, i + 1, Len(seq))
<1>1. before \in Seq(T) /\ Len(before) = i - 1 /\ \A j \in 1 .. i - 1 : before[j] = seq[j]
  BY SubSeqProperties
<1>2. /\ after \in Seq(T) /\ Len(after) = Len(seq) - i
      /\ \A j \in 1 .. Len(seq) - i : after[j] = seq[j + i]
  BY SubSeqProperties
<1>3. RemoveAt(seq, i) = before \o after
  BY DEF RemoveAt
<1> HIDE DEF before, after
<1>4. /\ before \o after \in Seq(T) /\ Len(before \o after) = Len(before) + Len(after)
      /\ \A j \in 1 .. Len(before) + Len(after) : (before \o after)[j] =
           IF j <= Len(before) THEN before[j] ELSE after[j - Len(before)]
  BY <1>1, <1>2, ConcatProperties
<1>5. ASSUME NEW j \in 1 .. Len(seq) - 1
      PROVE  (before \o after)[j] = IF j < i THEN seq[j] ELSE seq[j + 1]
  <2>1. CASE j < i
    BY <1>1, <1>2, <1>4, <2>1
  <2>2. CASE ~(j < i)
    <3>1. (before \o after)[j] = after[j - (i - 1)] /\ j - (i - 1) \in 1 .. Len(seq) - i
      BY <1>1, <1>2, <1>4, <2>2
    <3> QED  BY <1>2, <2>2, <3>1
  <2> QED  BY <2>1, <2>2
<1> QED  BY <1>1, <1>2, <1>3, <1>4, <1>5

-------------------------------------------------------------------------------
(* What each operation does to one seat's contracts.                         *)

\* nextContractID gives a seat with room an ID it does not use.
LEMMA AcceptKeepsBook ==
  ASSUME NEW held, Book(held), Len(held) < 2, NEW p \in Pairs, NEW d \in Deadlines,
         round \in 0 .. Rounds
  PROVE  /\ Book(Accepted(held, p, d))
         /\ \A crate : Slot(crate, held) => Slot(crate, Accepted(held, p, d))
<1> DEFINE new == [id |-> NextID(held), pair |-> p, taken |-> round + 1,
                   expires |-> round + 1 + d, paused |-> FALSE]
           after == Accepted(held, p, d)
<1>1. held \in Seq(Contract) /\ Len(held) \in Nat
  BY DEF Book
<1>2. NextID(held) \in 0 .. 1 /\ \A i \in 1 .. Len(held) : held[i].id # NextID(held)
  <2>1. CASE held = <<>>
    BY <2>1 DEF NextID
  <2>2. CASE held # <<>>
    BY <1>1, <2>2 DEF NextID
  <2> QED  BY <2>1, <2>2
<1>3. new \in Contract /\ Promised(new)
  <2>1. round \in Nat /\ d \in Nat /\ round + 1 + d - (round + 1) - 0 = d
    BY ContractsAssumption
  <2> QED  BY <1>2, <2>1 DEF Contract, Promised
<1>4. /\ after \in Seq(Contract) /\ Len(after) = Len(held) + 1
      /\ \A i \in 1 .. Len(held) : after[i] = held[i]
      /\ after[Len(held) + 1] = new
  <2>1. after = Append(held, new)
    BY DEF Accepted
  <2> HIDE DEF new, after
  <2> QED  BY <1>1, <1>3, <2>1, AppendProperties
<1>5. new.id = NextID(held)
  OBVIOUS
<1> HIDE DEF new, after
<1>6. UniqueIDs(after)
  BY <1>1, <1>2, <1>4, <1>5 DEF UniqueIDs, Book
<1>7. \A i \in 1 .. Len(after) : Promised(after[i])
  BY <1>1, <1>3, <1>4 DEF Book
<1>8. \A crate : Slot(crate, held) => Slot(crate, after)
  BY <1>1, <1>4 DEF Slot, Covered
<1> QED  BY <1>1, <1>4, <1>6, <1>7, <1>8 DEF Book, after

\* One contract: a pause is worth one round, once.
LEMMA PauseKeepsPromise ==
  ASSUME NEW c \in Contract, Promised(c)
  PROVE  /\ Paused(c) \in Contract /\ Promised(Paused(c))
         /\ Paused(c).id = c.id /\ Paused(c).pair = c.pair
<1>1. /\ c.id \in 0 .. 1 /\ c.pair \in Pairs /\ c.taken \in Nat /\ c.expires \in Nat
      /\ c.paused \in BOOLEAN
  BY DEF Contract
<1>2. CASE c.paused
  <2>1. Paused(c) = c
    BY <1>2 DEF Paused
  <2> QED  BY <2>1
<1>3. CASE ~c.paused
  <2>1. Paused(c) = [id |-> c.id, pair |-> c.pair, taken |-> c.taken,
                     expires |-> c.expires + 1, paused |-> TRUE]
    BY <1>3 DEF Paused, Contract
  <2>2. /\ Paused(c) \in Contract /\ Paused(c).expires = c.expires + 1 /\ Paused(c).paused = TRUE
        /\ Paused(c).id = c.id /\ Paused(c).pair = c.pair /\ Paused(c).taken = c.taken
    BY <1>1, <2>1 DEF Contract
  <2>3. c.expires + 1 - c.taken - 1 = c.expires - c.taken - 0
    BY <1>1
  <2>4. c.expires - c.taken - 0 \in Deadlines
    BY <1>3 DEF Promised
  <2>5. Promised([id |-> c.id, pair |-> c.pair, taken |-> c.taken,
                  expires |-> c.expires + 1, paused |-> TRUE])
    BY <1>1, <2>3, <2>4 DEF Promised
  <2> QED  BY <2>1, <2>2, <2>5
<1> QED  BY <1>1, <1>2, <1>3

\* WithDeadlinePause moves the deadline once and nothing else.
LEMMA PauseKeepsBook ==
  ASSUME NEW s \in Seats, Book(contracts[s])
  PROVE  /\ Book(AfterPause(s)) /\ Len(AfterPause(s)) = Len(contracts[s])
         /\ \A crate : Slot(crate, contracts[s]) => Slot(crate, AfterPause(s))
<1> DEFINE held == contracts[s]
           i == WithID(held, cargo[s].id)
           after == [held EXCEPT ![i] = Paused(held[i])]
<1>1. held \in Seq(Contract)
  BY DEF Book
<1>2. i \in 0 .. Len(held)
  BY <1>1, IDFound
<1>3. CASE ~(cargo[s].bound /\ i # 0)
  BY <1>3 DEF AfterPause
<1>4. CASE cargo[s].bound /\ i # 0
  <2>1. AfterPause(s) = after
    BY <1>4 DEF AfterPause
  <2>2. i \in 1 .. Len(held) /\ held[i] \in Contract /\ Promised(held[i])
    BY <1>1, <1>2, <1>4, ElementOfSeq DEF Book
  <2>3. /\ Paused(held[i]) \in Contract /\ Promised(Paused(held[i]))
        /\ Paused(held[i]).id = held[i].id /\ Paused(held[i]).pair = held[i].pair
    BY <2>2, PauseKeepsPromise
  <2>4. /\ after \in Seq(Contract) /\ Len(after) = Len(held)
        /\ \A j \in 1 .. Len(held) : after[j] = IF j = i THEN Paused(held[i]) ELSE held[j]
    BY <1>1, <2>2, <2>3, ExceptSeq
  <2>5. \A j \in 1 .. Len(held) : after[j].id = held[j].id /\ after[j].pair = held[j].pair
    BY <2>3, <2>4
  <2>6. \A j \in 1 .. Len(held) : Promised(after[j])
    BY <2>3, <2>4 DEF Book
  <2>7. UniqueIDs(after)
    BY <2>4, <2>5 DEF UniqueIDs, Book
  <2> HIDE DEF after
  <2>8. Book(after)
    BY <2>4, <2>6, <2>7 DEF Book
  <2>9. \A crate : Slot(crate, held) => Slot(crate, after)
    BY <2>4, <2>5 DEF Slot, Covered
  <2> QED  BY <2>1, <2>4, <2>8, <2>9
<1> QED  BY <1>3, <1>4

\* A contract that is delivered, sold or given up leaves the others as they were.
LEMMA WithoutKeepsBook ==
  ASSUME NEW held, Book(held), NEW i \in 0 .. Len(held)
  PROVE  /\ Book(Without(held, i)) /\ Len(Without(held, i)) <= Len(held)
         /\ \A j \in 1 .. Len(Without(held, i)) : \E k \in 1 .. Len(held) :
              Without(held, i)[j] = held[k]
<1>1. held \in Seq(Contract) /\ Len(held) \in Nat /\ Len(held) <= 2
  BY DEF Book
<1>2. CASE i = 0
  BY <1>1, <1>2 DEF Without
<1>3. CASE i # 0
  <2> DEFINE after == RemoveAt(held, i)
             from(j) == IF j < i THEN j ELSE j + 1
  <2>1. Without(held, i) = after
    BY <1>3 DEF Without
  <2>2. /\ after \in Seq(Contract) /\ Len(after) = Len(held) - 1
        /\ \A j \in 1 .. Len(held) - 1 : after[j] = IF j < i THEN held[j] ELSE held[j + 1]
    BY <1>1, <1>3, Removed
  <2> HIDE DEF after
  <2>3. \A j \in 1 .. Len(after) : from(j) \in 1 .. Len(held) /\ after[j] = held[from(j)]
    BY <1>1, <1>3, <2>2
  <2>4. \A j, k \in 1 .. Len(after) : j # k => from(j) # from(k)
    BY <1>1, <1>3, <2>2
  <2>5. UniqueIDs(after)
    <3> HIDE DEF from
    <3> QED  BY <2>3, <2>4 DEF UniqueIDs, Book
  <2>6. \A j \in 1 .. Len(after) : Promised(after[j])
    <3> HIDE DEF from
    <3> QED  BY <2>3 DEF Book
  <2> HIDE DEF from
  <2> QED  BY <1>1, <2>1, <2>2, <2>3, <2>5, <2>6 DEF Book
<1> QED  BY <1>2, <1>3

\* An expiry keeps exactly the contracts that still have time.
LEMMA CurrentKeepsBook ==
  ASSUME NEW held, Book(held)
  PROVE  /\ Book(Current(held)) /\ Len(Current(held)) <= Len(held)
         /\ \A j \in 1 .. Len(Current(held)) : ~Overdue(Current(held)[j])
         /\ \A i \in 1 .. Len(held) : ~Overdue(held[i]) =>
              \E j \in 1 .. Len(Current(held)) : Current(held)[j] = held[i]
<1> DEFINE S == {i \in DOMAIN held : ~Overdue(held[i])}
           kept == InOrder(S)
           n == Cardinality(S)
           after == [k \in 1 .. n |-> held[kept[k]]]
<1>1. held \in Seq(Contract) /\ Len(held) \in Nat /\ Len(held) <= 2
      /\ DOMAIN held = 1 .. Len(held)
  BY DEF Book
<1>2. /\ S \in SUBSET (1 .. Len(held)) /\ S \in SUBSET Nat
      /\ IsFiniteSet(1 .. Len(held)) /\ Cardinality(1 .. Len(held)) = Len(held)
  <2>1. Len(held) \in Nat /\ S \in SUBSET (1 .. Len(held))
    BY <1>1
  <2>2. S \in SUBSET Nat
    BY <2>1
  <2>3. IsFiniteSet(1 .. Len(held)) /\ Cardinality(1 .. Len(held)) = Len(held)
    BY <2>1, UpTo
  <2> QED  BY <2>1, <2>2, <2>3
<1>3. \A i \in 1 .. Len(held) : i \in S <=> ~Overdue(held[i])
  BY <1>1
<1>4. IsFiniteSet(S) /\ n <= Len(held)
  <2> HIDE DEF S
  <2> QED  BY <1>2, FS_Subset
<1>5. /\ n \in Nat /\ kept \in [1 .. n -> S] /\ DOMAIN kept = 1 .. n
      /\ \A i, j \in 1 .. n : i # j => kept[i] # kept[j]
      /\ \A x \in S : \E k \in 1 .. n : kept[k] = x
  <2> HIDE DEF S
  <2>1. n \in Nat /\ kept \in [1 .. n -> S]
    BY <1>2, <1>4, Listed
  <2> QED  BY <1>2, <1>4, <2>1, Listed
<1>6. Current(held) = after
  BY <1>5 DEF Current
<1> HIDE DEF S, kept, n
<1>7. \A k \in 1 .. n : kept[k] \in 1 .. Len(held) /\ kept[k] \in S
  BY <1>2, <1>5
<1>8. after \in Seq(Contract) /\ Len(after) = n
  <2>1. \A k \in 1 .. n : held[kept[k]] \in Contract
    BY <1>1, <1>7, ElementOfSeq
  <2> QED  BY <1>5, <2>1
<1>9. \A k \in 1 .. Len(after) : k \in 1 .. n /\ after[k] = held[kept[k]]
  BY <1>5, <1>8
<1> HIDE DEF after
<1>10. UniqueIDs(after)
  <2> SUFFICES ASSUME NEW j \in 1 .. Len(after), NEW k \in 1 .. Len(after), j # k
               PROVE  after[j].id # after[k].id
    BY DEF UniqueIDs
  <2>1. kept[j] \in 1 .. Len(held) /\ kept[k] \in 1 .. Len(held) /\ kept[j] # kept[k]
    BY <1>5, <1>7, <1>9
  <2> QED  BY <1>9, <2>1 DEF UniqueIDs, Book
<1>11. \A k \in 1 .. Len(after) : Promised(after[k]) /\ ~Overdue(after[k])
  BY <1>3, <1>7, <1>9 DEF Book
<1>12. \A i \in 1 .. Len(held) : ~Overdue(held[i]) => \E j \in 1 .. Len(after) : after[j] = held[i]
  BY <1>3, <1>5, <1>8, <1>9
<1>13. Len(after) <= Len(held) /\ Len(after) <= 2
  BY <1>1, <1>4, <1>5, <1>8
<1> QED  BY <1>6, <1>8, <1>10, <1>11, <1>12, <1>13 DEF Book

-------------------------------------------------------------------------------
(* Crates on the ground.                                                     *)

\* What falls is a crate of a known shape.
LEMMA DroppedShape ==
  ASSUME Purses, NEW s \in Seats, NEW n \in Nodes
  PROVE  DroppedBy(s, n) \in Dropped
<1> DEFINE i == WithID(contracts[s], cargo[s].id)
<1>1. contracts[s] \in Seq(Contract) /\ cargo[s] \in Crate
  BY DEF Purses, Book, Slot
<1>2. i # 0 => i \in 1 .. Len(contracts[s])
  BY <1>1, IDFound
<1>3. i # 0 => contracts[s][i].pair \in AnyPair
  <2>1. i # 0 => contracts[s][i] \in Contract
    BY <1>1, <1>2, ElementOfSeq
  <2> QED  BY <2>1 DEF Contract, AnyPair
<1>4. cargo[s].bound \in BOOLEAN /\ cargo[s].pair \in AnyPair /\ NoPair \in AnyPair
  BY <1>1 DEF Crate, AnyPair
<1> HIDE DEF i
<1>5. DroppedBy(s, n) = [at |-> n, bound |-> cargo[s].bound,
                         pair |-> IF cargo[s].bound /\ i # 0 THEN contracts[s][i].pair ELSE NoPair,
                         was |-> cargo[s].pair]
  BY DEF DroppedBy, i
<1>6. (IF cargo[s].bound /\ i # 0 THEN contracts[s][i].pair ELSE NoPair) \in AnyPair
  BY <1>3, <1>4
<1> QED  BY <1>4, <1>5, <1>6 DEF Dropped

\* As many crates lie on the ground as before, and one for each seat that lost its.
LEMMA GroundGrows ==
  ASSUME Purses, ground \in Seq(Dropped), NEW S \in SUBSET Seats, NEW where \in [Seats -> Nodes]
  PROVE  /\ GroundAfter(S, where) \in Seq(Dropped)
         /\ IsFiniteSet(S) /\ Cardinality(S) \in Nat
         /\ Len(GroundAfter(S, where)) = Len(ground) + Cardinality(S)
<1> DEFINE order == InOrder(S)
           n == Cardinality(S)
           fallen == [i \in 1 .. n |-> DroppedBy(order[i], where[order[i]])]
<1>1. Seats \subseteq Nat /\ IsFiniteSet(Seats)
  <2>1. NumSeats - 1 \in Int /\ Seats \subseteq Nat
    BY ContractsAssumption DEF Seats
  <2> QED  BY <2>1, FS_Interval DEF Seats
<1>2. S \in SUBSET Nat /\ IsFiniteSet(S)
  <2>1. IsFiniteSet(S)  BY <1>1, FS_Subset
  <2> QED  BY <1>1, <2>1
<1>3. /\ n \in Nat /\ order \in [1 .. n -> S] /\ Len(order) = n
  BY <1>2, Listed
<1> HIDE DEF order, n
<1>4. \A i \in 1 .. n : DroppedBy(order[i], where[order[i]]) \in Dropped
  <2> SUFFICES ASSUME NEW i \in 1 .. n  PROVE DroppedBy(order[i], where[order[i]]) \in Dropped
    OBVIOUS
  <2>1. order[i] \in Seats /\ where[order[i]] \in Nodes
    BY <1>3
  <2> QED  BY <2>1, DroppedShape
<1>5. fallen \in Seq(Dropped) /\ Len(fallen) = n
  BY <1>3, <1>4
<1>6. GroundAfter(S, where) = ground \o fallen
  BY <1>3 DEF GroundAfter, order
<1> HIDE DEF fallen
<1> QED  BY <1>2, <1>3, <1>5, <1>6, ConcatProperties DEF n

-------------------------------------------------------------------------------
(* Every operation keeps the invariant.                                      *)

\* The first round starts with nobody holding anything.
LEMMA InitKeeps == Init => IInv
<1> SUFFICES ASSUME Init PROVE IInv
  OBVIOUS
<1>1. Board
  BY ContractsAssumption DEF Init, Board, AtRest, Plans, Idle
<1>2. Purses
  <2>1. Book(<<>>)
    BY DEF Book, UniqueIDs
  <2>2. Slot(NoCargo, <<>>)
    <3>1. NoCargo \in Crate
      BY DEF NoCargo, Crate, AnyPair, NoPair
    <3> QED  BY <3>1 DEF Slot, Honest, NoCargo
  <2> QED  BY <2>1, <2>2 DEF Init, Purses
<1>3. OffersHaveRoom /\ Timely
  BY DEF Init, OffersHaveRoom, Timely
<1> QED  BY <1>1, <1>2, <1>3 DEF IInv

\* applyContractChoices: only a seat with an open offer, and so with room, accepts.
LEMMA OpenRoundKeeps == IInv /\ OpenRound => IInv'
<1> SUFFICES ASSUME IInv, OpenRound PROVE IInv'
  OBVIOUS
<1>1. PICK pick \in [Seats -> Pairs \cup {NoPair}], d \in Deadlines :
        /\ \A s \in Seats : pick[s] \in offer[s] \cup {NoPair}
        /\ contracts' = [s \in Seats |->
             IF pick[s] = NoPair THEN contracts[s] ELSE Accepted(contracts[s], pick[s], d)]
  BY DEF OpenRound
<1>2. /\ round' = round + 1 /\ phase' = "movement" /\ round < Rounds /\ phase = "orders"
      /\ lastOffer' = [s \in Seats |-> IF offer[s] = {} THEN lastOffer[s] ELSE round + 1]
      /\ offer' = [s \in Seats |-> {}] /\ plan' \in [Seats -> Plans]
      /\ UNCHANGED <<cargo, ground, todo, fights>>
  BY DEF OpenRound
<1>3. Board /\ Purses /\ OffersHaveRoom
  BY DEF IInv
<1>4. Board'
  BY <1>2, <1>3, ContractsAssumption DEF Board
<1>5. ASSUME NEW s \in Seats
      PROVE  Book(contracts[s])' /\ Slot(cargo[s], contracts[s])'
  <2>1. Book(contracts[s]) /\ Slot(cargo[s], contracts[s]) /\ cargo'[s] = cargo[s]
    BY <1>2, <1>3 DEF Purses
  <2>2. CASE pick[s] = NoPair
    <3>1. contracts'[s] = contracts[s]
      BY <1>1, <2>2
    <3> QED  BY <2>1, <3>1 DEF Book, Slot
  <2>3. CASE pick[s] # NoPair
    <3>1. pick[s] \in offer[s] /\ pick[s] \in Pairs
      BY <1>1, <2>3
    <3>2. Len(contracts[s]) < 2
      BY <1>3, <3>1 DEF OffersHaveRoom
    <3>3. contracts'[s] = Accepted(contracts[s], pick[s], d)
      BY <1>1, <2>3
    <3>4. Book(Accepted(contracts[s], pick[s], d))
          /\ Slot(cargo[s], Accepted(contracts[s], pick[s], d))
      BY <1>3, <2>1, <3>1, <3>2, AcceptKeepsBook DEF Board
    <3> QED  BY <2>1, <3>3, <3>4 DEF Book, Slot
  <2> QED  BY <2>2, <2>3
<1>6. Purses'
  BY <1>1, <1>2, <1>3, <1>5 DEF Purses
<1>7. OffersHaveRoom' /\ Timely'
  BY <1>2 DEF OffersHaveRoom, Timely
<1> QED  BY <1>4, <1>6, <1>7 DEF IInv

\* A fight: deadlines are paused, crates fall or change hands, and a crate that
\* changed hands is no honest one.
LEMMA FightKeeps == IInv /\ Fight => IInv'
<1> SUFFICES ASSUME IInv, Fight PROVE IInv'
  OBVIOUS
<1>a. PICK w \in Seats, n \in Nodes :
        \E losers \in (SUBSET (Seats \ {w})) \ {{}} :
        \E guarded \in SUBSET {l \in losers : Carries(l)}, corrected \in BOOLEAN :
          Won(w, n, losers, guarded, corrected)
  BY DEF Fight
<1>b. PICK losers \in (SUBSET (Seats \ {w})) \ {{}} :
        \E guarded \in SUBSET {l \in losers : Carries(l)}, corrected \in BOOLEAN :
          Won(w, n, losers, guarded, corrected)
  BY <1>a
<1>c. PICK guarded \in SUBSET {l \in losers : Carries(l)}, corrected \in BOOLEAN :
        Won(w, n, losers, guarded, corrected)
  BY <1>b
<1> DEFINE forfeit == {l \in losers \ guarded : Carries(l)}
           taken   == IF Carries(w) THEN {}
                      ELSE {l \in forfeit : \A m \in forfeit : l <= m}
           victim  == CHOOSE l \in taken : TRUE
           spoils  == [cargo[victim] EXCEPT !.stolen = cargo[victim].bound]
<1>2. /\ phase = "movement" /\ fights < MaxFights /\ fights' = fights + 1
      /\ UNCHANGED <<round, phase, offer, lastOffer, todo>>
  BY DEF Fight
<1>3. Board /\ Purses /\ OffersHaveRoom
  BY DEF IInv
<1>4. forfeit \subseteq Seats /\ taken \subseteq Seats /\ forfeit \ taken \in SUBSET Seats
  OBVIOUS
<1>5. taken # {} => victim \in Seats
  <2> HIDE DEF taken
  <2> QED  BY <1>4
<1>6. ground' = GroundAfter(forfeit \ taken, [s \in Seats |-> n])
  BY <1>c DEF Won
<1>7. contracts' = [s \in Seats |->
        IF s \in losers /\ Carries(s) THEN AfterPause(s) ELSE contracts[s]]
  BY <1>c DEF Won
<1>8. cargo' = [s \in Seats |-> IF s \in forfeit THEN NoCargo
                                ELSE IF s = w /\ taken # {} THEN spoils ELSE cargo[s]]
  BY <1>c DEF Won
<1>9. plan' \in [Seats -> Plans]
  <2>1. plan \in [Seats -> Plans] /\ Idle \in Plans
    BY <1>3 DEF Board, Plans
  <2> QED  BY <1>c, <2>1 DEF Won
<1> HIDE DEF forfeit, taken, victim
<1>10. ground' \in Seq(Dropped)
  <2>1. [s \in Seats |-> n] \in [Seats -> Nodes] /\ ground \in Seq(Dropped)
    BY <1>3 DEF Board
  <2> QED  BY <1>3, <1>4, <1>6, <2>1, GroundGrows
<1>11. Board'
  <2>1. fights' \in 0 .. MaxFights
    BY <1>2, <1>3, ContractsAssumption DEF Board
  <2> QED  BY <1>2, <1>3, <1>9, <1>10, <2>1 DEF Board
<1>12. ASSUME NEW s \in Seats
       PROVE  /\ Book(contracts'[s]) /\ Len(contracts'[s]) = Len(contracts[s])
              /\ \A crate : Slot(crate, contracts[s]) => Slot(crate, contracts'[s])
  <2>1. Book(contracts[s])
    BY <1>3 DEF Purses
  <2>2. CASE s \in losers /\ Carries(s)
    BY <1>7, <2>1, <2>2, PauseKeepsBook
  <2>3. CASE ~(s \in losers /\ Carries(s))
    BY <1>7, <2>1, <2>3
  <2> QED  BY <2>2, <2>3
<1>13. \A held : Slot(NoCargo, held)
  <2>1. NoCargo \in Crate
    BY DEF NoCargo, Crate, AnyPair, NoPair
  <2> QED  BY <2>1 DEF Slot, Honest, NoCargo
<1>14. taken # {} => \A held : Slot(spoils, held)
  <2> SUFFICES ASSUME taken # {}, NEW held  PROVE Slot(spoils, held)
    OBVIOUS
  <2>1. cargo[victim] \in Crate /\ (cargo[victim] # NoCargo => cargo[victim].id # -1)
    BY <1>3, <1>5 DEF Purses, Slot
  <2>2. cargo[victim] # NoCargo
    <3>1. taken \subseteq forfeit /\ (taken # {} => victim \in taken)
      BY DEF taken, victim
    <3> QED  BY <3>1 DEF forfeit, Carries
  <2> DEFINE c == cargo[victim]
  <2>3. c \in Crate /\ c.id # -1
    BY <2>1, <2>2
  <2>4. spoils = [c EXCEPT !.stolen = c.bound]
    OBVIOUS
  <2> HIDE DEF c, spoils
  <2>5. spoils \in Crate /\ spoils.id = c.id /\ spoils.bound = c.bound /\ spoils.stolen = c.bound
    BY <2>3, <2>4 DEF Crate
  <2> QED  BY <2>3, <2>5 DEF Slot, Honest
<1>15. ASSUME NEW s \in Seats
       PROVE  Slot(cargo'[s], contracts'[s])
  <2>1. Slot(cargo[s], contracts[s])
    BY <1>3 DEF Purses
  <2> HIDE DEF spoils
  <2>2. CASE s \in forfeit
    BY <1>8, <1>13, <2>2
  <2>3. CASE s \notin forfeit /\ s = w /\ taken # {}
    BY <1>8, <1>14, <2>3
  <2>4. CASE s \notin forfeit /\ ~(s = w /\ taken # {})
    BY <1>8, <1>12, <2>1, <2>4
  <2> QED  BY <2>2, <2>3, <2>4
<1>16. Purses'
  <2> HIDE DEF spoils
  <2>1. contracts' = [s \in Seats |-> contracts'[s]] /\ cargo' = [s \in Seats |-> cargo'[s]]
    BY <1>7, <1>8
  <2> QED  BY <1>12, <1>15, <2>1 DEF Purses
<1>17. OffersHaveRoom' /\ Timely'
  <2>1. \A s \in Seats : offer[s] = {}
    BY <1>2, <1>3 DEF OffersHaveRoom
  <2> QED  BY <1>2, <2>1 DEF OffersHaveRoom, Timely
<1> QED  BY <1>11, <1>16, <1>17 DEF IInv

\* A tie takes the rest of the order and nothing else.
LEMMA TieKeeps == IInv /\ Tie => IInv'
<1> SUFFICES ASSUME IInv, Tie PROVE IInv'
  OBVIOUS
<1>1. PICK tied \in SUBSET Seats :
        plan' = [s \in Seats |-> IF s \in tied THEN Idle ELSE plan[s]]
  BY DEF Tie
<1>2. /\ phase = "movement" /\ fights < MaxFights /\ fights' = fights + 1
      /\ UNCHANGED <<round, phase, offer, lastOffer, contracts, cargo, ground, todo>>
  BY DEF Tie
<1>3. Board'
  <2>1. plan' \in [Seats -> Plans]
    BY <1>1 DEF IInv, Board, Plans
  <2>2. fights' \in 0 .. MaxFights
    BY <1>2, ContractsAssumption DEF IInv, Board
  <2> QED  BY <1>2, <2>1, <2>2 DEF IInv, Board
<1> QED  BY <1>2, <1>3 DEF IInv, Purses, OffersHaveRoom, Timely, Book, Slot

\* What an action needs to keep when it only moves crates: the contracts stay,
\* and whoever carries an honest crate afterwards has the contract for it.
LEMMA CratesMove ==
  ASSUME IInv, Board', contracts' = contracts, offer' = offer, round' = round,
         phase # "orders", phase' # "orders", phase' = "offers" => phase = "offers",
         cargo' = [s \in Seats |-> cargo'[s]],
         \A s \in Seats : Slot(cargo'[s], contracts[s])
  PROVE  IInv'
<1>1. Purses'
  BY DEF IInv, Purses, Book, Slot
<1>2. OffersHaveRoom'
  BY DEF IInv, OffersHaveRoom
<1>3. Timely'
  BY DEF IInv, Timely
<1> QED  BY <1>1, <1>2, <1>3 DEF IInv

\* A seat without a crate has nothing to cover.
LEMMA EmptySlot == \A held : Slot(NoCargo, held)
<1>1. NoCargo \in Crate
  BY DEF NoCargo, Crate, AnyPair, NoPair
<1> QED  BY <1>1 DEF Slot, Honest, NoCargo

\* A crate taken from the ground is bound to the seat's own contract for its
\* pair, one taken from a Warehouse to the contract it was taken for.
LEMMA PickupKeeps ==
  ASSUME IInv, NEW s \in Seats, ResolvePickup(s)
  PROVE  IInv'
<1>1. /\ phase = "actions" /\ todo' = todo \ {s} /\ plan[s].do = "pickup"
      /\ phase' \in {"windfall", "actions"}
      /\ UNCHANGED <<round, offer, lastOffer, contracts, plan, fights>>
  BY DEF ResolvePickup, NextInOrder
<1>2. Board /\ Purses
  BY DEF IInv
<1>3. contracts[s] \in Seq(Contract) /\ ground \in Seq(Dropped)
  BY <1>2 DEF Board, Purses, Book
<1>4. ASSUME ground' \in Seq(Dropped), cargo' = [t \in Seats |-> cargo'[t]],
             \A t \in Seats \ {s} : cargo'[t] = cargo[t],
             Slot(cargo'[s], contracts[s])
      PROVE  IInv'
  <2>1. Board'
    BY <1>1, <1>2, <1>4 DEF Board
  <2>2. \A t \in Seats : Slot(cargo'[t], contracts[t])
    BY <1>2, <1>4 DEF Purses
  <2> QED  BY <1>1, <1>4, <2>1, <2>2, CratesMove
<1>5. CASE UNCHANGED <<cargo, ground>>
  <2>1. Slot(cargo'[s], contracts[s]) /\ cargo' = [t \in Seats |-> cargo'[t]]
    BY <1>2, <1>5 DEF Purses
  <2> QED  BY <1>3, <1>4, <1>5, <2>1
<1>6. CASE TakeFromGround(s)
  <2> DEFINE i == GroundIndex(contracts[s], ground, plan[s].at)
             k == ForPair(contracts[s], ground[i].pair)
             new == IF ground[i].bound
                    THEN [bound |-> TRUE, pair |-> ground[i].pair, stolen |-> FALSE,
                          id |-> contracts[s][k].id]
                    ELSE Loose
  <2>1. i # 0 /\ cargo' = [cargo EXCEPT ![s] = new] /\ ground' = RemoveAt(ground, i)
    BY <1>6 DEF TakeFromGround
  <2>2. i \in 1 .. Len(ground) /\ CanCollect(contracts[s], ground[i])
    BY <1>3, <2>1, CrateFound
  <2>3. ground' \in Seq(Dropped)
    BY <1>3, <2>1, <2>2, Removed
  <2>4. ground[i] \in Dropped
    BY <1>3, <2>2, ElementOfSeq
  <2>5. cargo'[s] = new /\ cargo' = [t \in Seats |-> cargo'[t]]
        /\ \A t \in Seats \ {s} : cargo'[t] = cargo[t]
    BY <1>2, <2>1 DEF Purses
  <2>6. CASE ground[i].bound
    <3>1. k # 0
      BY <2>2, <2>6 DEF CanCollect
    <3>2. k \in 1 .. Len(contracts[s]) /\ contracts[s][k].pair = ground[i].pair
      BY <1>3, <3>1, PairFound
    <3>3. contracts[s][k] \in Contract
      BY <1>3, <3>2, ElementOfSeq
    <3> HIDE DEF i, k
    <3>4. new.id = contracts[s][k].id /\ new.pair = contracts[s][k].pair /\ new \in Crate
          /\ new.id # -1
      BY <2>4, <2>6, <3>2, <3>3 DEF Crate, Contract, Dropped
    <3> HIDE DEF new
    <3>5. Slot(new, contracts[s])
      BY <3>2, <3>4 DEF Slot, Covered
    <3> QED  BY <1>4, <2>3, <2>5, <3>5
  <2>7. CASE ~ground[i].bound
    <3>1. new = Loose
      BY <2>7
    <3>2. Slot(Loose, contracts[s])
      <4>1. Loose \in Crate /\ Loose.id # -1
        BY DEF Loose, Crate, AnyPair, NoPair
      <4> QED  BY <4>1 DEF Slot, Honest, Loose
    <3> QED  BY <1>4, <2>3, <2>5, <3>1, <3>2
  <2> QED  BY <2>6, <2>7
<1>7. CASE TakeFromWarehouse(s)
  <2> DEFINE i == FromNode(contracts[s], plan[s].at)
             new == [bound |-> TRUE, id |-> contracts[s][i].id,
                     pair |-> contracts[s][i].pair, stolen |-> FALSE]
  <2>1. i # 0 /\ cargo' = [cargo EXCEPT ![s] = new] /\ ground' = ground
    BY <1>7 DEF TakeFromWarehouse
  <2>2. i \in 1 .. Len(contracts[s])
    BY <1>3, <2>1, OriginFound
  <2>3. contracts[s][i] \in Contract
    BY <1>3, <2>2, ElementOfSeq
  <2>4. cargo'[s] = new /\ cargo' = [t \in Seats |-> cargo'[t]]
        /\ \A t \in Seats \ {s} : cargo'[t] = cargo[t]
    BY <1>2, <2>1 DEF Purses
  <2> HIDE DEF i
  <2>5. new.id = contracts[s][i].id /\ new.pair = contracts[s][i].pair /\ new \in Crate
        /\ new.id # -1
    BY <2>3 DEF Crate, Contract, AnyPair
  <2> HIDE DEF new
  <2>6. Slot(new, contracts[s])
    BY <2>2, <2>5 DEF Slot, Covered
  <2> QED  BY <1>3, <1>4, <2>1, <2>4, <2>6
<1> QED  BY <1>5, <1>6, <1>7 DEF ResolvePickup

\* The steps that touch neither crates nor contracts.
LEMMA QuietKeeps ==
  ASSUME IInv, EndMovement \/ NoCard \/ \E s \in Seats : OtherAction(s)
  PROVE  IInv'
<1>1. /\ UNCHANGED <<round, offer, lastOffer, contracts, cargo, ground, plan>>
      /\ todo' \subseteq Seats /\ fights' \in 0 .. MaxFights
      /\ phase \in {"movement", "actions", "cards"}
      /\ phase' \in {"actions", "windfall", "upkeep"}
  BY ContractsAssumption DEF IInv, Board, EndMovement, NoCard, OtherAction, NextInOrder
<1>2. Board'
  BY <1>1 DEF IInv, Board
<1>3. cargo' = [s \in Seats |-> cargo'[s]] /\ \A s \in Seats : Slot(cargo'[s], contracts[s])
  BY <1>1 DEF IInv, Purses
<1> QED  BY <1>1, <1>2, <1>3, CratesMove

\* Cards take crates away or lay one down.
LEMMA CardKeeps ==
  ASSUME IInv, DropCargo \/ DestroyCargo \/ LooseCrate
  PROVE  IInv'
<1>1. Board /\ Purses
  BY DEF IInv
<1>2. /\ UNCHANGED <<round, offer, lastOffer, contracts, plan, todo, fights>>
      /\ phase = "cards" /\ phase' = "upkeep"
  BY DEF DropCargo, DestroyCargo, LooseCrate
<1>3. ground' \in Seq(Dropped)
  <2>1. CASE DropCargo
    <3>1. PICK S \in Caught, where \in [Seats -> Nodes] : ground' = GroundAfter(S, where)
      BY <2>1 DEF DropCargo
    <3>2. S \in SUBSET Seats
      BY DEF Caught
    <3> QED  BY <1>1, <3>1, <3>2, GroundGrows DEF Board
  <2>2. CASE DestroyCargo
    BY <1>1, <2>2 DEF DestroyCargo, Board
  <2>3. CASE LooseCrate
    <3>1. PICK n \in Nodes : ground' =
            Append(ground, [at |-> n, bound |-> FALSE, pair |-> NoPair, was |-> NoPair])
      BY <2>3 DEF LooseCrate
    <3>2. [at |-> n, bound |-> FALSE, pair |-> NoPair, was |-> NoPair] \in Dropped
      BY DEF Dropped, AnyPair
    <3> QED  BY <1>1, <3>1, <3>2, AppendProperties DEF Board
  <2> QED  BY <2>1, <2>2, <2>3
<1>4. /\ cargo' = [s \in Seats |-> cargo'[s]]
      /\ \A s \in Seats : cargo'[s] \in {NoCargo, cargo[s]}
  BY <1>1 DEF Purses, DropCargo, DestroyCargo, LooseCrate
<1>5. Board'
  BY <1>1, <1>2, <1>3 DEF Board
<1>6. \A s \in Seats : Slot(cargo'[s], contracts[s])
  BY <1>1, <1>4, EmptySlot DEF Purses
<1> QED  BY <1>2, <1>4, <1>5, <1>6, CratesMove

\* A seat that gives up its crate may give up a contract with it.
LEMMA ContractsGo ==
  ASSUME IInv, Board', offer' = offer, round' = round,
         phase \notin {"orders", "offers"}, phase' \notin {"orders", "offers"},
         contracts' = [s \in Seats |-> contracts'[s]], cargo' = [s \in Seats |-> cargo'[s]],
         \A s \in Seats : Book(contracts'[s]) /\ Slot(cargo'[s], contracts'[s])
  PROVE  IInv'
<1>1. Purses'
  BY DEF Purses, Book, Slot
<1>2. OffersHaveRoom' /\ Timely'
  BY DEF IInv, OffersHaveRoom, Timely
<1> QED  BY <1>1, <1>2 DEF IInv

\* The Fence takes one seat's crate, and the contract the crate names.
LEMMA WindfallKeeps == IInv /\ Windfall => IInv'
<1> SUFFICES ASSUME IInv, Windfall PROVE IInv'
  OBVIOUS
<1>1. Board /\ Purses
  BY DEF IInv
<1>2. /\ phase = "windfall" /\ phase' = "deliveries"
      /\ UNCHANGED <<round, offer, lastOffer, ground, plan, todo, fights>>
  BY DEF Windfall
<1>3. Board'
  BY <1>1, <1>2 DEF Board
<1>4. CASE UNCHANGED <<cargo, contracts>>
  BY <1>1, <1>2, <1>3, <1>4, ContractsGo DEF Purses
<1>5. ASSUME NEW s \in Seats, cargo' = [cargo EXCEPT ![s] = NoCargo],
             contracts' = [contracts EXCEPT ![s] =
               IF cargo[s].bound THEN Without(@, WithID(@, cargo[s].id)) ELSE @]
      PROVE  IInv'
  <2>1. cargo' = [t \in Seats |-> cargo'[t]] /\ contracts' = [t \in Seats |-> contracts'[t]]
    BY <1>1, <1>5 DEF Purses
  <2>2. ASSUME NEW t \in Seats  PROVE Book(contracts'[t]) /\ Slot(cargo'[t], contracts'[t])
    <3>1. Book(contracts[t]) /\ Slot(cargo[t], contracts[t])
      BY <1>1 DEF Purses
    <3>2. CASE t # s
      <4>1. cargo'[t] = cargo[t] /\ contracts'[t] = contracts[t]
        BY <1>1, <1>5, <3>2 DEF Purses
      <4> QED  BY <3>1, <4>1
    <3>3. CASE t = s
      <4> DEFINE i == WithID(contracts[s], cargo[s].id)
      <4>1. cargo'[t] = NoCargo /\ contracts'[t] \in {contracts[s], Without(contracts[s], i)}
        BY <1>1, <1>5, <3>3 DEF Purses
      <4>2. i \in 0 .. Len(contracts[s])
        BY <3>1, <3>3, IDFound DEF Book
      <4>3. Book(Without(contracts[s], i))
        BY <3>1, <3>3, <4>2, WithoutKeepsBook
      <4> QED  BY <3>1, <3>3, <4>1, <4>3, EmptySlot
    <3> QED  BY <3>2, <3>3
  <2> QED  BY <1>2, <1>3, <2>1, <2>2, ContractsGo
<1> QED  BY <1>4, <1>5 DEF Windfall

\* A delivery ends the crate and its contract together.
LEMMA DeliveriesKeep == IInv /\ ResolveDeliveries => IInv'
<1> SUFFICES ASSUME IInv, ResolveDeliveries PROVE IInv'
  OBVIOUS
<1>1. Board /\ Purses
  BY DEF IInv
<1>2. /\ phase = "deliveries" /\ phase' = "cards" /\ plan' = AtRest
      /\ UNCHANGED <<round, offer, lastOffer, ground, todo, fights>>
  BY DEF ResolveDeliveries
<1>3. Board'
  <2>1. AtRest \in [Seats -> Plans]
    BY DEF AtRest, Plans
  <2> QED  BY <1>1, <1>2, <2>1 DEF Board
<1>4. /\ cargo' = [s \in Seats |-> IF Delivers(s) THEN NoCargo ELSE cargo[s]]
      /\ contracts' = [s \in Seats |->
           IF Delivers(s) /\ cargo[s].bound
           THEN Without(contracts[s], WithID(contracts[s], cargo[s].id)) ELSE contracts[s]]
  BY DEF ResolveDeliveries
<1>5. ASSUME NEW s \in Seats  PROVE Book(contracts'[s]) /\ Slot(cargo'[s], contracts'[s])
  <2>1. Book(contracts[s]) /\ Slot(cargo[s], contracts[s])
    BY <1>1 DEF Purses
  <2>2. CASE ~Delivers(s)
    BY <1>4, <2>1, <2>2
  <2>3. CASE Delivers(s)
    <3> DEFINE i == WithID(contracts[s], cargo[s].id)
    <3>1. cargo'[s] = NoCargo /\ contracts'[s] \in {contracts[s], Without(contracts[s], i)}
      BY <1>4, <2>3
    <3>2. i \in 0 .. Len(contracts[s])
      BY <2>1, IDFound DEF Book
    <3>3. Book(Without(contracts[s], i))
      BY <2>1, <3>2, WithoutKeepsBook
    <3> QED  BY <2>1, <3>1, <3>3, EmptySlot
  <2> QED  BY <2>2, <2>3
<1>6. contracts' = [s \in Seats |-> contracts'[s]] /\ cargo' = [s \in Seats |-> cargo'[s]]
  BY <1>4
<1> QED  BY <1>2, <1>3, <1>5, <1>6, ContractsGo

\* An overdue contract takes the crate its ID names; IDs being unique, an honest
\* crate whose contract still has time keeps it.
LEMMA UpkeepKeeps == IInv /\ UpkeepContracts => IInv'
<1> SUFFICES ASSUME IInv, UpkeepContracts PROVE IInv'
  OBVIOUS
<1>1. Board /\ Purses /\ OffersHaveRoom
  BY DEF IInv
<1>2. /\ phase = "upkeep" /\ phase' = "offers"
      /\ UNCHANGED <<round, offer, lastOffer, ground, plan, todo, fights>>
  BY DEF UpkeepContracts
<1>3. contracts' = [s \in Seats |-> Current(contracts[s])]
  BY DEF UpkeepContracts
<1>4. cargo' = [s \in Seats |->
        IF /\ cargo[s].bound /\ WithID(contracts[s], cargo[s].id) # 0
           /\ Overdue(contracts[s][WithID(contracts[s], cargo[s].id)])
        THEN NoCargo ELSE cargo[s]]
  BY DEF UpkeepContracts
<1>5. Board'
  BY <1>1, <1>2 DEF Board
<1>6. ASSUME NEW s \in Seats
      PROVE  /\ Book(contracts'[s]) /\ Slot(cargo'[s], contracts'[s])
             /\ \A j \in 1 .. Len(contracts'[s]) : ~Overdue(contracts'[s][j])
  <2> DEFINE held == contracts[s]
             crate == cargo[s]
             i == WithID(held, crate.id)
  <2>1. Book(held) /\ Slot(crate, held) /\ contracts'[s] = Current(held)
    BY <1>1, <1>3 DEF Purses
  <2>2. /\ Book(Current(held))
        /\ \A j \in 1 .. Len(Current(held)) : ~Overdue(Current(held)[j])
        /\ \A k \in 1 .. Len(held) : ~Overdue(held[k]) =>
             \E j \in 1 .. Len(Current(held)) : Current(held)[j] = held[k]
    BY <2>1, CurrentKeepsBook
  <2>3. cargo'[s] = IF crate.bound /\ i # 0 /\ Overdue(held[i]) THEN NoCargo ELSE crate
    BY <1>4
  <2>4. CASE crate.bound /\ i # 0 /\ Overdue(held[i])
    BY <2>1, <2>2, <2>3, <2>4, EmptySlot
  <2>5. CASE ~(crate.bound /\ i # 0 /\ Overdue(held[i]))
    <3>1. cargo'[s] = crate
      BY <2>3, <2>5
    <3>2. ASSUME Honest(crate)  PROVE Covered(crate, Current(held))
      <4>1. PICK k \in 1 .. Len(held) : held[k].id = crate.id /\ held[k].pair = crate.pair
        BY <2>1, <3>2 DEF Slot, Covered
      <4>2. i \in 1 .. Len(held) /\ held[i].id = crate.id /\ i # 0
        BY <2>1, <4>1, IDFound DEF Book
      <4>3. i = k
        BY <2>1, <4>1, <4>2 DEF Book, UniqueIDs
      <4>4. ~Overdue(held[k])
        BY <2>5, <3>2, <4>2, <4>3 DEF Honest
      <4> QED  BY <2>2, <4>1, <4>4 DEF Covered
    <3>3. Slot(crate, Current(held))
      BY <2>1, <3>2 DEF Slot
    <3> QED  BY <2>1, <2>2, <3>1, <3>3
  <2> QED  BY <2>4, <2>5
<1>7. Purses'
  <2>1. contracts' = [s \in Seats |-> contracts'[s]] /\ cargo' = [s \in Seats |-> cargo'[s]]
    BY <1>3, <1>4
  <2> QED  BY <1>6, <2>1 DEF Purses
<1>8. Timely'
  <2> SUFFICES ASSUME NEW s \in Seats, NEW j \in 1 .. Len(contracts'[s])
               PROVE  contracts'[s][j].expires > round'
    BY DEF Timely
  <2>1. ~Overdue(contracts'[s][j]) /\ contracts'[s][j] \in Contract
    BY <1>6, ElementOfSeq DEF Book
  <2>2. ~(round >= contracts'[s][j].expires)
    BY <2>1 DEF Overdue
  <2>3. contracts'[s][j].expires \in Nat /\ round \in Nat
    BY <1>1, <2>1 DEF Contract, Board
  <2>4. \A e, r \in Nat : ~(r >= e) => e > r
    OBVIOUS
  <2> QED  BY <1>2, <2>2, <2>3, <2>4
<1>9. OffersHaveRoom'
  BY <1>1, <1>2 DEF OffersHaveRoom
<1> QED  BY <1>5, <1>7, <1>8, <1>9 DEF IInv

\* GenerateOffer makes no offer to a seat that is full.
LEMMA PrepareKeeps == IInv /\ PrepareNextRound => IInv'
<1> SUFFICES ASSUME IInv, PrepareNextRound PROVE IInv'
  OBVIOUS
<1>1. Board /\ Purses /\ OffersHaveRoom /\ Timely
  BY DEF IInv
<1>2. /\ phase = "offers" /\ phase' = "orders"
      /\ UNCHANGED <<round, lastOffer, contracts, cargo, ground, plan, todo, fights>>
  BY DEF PrepareNextRound
<1>3. /\ offer' \in [Seats -> SUBSET Pairs]
      /\ \A s \in Seats : offer'[s] # {} => Len(contracts[s]) < 2
  <2>1. CASE round < Rounds
    <3>1. PICK cooldown \in [Seats -> Cooldowns] :
            offer' \in {f \in [Seats -> SUBSET Pairs] :
                          \A s \in Seats : f[s] \in Offered(s, cooldown[s])}
      BY <2>1 DEF PrepareNextRound
    <3>2. \A s \in Seats : offer'[s] \in Offered(s, cooldown[s])
      BY <3>1
    <3>3. \A s \in Seats : offer'[s] # {} => Len(contracts[s]) < 2
      BY <3>2 DEF Offered
    <3> QED  BY <3>1, <3>3
  <2>2. CASE ~(round < Rounds)
    <3>1. offer' = offer
      BY <2>2 DEF PrepareNextRound
    <3> QED  BY <1>1, <1>2, <3>1 DEF Board, OffersHaveRoom
  <2> QED  BY <2>1, <2>2
<1>4. Board'
  BY <1>1, <1>2, <1>3 DEF Board
<1>5. Purses'
  BY <1>1, <1>2 DEF Purses, Book, Slot
<1>6. OffersHaveRoom'
  BY <1>2, <1>3 DEF OffersHaveRoom
<1>7. Timely'
  BY <1>1, <1>2 DEF Timely
<1> QED  BY <1>4, <1>5, <1>6, <1>7 DEF IInv

\* Every step of the round keeps the invariant.
LEMMA StepKeeps == IInv /\ [Next]_vars => IInv'
<1> SUFFICES ASSUME IInv, [Next]_vars PROVE IInv'
  OBVIOUS
<1>1. CASE OpenRound  BY <1>1, OpenRoundKeeps
<1>2. CASE Fight  BY <1>2, FightKeeps
<1>3. CASE Tie  BY <1>3, TieKeeps
<1>4. CASE EndMovement \/ NoCard \/ \E s \in Seats : OtherAction(s)
  BY <1>4, QuietKeeps
<1>5. CASE \E s \in Seats : ResolvePickup(s)
  BY <1>5, PickupKeeps
<1>6. CASE Windfall  BY <1>6, WindfallKeeps
<1>7. CASE ResolveDeliveries  BY <1>7, DeliveriesKeep
<1>8. CASE DropCargo \/ DestroyCargo \/ LooseCrate
  BY <1>8, CardKeeps
<1>9. CASE UpkeepContracts  BY <1>9, UpkeepKeeps
<1>10. CASE PrepareNextRound  BY <1>10, PrepareKeeps
<1>11. CASE UNCHANGED vars
  BY <1>11 DEF vars, IInv, Board, Purses, OffersHaveRoom, Timely, Book, Slot
<1> QED
  BY <1>1, <1>2, <1>3, <1>4, <1>5, <1>6, <1>7, <1>8, <1>9, <1>10, <1>11 DEF Next, MatchOver

-------------------------------------------------------------------------------
(* Results.                                                                  *)

\* So it holds in every reachable state.
LEMMA IInvHolds == Spec => []IInv
BY InitKeeps, StepKeeps, PTL DEF Spec

\* The shapes of everything applyContractChoices, the resolve functions and
\* upkeep pass on.
THEOREM TypeCorrect == Spec => []TypeOK
<1>1. IInv => TypeOK
  <2> SUFFICES ASSUME IInv PROVE TypeOK
    OBVIOUS
  <2>1. \A s \in Seats : contracts[s] \in Seq(Contract) /\ cargo[s] \in Crate
    BY DEF IInv, Purses, Book, Slot
  <2>2. contracts \in [Seats -> Seq(Contract)] /\ cargo \in [Seats -> Crate]
    BY <2>1 DEF IInv, Purses
  <2> QED  BY <2>2 DEF IInv, Board, TypeOK
<1> QED  BY <1>1, IInvHolds, PTL

\* A seat holds at most two contracts and their IDs differ, although
\* nextContractID looks at the first one only.
THEOREM IDsAreUnique == Spec => []IDsNameOneContract
<1>1. IInv => IDsNameOneContract
  BY DEF IInv, Purses, Book, UniqueIDs, IDsNameOneContract
<1> QED  BY <1>1, IInvHolds, PTL

\* No honest crate is without its contract, no deadline is paused twice, none
\* is overdue when orders open (upkeepContracts, WithDeadlinePause).
THEOREM ContractsKept == Spec => []ContractsInOrder
<1>1. IInv => HonestCargoHasItsContract
  BY DEF IInv, Purses, Book, Slot, Honest, Covered, HonestCargoHasItsContract
<1>2. IInv => PausedOnceAtMost
  BY DEF IInv, Purses, Book, Promised, PausedOnceAtMost
<1>3. IInv => NoneOverdue
  BY DEF IInv, Purses, Book, Timely, NoneOverdue
<1>4. IInv => ContractsInOrder
  BY <1>1, <1>2, <1>3 DEF ContractsInOrder
<1> QED  BY <1>4, IInvHolds, PTL

-------------------------------------------------------------------------------
(* Fights and the number of crates.                                          *)

Carriers == {s \in Seats : Carries(s)}

\* Who carries after a fight: those who kept theirs, and the winner that took one.
LEMMA CratesAfterFight ==
  ASSUME IInv, Fight
  PROVE  Crates' = Crates
<1>1. PICK w \in Seats, n \in Nodes :
        \E losers \in (SUBSET (Seats \ {w})) \ {{}} :
        \E guarded \in SUBSET {l \in losers : Carries(l)}, corrected \in BOOLEAN :
          Won(w, n, losers, guarded, corrected)
  BY DEF Fight
<1>2. PICK losers \in (SUBSET (Seats \ {w})) \ {{}} :
        \E guarded \in SUBSET {l \in losers : Carries(l)}, corrected \in BOOLEAN :
          Won(w, n, losers, guarded, corrected)
  BY <1>1
<1>3. PICK guarded \in SUBSET {l \in losers : Carries(l)}, corrected \in BOOLEAN :
        Won(w, n, losers, guarded, corrected)
  BY <1>2
<1> DEFINE forfeit == {l \in losers \ guarded : Carries(l)}
           taken   == IF Carries(w) THEN {}
                      ELSE {l \in forfeit : \A m \in forfeit : l <= m}
           victim  == CHOOSE l \in taken : TRUE
           spoils  == [cargo[victim] EXCEPT !.stolen = cargo[victim].bound]
<1>4. Board /\ Purses
  BY DEF IInv
<1>5. ground' = GroundAfter(forfeit \ taken, [s \in Seats |-> n])
  BY <1>3 DEF Won
<1>6. cargo' = [s \in Seats |-> IF s \in forfeit THEN NoCargo
                                ELSE IF s = w /\ taken # {} THEN spoils ELSE cargo[s]]
  BY <1>3 DEF Won
<1>7. /\ forfeit \subseteq Carriers /\ taken \subseteq forfeit /\ w \notin forfeit
      /\ Carriers \subseteq Seats /\ (taken # {} => w \notin Carriers /\ victim \in taken)
  BY DEF Carriers
<1>8. Seats \subseteq Nat /\ IsFiniteSet(Seats)
  <2>1. NumSeats - 1 \in Int /\ Seats \subseteq Nat
    BY ContractsAssumption DEF Seats
  <2> QED  BY <2>1, FS_Interval DEF Seats
<1>9. taken # {} => taken = {victim}
  <2> SUFFICES ASSUME NEW a \in taken, NEW b \in taken PROVE a = b
    BY <1>7
  <2>1. a <= b /\ b <= a
    OBVIOUS
  <2>2. a \in Nat /\ b \in Nat
    BY <1>7, <1>8
  <2> QED  BY <2>1, <2>2
<1>10. taken # {} => spoils # NoCargo
  <2> SUFFICES ASSUME taken # {} PROVE spoils # NoCargo
    OBVIOUS
  <2>1. victim \in Carriers /\ victim \in Seats
    BY <1>7
  <2>2. cargo[victim] \in Crate /\ cargo[victim].id # -1
    BY <1>4, <2>1 DEF Purses, Slot, Carriers, Carries
  <2>3. spoils.id = cargo[victim].id
    BY <2>2 DEF Crate
  <2> QED  BY <2>2, <2>3 DEF NoCargo
<1> HIDE DEF spoils, victim, taken, forfeit
<1>11. Carriers' = (Carriers \ forfeit) \cup (IF taken # {} THEN {w} ELSE {})
  <2>1. ASSUME NEW s \in Seats
        PROVE  cargo'[s] # NoCargo <=>
                 s \notin forfeit /\ (Carries(s) \/ (s = w /\ taken # {}))
    BY <1>6, <1>10, <2>1 DEF Carries
  <2> QED  BY <1>7, <2>1 DEF Carriers, Carries
<1> DEFINE c == Cardinality(Carriers)
           f == Cardinality(forfeit)
           t == Cardinality(taken)
<1>12. /\ IsFiniteSet(Carriers) /\ IsFiniteSet(forfeit) /\ IsFiniteSet(taken)
       /\ c \in Nat /\ f \in Nat /\ t \in Nat
  <2>1. IsFiniteSet(Carriers)  BY <1>7, <1>8, FS_Subset
  <2>2. IsFiniteSet(forfeit)  BY <1>7, <2>1, FS_Subset
  <2>3. IsFiniteSet(taken)  BY <1>7, <2>2, FS_Subset
  <2> QED  BY <2>1, <2>2, <2>3, FS_CardinalityType
<1>13. IsFiniteSet(Carriers \ forfeit) /\ Cardinality(Carriers \ forfeit) = c - f
  <2>1. Carriers \cap forfeit = forfeit
    BY <1>7
  <2> QED  BY <1>12, <2>1, FS_Difference
<1>14. Cardinality(forfeit \ taken) = f - t
  <2>1. forfeit \cap taken = taken
    BY <1>7
  <2> QED  BY <1>12, <2>1, FS_Difference
<1>15. Cardinality(Carriers') = c - f + t
  <2>1. CASE taken = {}
    <3>1. Carriers' = Carriers \ forfeit /\ t = 0
      BY <1>11, <2>1, FS_EmptySet
    <3> QED  BY <1>12, <1>13, <3>1
  <2>2. CASE taken # {}
    <3>1. Carriers' = (Carriers \ forfeit) \cup {w} /\ w \notin Carriers \ forfeit
      BY <1>7, <1>11, <2>2
    <3>2. t = 1
      BY <1>9, <2>2, FS_Singleton
    <3>3. Cardinality((Carriers \ forfeit) \cup {w}) = Cardinality(Carriers \ forfeit) + 1
      BY <1>13, <3>1, FS_AddElement
    <3> QED  BY <1>12, <1>13, <3>1, <3>2, <3>3
  <2> QED  BY <2>1, <2>2
<1>16. Len(ground') = Len(ground) + (f - t) /\ Len(ground) \in Nat
  <2>1. [s \in Seats |-> n] \in [Seats -> Nodes] /\ ground \in Seq(Dropped)
        /\ forfeit \ taken \in SUBSET Seats
    BY <1>4, <1>7 DEF Board
  <2> QED  BY <1>4, <1>5, <1>14, <2>1, GroundGrows
<1>17. Crates = Len(ground) + c /\ Crates' = Len(ground') + Cardinality(Carriers')
  BY DEF Crates, Carriers
<1> HIDE DEF c, f, t
<1> QED  BY <1>12, <1>15, <1>16, <1>17

\* A fight, decisive or tied, moves crates and neither makes nor destroys one
\* (resolveDecisive, resolveLoser, dropForfeitCargo).
THEOREM FightsConserve == Spec => FightsKeepCargo
<1>1. IInv /\ [Next]_vars => [phase = "movement" => Crates' = Crates]_vars
  <2> SUFFICES ASSUME IInv, Next, phase = "movement" PROVE Crates' = Crates
    BY DEF vars
  <2>1. CASE Fight
    BY <2>1, CratesAfterFight
  <2>2. CASE UNCHANGED <<ground, cargo>>
    BY <2>2 DEF Crates, Carries
  <2>3. Fight \/ Tie \/ EndMovement
    BY DEF Next, OpenRound, ResolvePickup, OtherAction, NextInOrder, Windfall, ResolveDeliveries,
           DropCargo, DestroyCargo, LooseCrate, NoCard, UpkeepContracts, PrepareNextRound, MatchOver
  <2> QED  BY <2>1, <2>2, <2>3 DEF Tie, EndMovement
<1> QED  BY <1>1, IInvHolds, PTL DEF Spec, FightsKeepCargo
===============================================================================
