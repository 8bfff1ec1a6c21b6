-------------------------------- MODULE Legality --------------------------------
(***************************************************************************)
(* Which orders a view allows (internal/rules: legal.go, affordance.go,    *)
(* posts.go).  A view v is a record: the round last closed, the step       *)
(* allowance, fog by node, and the seat's own position, cargo, contracts,  *)
(* offer, balance, Infamy, posts and hand.  An order o has its route, its  *)
(* Pushing On, its declared stake, discards, action and add-ons.           *)
(***************************************************************************)
EXTENDS Integers, Sequences, FiniteSets

CONSTANTS
  Nodes, TypeOf, SectorOf, Paths, \* the map; nodes and sectors are numbered from 1
  Rounds, PostCap,
  LedgerCost, LeaseCost, HandLimit,
  MaxBlocks, MostStake,           \* maxLeaseBlocks (4) and the stake cap (6)
  Suppressed                      \* Config.Suppress: some of "leases", "items"

NoNode == 0   NoSector == 0
Hidden == 0   Rumoured == 1   Known == 2   InSight == 3
NoCargo == -2 LooseCrate == -1  \* or the contract's ID, 0 or 1

Neighbours(n) == {m \in Nodes : {n, m} \in Paths}

\* The edges a view discloses: those of Known nodes.
Edges(v, n) == IF v.fog[n] >= Known THEN Neighbours(n) ELSE {}

\* routeEndpoint, endingNode.
EndOf(v, route) == IF route = <<>> THEN v.pos ELSE route[Len(route)]
EndsHidden(v, route) == v.fog[EndOf(v, route)] = Hidden

LegalRoute(v, route) ==
  \A i \in 1 .. Len(route) :
    LET to == route[i] IN
    /\ to \in Edges(v, EndOf(v, SubSeq(route, 1, i - 1)))
    /\ v.fog[to] # Rumoured
    /\ v.fog[to] = Hidden => i = Len(route)

NoPush == [steps |-> 0, bias |-> NoSector]

LegalPushingOn(v, o) ==
  o.push # NoPush => /\ o.push.steps \in 0 .. 2
                     /\ EndsHidden(v, o.route)
                     /\ o.act = "nothing"

\* deliverableCargo: a loose crate anywhere, a bound one where its contract says.
Deliverable(v, n) ==
  /\ v.cargo # NoCargo
  /\ v.cargo # LooseCrate => \E c \in v.contracts : c.id = v.cargo /\ c.dest = n

LegalAction(v, o) ==
  LET n == EndOf(v, o.route) IN
  /\ o.act = "pickup" => ~v.strike
  /\ o.act = "stake" => "leases" \notin Suppressed
  /\ o.act = "deal" => "items" \notin Suppressed
  /\ v.fog[n] # Hidden =>
       /\ o.act = "deliver" => TypeOf[n] = "border" /\ Deliverable(v, n)
       /\ o.act = "deal" => TypeOf[n] = "market"

Spent(o) == (IF o.ledger THEN LedgerCost ELSE 0) + o.blocks * LeaseCost

LegalBalance(v, o) ==
  /\ o.ledger => v.round < Rounds      \* Order.Round is the view's
  /\ Spent(o) <= v.balance

Held(v) == {n \in Nodes : v.posts[n] > 0}
PostCapReached(v) == Cardinality(Held(v)) >= PostCap

LegalPostCap(v, o) == o.act = "stake" => ~PostCapReached(v)

Count(seq, x) == Cardinality({i \in 1 .. Len(seq) : seq[i] = x})

LegalDiscards(v, o) ==
  \A i \in 1 .. Len(o.items) :
    LET item == o.items[i].item
    IN Count([j \in 1 .. Len(o.items) |-> o.items[j].item], item) <= Count(v.items, item)

\* The nodes within k steps of one, through Known ground; a Hidden one may end a way.
Reach(v, from) ==
  LET W[k \in 0 .. Cardinality(Nodes)] ==
        IF k = 0 THEN {from} ELSE W[k - 1] \cup UNION {Edges(v, n) : n \in W[k - 1]}
  IN W

\* knownSubgraphDistance, compared with 2; distanceTwoNodeIDs.
TwoAway(v) == {n \in Reach(v, v.pos)[2] \ Reach(v, v.pos)[1] : v.fog[n] >= Known}

LegalItemTargets(v, o) ==
  \A i \in 1 .. Len(o.items) :
    LET d == o.items[i] IN
    /\ d.item # "muscle"
    /\ d.item = "decoy" => v.fog[d.at] >= Known
    /\ d.item = "band" => v.fog[d.at] # Hidden
    /\ d.item = "boltHole" => d.at \in TwoAway(v)

LegalHandLimit(v, o) ==
  o.act = "deal" => Len(v.items) - Len(o.items) + 1 <= HandLimit

Legal(v, o) ==
  /\ LegalRoute(v, o.route) /\ Len(o.route) <= v.steps
  /\ LegalPushingOn(v, o) /\ LegalAction(v, o)
  /\ o.stake >= 0
  /\ LegalBalance(v, o) /\ LegalPostCap(v, o)
  /\ LegalDiscards(v, o) /\ LegalItemTargets(v, o) /\ LegalHandLimit(v, o)

-------------------------------------------------------------------------------
(* Affordances: what a draft may still do.                                   *)

Least(a, b) == IF a < b THEN a ELSE b
Most(a, b)  == IF a > b THEN a ELSE b

StepsRemaining(v, route) == Most(0, v.steps - Len(route))
MaxStake(v) == Least(MostStake, v.balance)

\* RenewalBlockCap, RenewedRoundsRemaining: blocks of so many rounds each.
RenewalBlockCap(current, rounds) ==
  IF rounds <= 0 THEN 0 ELSE Most(0, MaxBlocks * rounds - current) \div rounds
RenewedRounds(current, blocks, rounds) ==
  IF rounds <= 0 THEN current ELSE Least(MaxBlocks * rounds, current + blocks * rounds)

MaxLeaseBlocks(v, o) ==
  LET left       == v.balance - (IF o.ledger THEN LedgerCost ELSE 0)
      affordable == IF LeaseCost > 0 THEN Most(0, Least(MaxBlocks, left \div LeaseCost)) ELSE 0
  IN IF o.blocks > 0 /\ o.renewAt \in Held(v)
     THEN Least(affordable, RenewalBlockCap(v.posts[o.renewAt], v.blockRounds))
     ELSE affordable
===============================================================================
