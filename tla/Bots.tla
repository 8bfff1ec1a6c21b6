---------------------------------- MODULE Bots ----------------------------------
(***************************************************************************)
(* A seat played by a bot (internal/bots), round after round.  Decide sees *)
(* a view and gives an order; Begin, Advance, Fight and Close resolve it   *)
(* (internal/rules).  The Drifter draws any legal order, the Runner and    *)
(* the Operator compute theirs.  A bot keeps nothing between rounds.       *)
(*                                                                         *)
(* The others are the choices of Fight, a post of theirs in the way, and   *)
(* the view.  Of the cards the module has what costs a lease (Torched) or  *)
(* changes a payment; Gas Leak, Sinkholes, sealed Borders, a Pickup off    *)
(* the ground, and what a card does to a seat once the add-ons are paid    *)
(* are left to City, Movement and Contracts.  AbandonCargo, which nothing  *)
(* reads, is left out.                                                     *)
(***************************************************************************)
EXTENDS Legality

CONSTANTS
  MarketOf,             \* node to the items its Black Market opens with
  XOf, YOf, RateOf,     \* coordinates; traffic rate, 0 where it does not qualify
  ShakedownCost, ItemPrice, GateFee,
  ComfortBand,          \* InfamyComfortBand (8)
  PayOf, DeadlineOf, PenaltyOf, GainOf, LossOf, \* Config.Contracts, by tier
  LoosePay,             \* what loose crates pay
  MaxInfamy,
  DriftRounds,          \* bound: orders a Drifter is followed for; the last is not resolved
  BlockRounds,          \* bound: the values of Config.LeaseBlockRounds
  Starts,               \* bound: the states a match may hand the seat over in
  Weathers,             \* bound: what a round's cards and rivals may show
  Offers,               \* bound: the offers a round may bring
  LongestPlan,          \* bound: steps the others may go on for
  MostFights,           \* bound: by round, fights of the seat
  Takings, Crates,      \* bound: what a fight won may bring
  Fires                 \* bound: by round, what Torched may strike; NoSector if not drawn

VARIABLES
  tier, blockRounds,
  round, phase,
  me,                   \* the seat: pos, fog, cargo, contracts, offer, balance, infamy,
                        \* held (Player.Posts), posts (their rounds remaining), items
  stock,                \* NodeView.Market of the Black Markets
  weather,              \* steps, strike, headline sector and its penalty, threat, jump, far
  order,
  walk,                 \* seatWalk; where the seat may be met in this step
  fights,               \* bound: fights of this round
  purse, shaken,        \* history: the balance decided on, the shakedowns paid since
  struck, lapsed, inDebt \* history: the sector torched, the posts that ran out, an add-on
                        \* the balance could not cover

vars == <<tier, blockRounds, round, phase, me, stock, weather, order, walk, fights,
          purse, shaken, struck, lapsed, inDebt>>

NoWalk == [step |-> 0, previous |-> NoNode, path |-> <<>>, at |-> {}]
NoOrder == [route |-> <<>>, push |-> NoPush, stance |-> "neutral", stake |-> 0, items |-> <<>>, act |-> "nothing",
            item |-> "none", ledger |-> FALSE, blocks |-> 0, renewAt |-> NoNode, choice |-> 0]

-------------------------------------------------------------------------------
(* What a match gives.                                                       *)

Tiers == DOMAIN PayOf
Offered == [origin : Nodes, dest : Nodes, tier : Tiers]
Contracts == [id : {0, 1}, origin : Nodes, dest : Nodes, tier : Tiers, expires : Int,
              paused : {0, 1}]

\* A seat: it stands on ground it Knows and is not in debt; its contracts have IDs
\* of their own, and one is left for an offer's.
Seated(m) ==
  /\ DOMAIN m = {"pos", "fog", "cargo", "contracts", "offer", "balance", "infamy", "held",
                 "posts", "items"}
  /\ m.pos \in Nodes
  /\ m.fog \in [Nodes -> Hidden .. InSight]
  /\ m.fog[m.pos] >= Known
  /\ m.balance \in Nat
  /\ m.held \in SUBSET Nodes /\ m.posts \in [Nodes -> Int]
  /\ m.contracts \in SUBSET Contracts
  /\ \A c, d \in m.contracts : c.id = d.id => c = d
  /\ m.offer \in Seq(Offered)
  /\ m.offer # <<>> => \E i \in {0, 1} : \A c \in m.contracts : c.id # i

\* Between rounds a post held has rounds left, any other none.
Settled(m) == \A n \in Nodes : m.posts[n] >= 0 /\ (n \in m.held <=> m.posts[n] > 0)

\* What every map and match gives: numbered nodes, costs and pay of no less than
\* nothing, and seats, offers and weather that fit them.
Setting ==
  /\ Nodes \in SUBSET (Nat \ {NoNode}) /\ IsFiniteSet(Nodes)
  /\ \A n \in Nodes : XOf[n] \in Int /\ YOf[n] \in Int /\ RateOf[n] \in Int
  /\ LedgerCost \in Nat /\ LeaseCost \in Nat /\ ShakedownCost \in Nat /\ ItemPrice \in Nat
  /\ GateFee \in Nat /\ MaxBlocks \in Nat /\ MostStake \in Nat
  /\ 0 \in Tiers
  /\ \A t \in Tiers : t \in Int /\ PayOf[t] \in Nat /\ DeadlineOf[t] \in Int /\ PenaltyOf[t] \in Nat
  /\ LoosePay \in SUBSET Nat /\ Takings \in SUBSET Nat
  /\ BlockRounds \in SUBSET Int
  /\ \A w \in Weathers : w.steps \in Nat /\ w.penalty \in Int
  /\ Offers \in SUBSET Seq(Offered)
  /\ \A m \in Starts : Seated(m) /\ Settled(m)

\* A block costs something and lasts a round or more, and two may be bought at once:
\* what upkeep takes the round they are bought does not use them up.
Lasts == LeaseCost > 0 /\ MaxBlocks >= 2 /\ \A r \in BlockRounds : r > 0

\* Half of what any crate pays, Gates Closed, covers the gate.
Pays == \A r \in LoosePay \cup {PayOf[t] : t \in Tiers} : r \div 2 >= GateFee

-------------------------------------------------------------------------------
(* What a bot is shown.                                                      *)

View ==
  [pos |-> me.pos, fog |-> me.fog, cargo |-> me.cargo, contracts |-> me.contracts,
   offer |-> me.offer, balance |-> me.balance, infamy |-> me.infamy, posts |-> me.posts,
   items |-> me.items, round |-> round, blockRounds |-> blockRounds, stock |-> stock,
   steps |-> weather.steps, strike |-> weather.strike, headline |-> weather.headline,
   penalty |-> weather.penalty, threat |-> weather.threat, jump |-> weather.jump,
   far |-> weather.far]

-------------------------------------------------------------------------------
(* legalspace.go: the toolkit.                                               *)

\* Mutant: the last step of the allowance is never planned.
CutShort(v) ==
  LET R[k \in 0 .. v.steps] ==
        IF k = 0 THEN {<<>>}
        ELSE R[k - 1] \cup
             {Append(w[1], w[2]) : w \in
                {x \in R[k - 1] \X Nodes : Len(x[1]) < v.steps - 1 /\ x[2] \in Edges(v, EndOf(v, x[1]))}}
  IN R[v.steps]

\* Routes: every walk the view discloses, as far as the allowance goes.
Routes(v) ==
  LET R[k \in 0 .. v.steps] ==
        IF k = 0 THEN {<<>>}
        ELSE LET S == R[k - 1] IN
             S \cup {Append(w[1], w[2]) : w \in
                       {x \in S \X Nodes :
                          x[2] \in Edges(v, EndOf(v, x[1])) /\ v.fog[x[2]] # Rumoured}}
  IN R[v.steps]

\* knownDistances: the distances of one node from those of its Known surroundings.
KnownBall(v, from) ==
  LET W[k \in 0 .. Cardinality(Nodes)] ==
        IF k = 0 THEN {from}
        ELSE LET B == W[k - 1]
             IN B \cup {m \in UNION {Edges(v, n) : n \in B} : v.fog[m] >= Known}
  IN W
Reachable(v, from, n) == n \in KnownBall(v, from)[Cardinality(Nodes)]
Dist(v, from, n) ==
  LET W == KnownBall(v, from)
  IN CHOOSE k \in 0 .. Cardinality(Nodes) : n \in W[k] /\ \A j \in 0 .. k - 1 : n \notin W[j]

\* PushingOns: none, or any but "zero steps, no bias".
PushingOns(v, route) ==
  IF EndsHidden(v, route)
  THEN [steps : 0 .. 2, bias : {NoSector} \cup {SectorOf[n] : n \in Nodes}]
  ELSE {NoPush}

\* sampleItems: keep or discard each item but Muscle, at a target of its own kind.
Targets(v, item) ==
  CASE item = "decoy"    -> {n \in Nodes : v.fog[n] >= Known}
    [] item = "band"     -> {n \in Nodes : v.fog[n] # Hidden}
    [] item = "boltHole" -> TwoAway(v)
    [] OTHER             -> {NoNode}
Discards(v) ==
  LET D[i \in 0 .. Len(v.items)] ==
        IF i = 0 THEN {<<>>}
        ELSE D[i - 1] \cup
             (IF v.items[i] = "muscle" THEN {}
              ELSE {Append(x[1], [item |-> v.items[i], at |-> x[2]]) :
                      x \in D[i - 1] \X Targets(v, v.items[i])})
  IN D[Len(v.items)]

\* Actions: those that make the draft legal; with Pushing On, only nothing.
WithAction(o, a) == [o EXCEPT !.act = a.act, !.item = a.item]
Doing(act) == [act |-> act, item |-> "none"]

Actions(v, o) ==
  LET end == EndOf(v, o.route)
      candidates ==
        IF o.push # NoPush THEN {Doing("nothing")}
        ELSE {Doing(a) : a \in {"nothing", "vanish", "surveil", "pickup", "stake", "deliver"}}
             \cup (IF v.fog[end] = InSight /\ TypeOf[end] = "market"
                   THEN {[act |-> "deal", item |-> i] : i \in v.stock} ELSE {})
  IN {a \in candidates : Legal(v, WithAction(o, a))}

\* legalActionsOrRelax: drop the discards, then Pushing On, until something is legal.
Relaxed(v, o) ==
  IF Actions(v, o) # {} THEN o
  ELSE LET bare == [o EXCEPT !.items = <<>>]
       IN IF Actions(v, bare) # {} THEN bare ELSE [bare EXCEPT !.push = NoPush]

\* sampleAddOns: a Ledger, then blocks for a post held or just staked.
RenewTargets(v, o) == Held(v) \cup (IF o.act = "stake" THEN {EndOf(v, o.route)} ELSE {})
\* Mutant: the blocks are counted as if the Ledger were free.
LedgerIsFree(v, o) ==
  UNION {LET l == [o EXCEPT !.ledger = ledger] IN
         {l} \cup UNION {{[l EXCEPT !.renewAt = n, !.blocks = b] :
                            b \in 1 .. MaxLeaseBlocks(v, [o EXCEPT !.renewAt = n, !.blocks = 1])} :
                         n \in RenewTargets(v, o)} :
         ledger \in {x \in BOOLEAN : x => v.round < Rounds /\ LedgerCost <= v.balance}}
SampledAddOns(v, o) ==
  UNION {LET l == [o EXCEPT !.ledger = ledger] IN
         {l} \cup UNION {{[l EXCEPT !.renewAt = n, !.blocks = b] :
                            b \in 1 .. MaxLeaseBlocks(v, [l EXCEPT !.renewAt = n, !.blocks = 1])} :
                         n \in RenewTargets(v, o)} :
         ledger \in {x \in BOOLEAN : x => v.round < Rounds /\ LedgerCost <= v.balance}}

\* sampleStance: only the Aggressive stake anything.
Stances(v) ==
  {<<"neutral", 0>>, <<"evasive", 0>>} \cup {<<"aggressive", s>> : s \in {0, MaxStake(v)}}

\* Sample, of which the Drifter's Decide is all.
Drift(v) ==
  \E route \in Routes(v) :
    \E push \in PushingOns(v, route), stance \in Stances(v), items \in Discards(v) :
      LET draft == Relaxed(v, [NoOrder EXCEPT !.route = route, !.push = push, !.items = items,
                                              !.stance = stance[1], !.stake = stance[2]])
      IN \E a \in Actions(v, draft) :
           \E full \in SampledAddOns(v, WithAction(draft, a)), choice \in 0 .. Len(v.offer) :
             order' = [full EXCEPT !.choice = choice]

-------------------------------------------------------------------------------
(* runner.go.                                                                *)

First(S, Before(_, _)) == CHOOSE x \in S : \A y \in S \ {x} : Before(x, y)
Lower(a, b) == a < b

\* nearestKnownBorder: by distance, then by number; an unreachable one for want of better.
NearestKnownBorder(v) ==
  LET known  == {n \in Nodes : TypeOf[n] = "border" /\ v.fog[n] >= Known}
      inWalk == {n \in known : Reachable(v, v.pos, n)}
      Nearer(a, b) == LET i == Dist(v, v.pos, a)  j == Dist(v, v.pos, b)
                      IN i < j \/ (i = j /\ a < b)
  IN IF inWalk # {} THEN First(inWalk, Nearer)
     ELSE IF known # {} THEN First(known, Lower) ELSE NoNode

\* runnerObjective: the crate's destination, else the most urgent contract's origin.
RunnerObjective(v) ==
  LET Urgent(c, d) == c.expires < d.expires \/ (c.expires = d.expires /\ c.id < d.id)
      its == {c \in v.contracts : c.id = v.cargo}
  IN IF v.cargo = LooseCrate THEN NearestKnownBorder(v)
     ELSE IF v.cargo # NoCargo THEN (IF its = {} THEN NoNode ELSE First(its, Urgent).dest)
     ELSE IF v.contracts = {} THEN NoNode ELSE First(v.contracts, Urgent).origin

\* slices.Compare, of routes of one length.
Precedes(p, q) == \E i \in 1 .. Len(p) : p[i] < q[i] /\ \A j \in 1 .. i - 1 : p[j] = q[j]

\* The members of S that f is least on.
LeastOn(S, f) == LET least == First({f[x] : x \in S}, Lower) IN {x \in S : f[x] = least}

\* nearestRoute, by the tier's own score: the best, then the shortest, then the first.
NearestRoute(v, objective, score) ==
  LET known  == {r \in Routes(v) : ~EndsHidden(v, r) /\ Reachable(v, objective, EndOf(v, r))}
      steps  == [r \in known |-> Len(r)]
  IN First(LeastOn(LeastOn(known, score), steps), Precedes)

\* exploreRoute: towards the objective's place as the view gives it (the zero
\* NodeView's (0, 0) while it is Hidden), then into the dark, then the longest.
ExploreScore(v, r, objective) ==
  LET end  == EndOf(v, r)
      last == IF v.fog[end] # Hidden THEN end ELSE EndOf(v, SubSeq(r, 1, Len(r) - 1))
      shown == v.fog[objective] # Hidden
      dx == XOf[last] - (IF shown THEN XOf[objective] ELSE 0)
      dy == YOf[last] - (IF shown THEN YOf[objective] ELSE 0)
  IN dx * dx + dy * dy

ExploreRoute(v, objective) ==
  LET routes == Routes(v)
      score  == [r \in routes |-> IF objective = NoNode THEN 0 ELSE ExploreScore(v, r, objective)]
      light  == [r \in routes |-> IF EndsHidden(v, r) THEN 0 ELSE 1]
      steps  == [r \in routes |-> -Len(r)]
  IN First(LeastOn(LeastOn(LeastOn(routes, score), light), steps), Precedes)

\* chooseRoute, of both tiers.
ChooseRoute(v, objective, score) ==
  IF objective # NoNode /\ Reachable(v, objective, v.pos)
  THEN NearestRoute(v, objective, score) ELSE ExploreRoute(v, objective)

\* choosePushingOn: as far as allowed, towards the objective's sector if it is shown.
ChoosePushingOn(v, route, objective) ==
  IF ~EndsHidden(v, route) THEN NoPush
  ELSE [steps |-> 2,
        bias |-> IF objective # NoNode /\ v.fog[objective] # Hidden
                 THEN SectorOf[objective] ELSE NoSector]

CanDeliver(v, end) == v.fog[end] # Hidden /\ TypeOf[end] = "border" /\ Deliverable(v, end)
CanPickup(v, end, objective) ==
  /\ v.cargo = NoCargo /\ ~v.strike /\ v.contracts # {}
  /\ objective # NoNode /\ end = objective

RunnerAction(v, end, objective) ==
  IF CanDeliver(v, end) THEN "deliver"
  ELSE IF CanPickup(v, end, objective) THEN "pickup"
  ELSE IF v.infamy > ComfortBand THEN "vanish" ELSE "nothing"

\* Mutant: the last coin may go on a lease.
ReserveSpent(v) ==
  LET Sooner(m, n) == v.posts[m] < v.posts[n] \/ (v.posts[m] = v.posts[n] /\ m < n)
      target == First(Held(v), Sooner)
  IN IF Held(v) = {} \/ v.balance < LeaseCost THEN NoNode ELSE target

\* maybeRenewLease: one block for the post nearest its end, the reserve kept.
AboutToLapse == 2
Renewing(v) ==
  LET Sooner(m, n) == v.posts[m] < v.posts[n] \/ (v.posts[m] = v.posts[n] /\ m < n)
      target == First(Held(v), Sooner)
  IN IF \/ LeaseCost <= 0 \/ Held(v) = {}
        \/ v.posts[target] > AboutToLapse
        \/ v.balance - LeaseCost < ShakedownCost
     THEN NoNode ELSE target
WithRenewal(v, o) ==
  IF Renewing(v) = NoNode THEN o ELSE [o EXCEPT !.renewAt = Renewing(v), !.blocks = 1]

\* chooseContractChoice: the highest tier not measured to be out of reach, then
\* the nearest, then the first offered.  0 accepts none.
Far == 1000   \* unknownContractDistance
ContractChoice(v) ==
  LET ToOrigin(f) == Reachable(v, v.pos, f.origin)
      Measured(f) == ToOrigin(f) /\ Reachable(v, f.origin, f.dest)
      Total(f) == IF Measured(f) THEN Dist(v, v.pos, f.origin) + Dist(v, f.origin, f.dest)
                  ELSE IF ToOrigin(f) THEN Dist(v, v.pos, f.origin) ELSE Far
      fit == {i \in 1 .. Len(v.offer) :
                Measured(v.offer[i]) =>
                  Total(v.offer[i]) <= DeadlineOf[v.offer[i].tier] * Most(v.steps, 1)}
      Better(i, j) ==
        LET f == v.offer[i]  g == v.offer[j] IN
        \/ f.tier > g.tier
        \/ f.tier = g.tier /\ (Total(f) < Total(g) \/ (Total(f) = Total(g) /\ i < j))
  IN IF fit = {} THEN 0 ELSE First(fit, Better)

\* What both tiers settle first: the way, how far to push on from its end, and how
\* to meet others.
RunnerStance(v) == IF v.cargo = NoCargo THEN "neutral" ELSE "evasive"
Planned(v, route, objective) ==
  [NoOrder EXCEPT !.route = route, !.push = ChoosePushingOn(v, route, objective),
                  !.stance = RunnerStance(v)]

RunnerDeed(v, draft, objective) ==
  [draft EXCEPT !.act = IF draft.push # NoPush THEN "nothing"
                        ELSE RunnerAction(v, EndOf(v, draft.route), objective),
                !.choice = ContractChoice(v)]
RunnerFor(v, objective) ==
  LET steps == [r \in Routes(v) |-> Dist(v, objective, EndOf(v, r))]
  IN WithRenewal(v, RunnerDeed(v, Planned(v, ChooseRoute(v, objective, steps), objective),
                               objective))
RunnerOrder(v) == RunnerFor(v, RunnerObjective(v))

-------------------------------------------------------------------------------
(* operator.go.                                                              *)

\* findChokepoint: the nearest busy node it holds no post on.
Chokepoint(v) ==
  LET S == {n \in Nodes : RateOf[n] > 0 /\ n \notin Held(v) /\ Reachable(v, v.pos, n)}
      Better(a, b) ==
        LET i == Dist(v, v.pos, a)  j == Dist(v, v.pos, b)
        IN i < j \/ (i = j /\ (RateOf[a] > RateOf[b] \/ (RateOf[a] = RateOf[b] /\ a < b)))
  IN IF S = {} THEN NoNode ELSE First(S, Better)

\* routeScore: the headlined sector is avoided, except by the objective itself.
RouteScore(v, r, objective) ==
  LET d == Dist(v, objective, EndOf(v, r))
  IN IF d = 0 \/ SectorOf[EndOf(v, r)] # v.headline THEN d ELSE d + v.penalty

\* Mutant: a fresh lease is always one block (issue 236).
OneBlock(rounds) == IF rounds <= 0 THEN 0 ELSE 1
\* stakeBlocksToSurviveUpkeep.
BlocksToSurvive(rounds) == IF rounds <= 0 THEN 0 ELSE (rounds + 1) \div rounds

\* fundNewStake.
Staking(v, o, node) ==
  [o EXCEPT !.renewAt = node, !.blocks = BlocksToSurvive(v.blockRounds), !.act = "stake"]
Fundable(v, o, node) ==
  LET blocks == BlocksToSurvive(v.blockRounds) IN
  /\ LeaseCost > 0 /\ blocks > 0
  /\ v.balance - blocks * LeaseCost >= ShakedownCost
  /\ Legal(v, Staking(v, o, node))

\* wantsLedger, and chooseAddOns' joint reserve.
WithLedger(v, o) ==
  [o EXCEPT !.ledger = /\ v.round < Rounds /\ LedgerCost <= v.balance
                       /\ v.jump
                       /\ v.balance - o.blocks * LeaseCost - LedgerCost >= ShakedownCost]

\* wantsItem: under threat, what the market in sight has of its preference.
Preference == <<"muscle", "shiv", "boltHole">>
Wanted(v, end) ==
  IF ~v.threat \/ v.fog[end] # InSight \/ TypeOf[end] # "market" THEN {}
  ELSE {i \in 1 .. Len(Preference) : Preference[i] \in v.stock}

TimeToVanish(v) == v.infamy > ComfortBand /\ v.far

\* chooseAddOns: a lease about to lapse, or else a post where it stands guard;
\* then the Ledger, out of what that leaves.
Funds(v, draft, job, goal) ==
  /\ job = NoNode /\ goal # NoNode /\ EndOf(v, draft.route) = goal
  /\ Renewing(v) = NoNode /\ Fundable(v, draft, goal)
OperatorAddOns(v, draft, goal, funds) ==
  WithLedger(v, IF funds THEN [Staking(v, draft, goal) EXCEPT !.act = "nothing"]
                ELSE WithRenewal(v, draft))

\* pickOperatorAction, of the actions can.
OperatorDeed(v, end, goal, funds, can) ==
  LET deal == IF Wanted(v, end) = {} THEN Doing("deal")
              ELSE [act |-> "deal", item |-> Preference[First(Wanted(v, end), Lower)]]
  IN IF CanDeliver(v, end) /\ Doing("deliver") \in can THEN Doing("deliver")
     ELSE IF CanPickup(v, end, goal) /\ Doing("pickup") \in can THEN Doing("pickup")
     ELSE IF funds /\ Doing("stake") \in can THEN Doing("stake")
     ELSE IF deal \in can THEN deal
     ELSE IF TimeToVanish(v) /\ Doing("vanish") \in can THEN Doing("vanish")
     ELSE Doing("nothing")

OperatorActs(v, ready, goal, funds) ==
  [WithAction(ready, OperatorDeed(v, EndOf(v, ready.route), goal, funds, Actions(v, ready)))
     EXCEPT !.choice = ContractChoice(v)]
OperatorDraft(v, goal) ==
  LET score == [r \in Routes(v) |-> RouteScore(v, r, goal)]
  IN Planned(v, ChooseRoute(v, goal, score), goal)
OperatorPlays(v, draft, goal, funds) ==
  OperatorActs(v, Relaxed(v, OperatorAddOns(v, draft, goal, funds)), goal, funds)
OperatorOn(v, draft, job, goal) == OperatorPlays(v, draft, goal, Funds(v, draft, job, goal))
OperatorFor(v, job, goal) == OperatorOn(v, OperatorDraft(v, goal), job, goal)
OperatorGoal(v, job) == IF job # NoNode THEN job ELSE Chokepoint(v)
OperatorOrder(v) ==
  LET job == RunnerObjective(v) IN OperatorFor(v, job, OperatorGoal(v, job))

-------------------------------------------------------------------------------
(* The rounds.                                                               *)

Init ==
  /\ tier \in {"drifter", "runner", "operator"}
  /\ blockRounds \in BlockRounds
  /\ round = 0 /\ phase = "decide"
  /\ me \in Starts
  /\ stock = UNION {MarketOf[n] : n \in Nodes}
  /\ weather \in Weathers
  /\ order = NoOrder /\ walk = NoWalk /\ fights = 0
  /\ purse = 0 /\ shaken = 0 /\ struck = NoSector /\ lapsed = {} /\ inDebt = FALSE

Decide ==
  /\ phase = "decide" /\ round < Rounds
  /\ tier = "drifter" => round < DriftRounds
  /\ phase' = "resolve"
  /\ CASE tier = "drifter"  -> Drift(View)
       [] tier = "runner"   -> order' = RunnerOrder(View)
       [] tier = "operator" -> order' = OperatorOrder(View)
  /\ purse' = me.balance /\ shaken' = 0
  /\ struck' = NoSector /\ lapsed' = {} /\ inDebt' = FALSE
  /\ UNCHANGED <<tier, blockRounds, round, me, stock, weather, walk, fights>>

\* applyContractChoices, AcceptOffer.
Chosen(m, o) ==
  LET f == m.offer[o.choice]
      id == IF \E c \in m.contracts : c.id = 0 THEN 1 ELSE 0
      c == [id |-> id, origin |-> f.origin, dest |-> f.dest, tier |-> f.tier,
            expires |-> round + 1 + DeadlineOf[f.tier], paused |-> 0]
  IN [m EXCEPT !.offer = <<>>,
               !.contracts = IF o.choice = 0 THEN @ ELSE @ \cup {c}]

\* The top of Resolve, to newSeatWalks.
Begin ==
  /\ phase = "resolve" /\ phase' = "walk"
  /\ tier = "drifter" => round + 1 < DriftRounds
  /\ me' = Chosen(me, order)
  /\ walk' = [NoWalk EXCEPT !.previous = me.pos, !.path = <<me.pos>>]
  /\ UNCHANGED <<tier, blockRounds, round, stock, weather, order, fights, purse, shaken,
                 struck, lapsed, inDebt>>

-------------------------------------------------------------------------------
(* movement.go: a step of everyone's.                                        *)

\* The steps of a plan; movementSteps takes the longest, and one at the least.
PlanLength(o) == Len(o.route) + o.push.steps

\* pushOnCandidates, whatever the bias: back only where there is no other way.
BlindSteps(from, previous) ==
  LET on == Neighbours(from) \ {previous}
  IN IF on # {} THEN on ELSE Neighbours(from)

\* Where the next step leads.
Onward(o, at, w) ==
  IF w.step < Len(o.route) THEN {o.route[w.step + 1]}
  ELSE IF w.step < PlanLength(o) /\ Neighbours(at) # {} THEN BlindSteps(at, w.previous)
  ELSE {at}

\* markNodeKnown.
Marked(fog, n) == [fog EXCEPT ![n] = Most(Known, @)]

\* scavenge: what the die may turn up on a Hidden node: nothing, money or ways on.
Finds(m, to) == IF m.fog[to] = Hidden THEN {"nothing", "money", "ways"} ELSE {"nothing"}
Entering(m, to, found) ==
  [m EXCEPT !.pos = to,
            !.balance = IF found = "money" THEN @ + 3 ELSE @,
            !.fog = [n \in Nodes |-> IF n = to \/ (found = "ways" /\ n \in Neighbours(to))
                                     THEN Most(Known, m.fog[n]) ELSE m.fog[n]]]

\* advance, for this seat; it may then be met where it was or where it is.
Advance ==
  /\ phase = "walk"
  /\ walk.step < PlanLength(order) \/ walk.step < LongestPlan
  /\ \E to \in Onward(order, me.pos, walk) : \E found \in Finds(me, to) :
       /\ me' = Entering(me, to, found)
       /\ walk' = [walk EXCEPT !.step = @ + 1, !.previous = me.pos,
                               !.path = IF to = me.pos THEN @ ELSE Append(@, to),
                               !.at = {me.pos, to}]
  /\ UNCHANGED <<tier, blockRounds, round, phase, stock, weather, order, fights, purse, shaken,
                 struck, lapsed, inDebt>>

-------------------------------------------------------------------------------
(* The hand.                                                                 *)

\* removeOneItem, for each discard.
Without(hand, items) ==
  LET Gone(i) == Count(SubSeq(hand, 1, i), hand[i]) <=
                   Count([j \in 1 .. Len(items) |-> items[j].item], hand[i])
      keep == {i \in 1 .. Len(hand) : ~Gone(i)}
      Nth(k) == CHOOSE i \in keep : Cardinality({j \in keep : j <= i}) = k
  IN [k \in 1 .. Cardinality(keep) |-> hand[Nth(k)]]

-------------------------------------------------------------------------------
(* confront.go: a fight of this step, at node c, as it ends for this seat.   *)

Infamous(m, by) == Least(MaxInfamy, Most(0, m.infamy + by))

\* correctCrossingPositions, fixPathTail.
FixedTail(path, c) ==
  LET front == SubSeq(path, 1, Len(path) - 1)
  IN IF front # <<>> /\ front[Len(front)] = c THEN front ELSE Append(front, c)
PathInto(c) == IF me.pos = c THEN walk.path ELSE FixedTail(walk.path, c)

\* haltOrConvertMovement: the plan and the deed are lost, the steps left are not.
Unspent(o, step) == Most(0, PlanLength(o) - step)
Halted(o, step) ==
  LET walked == Least(step, Len(o.route))
  IN [o EXCEPT !.route = IF Unspent(o, step) = 0 THEN <<>> ELSE SubSeq(@, 1, walked),
               !.push = IF Unspent(o, step) = 0 THEN NoPush
                        ELSE [@ EXCEPT !.steps = step - walked + Unspent(o, step)],
               !.act = "nothing", !.item = "none"]
\* pushback: the ways that may be left of the one walked; its end is where one stands.
RandomHops(c, evasive) ==
  LET Hops(from, barred) ==
        IF Neighbours(from) \subseteq barred THEN {from} ELSE Neighbours(from) \ barred
  IN IF evasive /\ Neighbours(c) # {} THEN UNION {Hops(n, {c}) : n \in Neighbours(c)}
     ELSE Hops(c, {})
PushedBack(path, c, evasive) ==
  LET hops == IF evasive THEN 2 ELSE 1 IN
  IF Len(path) > hops THEN {SubSeq(path, 1, Len(path) - hops)}
  ELSE IF Len(path) = 2 THEN {SubSeq(path, 1, 1)}
  ELSE {<<n>> : n \in RandomHops(c, evasive)}

\* applyDeadlinePause: once for each contract.
Paused(contracts, id) ==
  {IF c.id = id /\ c.paused = 0 THEN [c EXCEPT !.paused = 1, !.expires = @ + 1] ELSE c :
     c \in contracts}

\* What a loser pays: the stake, then an Evasive carrier's shakedown, each as far as
\* the balance goes.
StakeLost(m, o) == Least(o.stake, m.balance)
ShakenDown(m, o) == m.cargo # NoCargo /\ o.stance = "evasive"
Shakedown(m, o) ==
  IF ShakenDown(m, o) THEN Least(ShakedownCost, m.balance - StakeLost(m, o)) ELSE 0

\* resolveLoser: only the whole shakedown saves the crate.
Lost(m, o, to) ==
  [m EXCEPT !.pos = to, !.fog = Marked(@, to),
            !.balance = @ - StakeLost(m, o) - Shakedown(m, o),
            !.infamy = Infamous(m, -1),
            !.contracts = Paused(@, m.cargo),
            !.cargo = IF ShakenDown(m, o) /\ Shakedown(m, o) = ShakedownCost THEN @ ELSE NoCargo]

Muscle == [item |-> "muscle", at |-> NoNode]

\* A seat meets another at most once at a node of a step.
Meets(c) ==
  /\ phase = "walk" /\ c \in walk.at
  /\ fights < MostFights[round] /\ fights' = fights + 1
  /\ UNCHANGED <<tier, blockRounds, round, phase, stock, weather, purse, struck, lapsed, inDebt>>
FoughtAt(c, path) == [walk EXCEPT !.at = @ \ {c}, !.path = path]
\* The next blind step is not back to where the fight was.
NotBackTo(c, w) == IF Unspent(order, w.step) > 0 THEN [w EXCEPT !.previous = c] ELSE w

Loses(c) ==
  /\ Meets(c)
  /\ \E path \in PushedBack(PathInto(c), c, order.stance = "evasive") :
       /\ me' = [Lost(me, order, path[Len(path)]) EXCEPT !.items = Without(@, <<Muscle>>)]
       /\ walk' = NotBackTo(c, FoughtAt(c, path))
  /\ order' = Halted(order, walk.step)
  /\ shaken' = IF ShakenDown(me, order) THEN shaken + 1 ELSE shaken

\* resolveTie: back to where the step began.
Ties(c) ==
  /\ Meets(c)
  /\ me' = [me EXCEPT !.pos = walk.previous]
  /\ walk' = NotBackTo(c, FoughtAt(c, <<walk.previous>>))
  /\ order' = Halted(order, walk.step)
  /\ UNCHANGED shaken

\* resolveDecisive, for the winner: what it takes off the others, and one crate if
\* it carries none.
Wins(c) ==
  /\ Meets(c)
  /\ \E taken \in Takings, crate \in Crates :
       me' = [me EXCEPT !.pos = c, !.infamy = Infamous(me, 2), !.balance = @ + taken,
                        !.cargo = IF @ = NoCargo THEN crate ELSE @]
  /\ walk' = FoughtAt(c, PathInto(c))
  /\ order' = IF me.pos = c THEN order ELSE Halted(order, walk.step)
  /\ UNCHANGED shaken

Fight == \E c \in Nodes : Loses(c) \/ Ties(c) \/ Wins(c)

-------------------------------------------------------------------------------
(* The close of the round.                                                   *)

\* applyDebt: what is owed, the weakest lease going with what cannot be paid.
Weakest(m) ==
  LET Sooner(a, b) == m.posts[a] < m.posts[b] \/ (m.posts[a] = m.posts[b] /\ a < b)
  IN First(m.held, Sooner)
Charged(m, owed) ==
  IF owed <= m.balance THEN [m EXCEPT !.balance = @ - owed]
  ELSE [m EXCEPT !.balance = 0, !.infamy = Infamous(m, -1),
                 !.held = IF @ = {} THEN @ ELSE @ \ {Weakest(m)}]

\* resolveStakePost, unless a rival's post is there.
Stakes(m, o, taken) ==
  o.act = "stake" /\ ~taken /\ m.pos \notin m.held /\ Cardinality(m.held) < PostCap
Staked(m, o) ==
  LET paid == Charged(m, o.blocks * LeaseCost)
      first == \A n \in paid.held : SectorOf[n] # SectorOf[m.pos]
  IN [paid EXCEPT !.held = @ \cup {m.pos},
                  !.posts[m.pos] = RenewedRounds(0, o.blocks, blockRounds),
                  !.infamy = IF first THEN Infamous(paid, 1) ELSE @]

\* resolveActions: the deed, where the seat came to stand.
Acted(m, o, taken) ==
  LET at    == m.pos
      ready == {c \in m.contracts : TypeOf[at] = "warehouse" /\ c.origin = at}
  IN CASE o.act = "pickup" /\ m.cargo = NoCargo /\ ready # {} ->
            [m EXCEPT !.cargo = (CHOOSE c \in ready : TRUE).id]
       [] Stakes(m, o, taken) -> Staked(m, o)
       [] o.act = "deal" /\ o.item \in stock /\ TypeOf[at] = "market" /\ m.balance >= ItemPrice ->
            [m EXCEPT !.balance = @ - ItemPrice, !.items = Append(@, o.item)]
       [] o.act = "vanish" -> [m EXCEPT !.infamy = Infamous(m, -2)]
       [] OTHER -> m

\* resolveDeliveries, which does not ask what the node is: the gate first, then the
\* pay, which Market Surge raises and Gates Closed halves.
Fulfils(m) == {c \in m.contracts : c.id = m.cargo}
Delivers(m, o) ==
  /\ o.act = "deliver"
  /\ m.cargo = LooseCrate \/ Fulfils(m) # {}
Rewards(m) ==
  IF m.cargo = LooseCrate THEN LoosePay ELSE {PayOf[c.tier] : c \in Fulfils(m)}
Payments(r) == {r, r \div 2, r + r \div 2, (r + r \div 2) \div 2}
Paid(m, o) == IF Delivers(m, o) THEN UNION {Payments(r) : r \in Rewards(m)} ELSE {0}
Delivered(m, o, pay) ==
  IF ~Delivers(m, o) THEN m
  ELSE LET in == Charged(m, GateFee)
           gain == IF m.cargo = LooseCrate THEN 0
                   ELSE GainOf[(CHOOSE c \in Fulfils(m) : TRUE).tier]
       IN [in EXCEPT !.cargo = NoCargo, !.contracts = @ \ Fulfils(m),
                     !.balance = @ + pay, !.infamy = Infamous(in, gain)]

\* resolveLedger, then resolveRenewal.
Ledgered(m, o) ==
  IF o.ledger /\ round + 1 < Rounds /\ m.balance >= LedgerCost
  THEN [m EXCEPT !.balance = @ - LedgerCost] ELSE m
Renews(m, o) == o.blocks > 0 /\ o.act # "stake" /\ o.renewAt \in m.held
Renewed(m, o) ==
  IF ~Renews(m, o) THEN m
  ELSE LET paid == Charged(m, o.blocks * LeaseCost)
       IN IF o.renewAt \notin paid.held THEN paid
          ELSE [paid EXCEPT !.posts[o.renewAt] = RenewedRounds(@, o.blocks, blockRounds)]

\* updateSeatFog.
Looked(m) ==
  LET sight == {m.pos} \cup Neighbours(m.pos) \cup m.held
  IN [m EXCEPT !.fog = [n \in Nodes |-> IF n \in sight THEN InSight
                                        ELSE Least(Known, m.fog[n])]]

\* resolveTorched, where a card has it: no lease ends here.
Torched(m, sector) ==
  [m EXCEPT !.posts = [n \in Nodes |-> IF n \in m.held /\ SectorOf[n] = sector
                                       THEN @[n] - 3 ELSE @[n]]]

\* upkeepContracts, in the order of their IDs.
Overdue(m) == {c \in m.contracts : round + 1 >= c.expires}
Penalised(m, c) == Charged([m EXCEPT !.infamy = Infamous(m, -LossOf[c.tier])], PenaltyOf[c.tier])
Expired(m) ==
  LET due == Overdue(m)
      LeftTo[n \in 0 .. 2] == IF n = 0 THEN m
        ELSE LET c == {x \in due : x.id = n - 1}
             IN IF c = {} THEN LeftTo[n - 1]
                ELSE Penalised(LeftTo[n - 1], CHOOSE x \in c : TRUE)
  IN [LeftTo[2] EXCEPT !.contracts = @ \ due,
                       !.cargo = IF \E c \in due : c.id = m.cargo THEN NoCargo ELSE @]

\* upkeepLeases: a lease with none left after this round goes.
Lapsing(m) == {n \in m.held : m.posts[n] <= 1}
Aged(m) == [m EXCEPT !.held = @ \ Lapsing(m),
                     !.posts = [n \in Nodes |-> IF n \in m.held \ Lapsing(m)
                                                THEN m.posts[n] - 1 ELSE 0]]

\* GenerateOffer: from Warehouses the seat Knows, while it holds fewer than two.
OffersTo(m) ==
  IF Cardinality(m.contracts) >= 2 THEN {<<>>}
  ELSE {f \in Offers : \A i \in 1 .. Len(f) : m.fog[f[i].origin] >= Known}

\* From resolveActions to prepareNextRound.
Close ==
  /\ phase = "walk" /\ walk.step >= 1 /\ walk.step >= PlanLength(order)
  /\ phase' = "decide" /\ round' = round + 1
  /\ LET lighter == [me EXCEPT !.items = Without(@, order.items)] IN
     \E taken \in BOOLEAN, sector \in Fires[round] :
     LET acted == Acted(lighter, order, taken) IN
     \E pay \in Paid(acted, order) :
     LET done   == Delivered(acted, order, pay)
         bought == Ledgered(done, order)
         after  == Renewed(bought, order)
         closed == Expired(Torched(Looked(after), sector))
     IN /\ taken => order.act = "stake"
        /\ \E f \in OffersTo(closed) : me' = [Aged(closed) EXCEPT !.offer = f]
        /\ struck' = sector /\ lapsed' = Lapsing(closed)
        /\ inDebt' = \/ Renews(bought, order) /\ order.blocks * LeaseCost > bought.balance
                     \/ Stakes(lighter, order, taken) /\ order.blocks * LeaseCost > me.balance
        /\ stock' = IF acted.items = lighter.items THEN stock ELSE stock \ {order.item}
  /\ weather' \in Weathers
  /\ order' = NoOrder /\ walk' = NoWalk /\ fights' = 0 /\ purse' = 0 /\ shaken' = 0
  /\ UNCHANGED <<tier, blockRounds>>

Next == Decide \/ Begin \/ Advance \/ Fight \/ Close
Spec == Init /\ [][Next]_vars

-------------------------------------------------------------------------------
(* Correctness.                                                              *)

\* "Decide must return an order rules.Legal(v, o, cfg) accepts" (bot.go, Bot):
\* each field is drawn or computed by itself, and Legal judges them jointly.
DecidesLegally == phase = "resolve" => Legal(View, order)

\* A Runner whose objective can be reached over Known ground plans to spend its
\* whole allowance on the way there (runner.go, nearestRoute).
GoesStraight ==
  phase = "resolve" /\ tier = "runner" =>
    LET o == RunnerObjective(View) IN
    o # NoNode /\ Reachable(View, o, me.pos) =>
      Dist(View, o, EndOf(View, order.route)) = Most(0, Dist(View, o, me.pos) - weather.steps)

Closing == phase = "walk" /\ phase' = "decide"

\* The reserve is kept: even when a fight takes a shakedown between the decision and
\* the charge, a Runner's or an Operator's leases and Ledger never put it in debt.
\* A second shakedown may; and what an Operator buys at a market is not counted
\* (runner.go, runnerReserve; operator.go, chooseAddOns).
AddOnsAreCovered ==
  [][Closing /\ tier # "drifter" /\ order.act # "deal" /\ shaken <= 1 => ~inDebt']_vars

\* Unless it is torched, a lease runs out on a Runner or an Operator only in sight of
\* the bot, when it could not renew within its reserve or one as urgent came first;
\* never in the round it was staked (runner.go, maybeRenewLease; operator.go,
\* stakeBlocksToSurviveUpkeep).
RenewsInTime ==
  [][Closing /\ tier # "drifter" =>
       \A n \in lapsed' :
         \/ SectorOf[n] = struck'
         \/ /\ me.posts[n] > 0
            /\ \/ purse - LeaseCost < ShakedownCost
               \/ /\ order.blocks > 0 /\ order.act # "stake" /\ order.renewAt # n
                  /\ me.posts[order.renewAt] \in 1 .. me.posts[n]]_vars

\* "exploreRoute ... pushes into unmapped territory to go find a path, rather than
\* refusing to move" (runner.go, chooseRoute).
NeverRefusesToMove ==
  phase = "resolve" /\ tier = "runner" =>
    LET o == RunnerObjective(View) IN
    /\ o # NoNode /\ ~Reachable(View, o, me.pos)
    /\ \E n \in Nodes : /\ Reachable(View, me.pos, n)
                       /\ \E m \in Edges(View, n) : me.fog[m] = Hidden
    => order.route # <<>>

\* "A post always reaches the next Decide with at least one round remaining"
\* (runner.go, leaseAboutToLapse).
PostsReachDecide ==
  [][Closing /\ tier # "drifter" => \A n \in lapsed' : n \in me.held]_vars

\* What a Hidden ending node is cannot be validated, which is "deferred to Resolve"
\* (legal.go, endingNode): there too, a crate is delivered at a Border only.
DeliversAtBorders ==
  [][Closing /\ order.act = "deliver" /\ me.cargo # NoCargo /\ TypeOf[me.pos] # "border" =>
       me'.balance <= me.balance]_vars
===============================================================================
