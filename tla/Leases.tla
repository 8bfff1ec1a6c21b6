-------------------------------- MODULE Leases --------------------------------
(***************************************************************************)
(* Posts, leases, money and Infamy through one round of rules.Resolve      *)
(* (internal/rules/resolve.go), seat by seat, in the order Resolve calls   *)
(* its phases.  A lease is stored twice in the program: on the node        *)
(* (Graph.Nodes[n].Post) and on the seat (Player.Posts); every place that  *)
(* charges a seat may surrender one (rules.applyDebt), and leasePosts      *)
(* dereferences the first through the second.                              *)
(*                                                                         *)
(* Left out, because no property here is about it: routes, cargo, items,   *)
(* fog and trail.  An order is chosen when it is first used, against the   *)
(* entry snapshot Legal saw it with, which gives the same behaviours as    *)
(* choosing it when the round opens.                                       *)
(***************************************************************************)
EXTENDS Integers, Sequences, FiniteSets

CONSTANTS
  NumSeats,          \* len(MatchState.Players)
  Nodes,             \* node IDs of the map
  SectorOf,          \* Node.Sector
  Rounds,            \* Config.Rounds
  PostCap,           \* Config.PostCapByPlayers[NumSeats]
  BlockRounds,       \* Config.LeaseBlockRounds
  BlockCost,         \* Config.LeaseCostPerBlock
  AuctionCost,       \* permitAuctionCostPerBlock
  MaxBlocks,         \* maxLeaseBlocks
  TorchedRounds,     \* what Torched takes off a lease
  MaxInfamy,         \* the upper end of ApplyInfamyDelta's clamp
  LegendFrom,        \* the Infamy from which TierOf is TierLegend
  StartingBalance,   \* Config.StartingBalance
  LedgerCost, GateFee, ShakedownCost, PressurePenalty, ScavengeCash, BossPayout,
  Stakes, Prices, Payments, Levies, Penalties,  \* amounts the round can bring
  Cards,             \* the global cards a run draws from
  MaxDeclared        \* bound: most lease blocks an order declares

Seats == 0 .. NumSeats - 1

ASSUME ShapeAssumption ==
  /\ NumSeats \in Nat \ {0}
  /\ Nodes \subseteq Nat /\ IsFiniteSet(Nodes)
  /\ Rounds \in Nat /\ PostCap \in Nat /\ MaxDeclared \in Nat
  /\ LegendFrom \in Nat /\ MaxInfamy \in Nat

ASSUME AmountAssumption ==
  /\ BlockRounds \in Nat \ {0} /\ MaxBlocks \in Nat \ {0}
  /\ BlockCost \in Nat /\ AuctionCost \in Nat /\ TorchedRounds \in Nat
  /\ StartingBalance \in Nat /\ LedgerCost \in Nat /\ GateFee \in Nat
  /\ ShakedownCost \in Nat /\ PressurePenalty \in Nat
  /\ ScavengeCash \in Nat /\ BossPayout \in Nat
  /\ Stakes \subseteq Nat /\ Prices \subseteq Nat /\ Payments \subseteq Nat
  /\ Levies \subseteq Nat /\ Penalties \subseteq Nat

Ceiling == MaxBlocks * BlockRounds
NoPost  == [owner |-> -1, rounds |-> 0]
Post    == [owner : Seats, rounds : {r \in Int : r <= Ceiling}]
Phases  == {"orders", "movement", "actions", "deliveries", "addons", "event",
            "payroll", "incident", "levy", "pressure", "contracts", "leases"}

VARIABLES
  round, phase,
  queue,        \* seats the current phase has still to serve, in order
  card, levy,   \* the round's global card; what this round's incident charges
  entry,        \* EntrySnapshot: each seat's balance when orders were judged,
                \* less what its order has been seen to declare since
  staking,      \* seats whose validated action is Stake Post
  post,         \* Graph.Nodes[n].Post
  posts,        \* Player.Posts
  balance, infamy, flagged,
  indebted,     \* history: seats whose Debt cascade fired this round
  eve,          \* history: the leases as upkeep found them
  dues,         \* history: Debt cascades of each seat in this upkeep
  lapsed        \* contracts of each seat this upkeep has already expired

books == <<post, posts, balance, infamy, flagged, indebted>>
vars  == <<round, phase, queue, card, levy, entry, staking, books, eve, dues, lapsed>>

-------------------------------------------------------------------------------
(* Helpers.                                                                  *)

Least(a, b) == IF a <= b THEN a ELSE b
Zero   == [s \in Seats |-> 0]
BySeat == [i \in 1 .. NumSeats |-> i - 1]

\* ApplyInfamyDelta: the running total never leaves 0..10.
InfamyPlus(current, delta) ==
  IF current + delta < 0 THEN 0 ELSE Least(current + delta, MaxInfamy)

\* Mutant: an off-by-one cap.
PostCapPassed(n) == n > PostCap

PostCapReached(n) == n >= PostCap

RenewedRoundsRemaining(current, blocks) ==
  Least(Ceiling, current + blocks * BlockRounds)

Extended(p, blocks) ==
  [owner |-> p.owner, rounds |-> RenewedRoundsRemaining(p.rounds, blocks)]

\* A lease some rounds later; DecrementLease takes one, Torched several.
Aged(p, rounds) == [owner |-> p.owner, rounds |-> p.rounds - rounds]

\* Mutant: Debt that takes the seat's longest lease.
Strongest(s) ==
  {n \in posts[s] : \A m \in posts[s] :
     \/ post[n].rounds > post[m].rounds
     \/ post[n].rounds = post[m].rounds /\ n <= m}

\* SelectLeaseByFewestRounds: fewest rounds, ties to the lowest node; the
\* singleton of the chosen node, empty when the seat holds nothing.
Weakest(s) ==
  {n \in posts[s] : \A m \in posts[s] :
     \/ post[n].rounds < post[m].rounds
     \/ post[n].rounds = post[m].rounds /\ n <= m}

\* Mutant: a debt that costs a lease when the balance is spent exactly.
SurrenderedAtZero(s, owed) == IF owed >= balance[s] THEN Weakest(s) ELSE {}

\* ResolveDebt, one obligation at a time: what is paid, whether the cascade
\* fires, and the lease it gives up.
Paid(s, owed)        == Least(balance[s], owed)
Broke(s, owed)       == owed > balance[s]
Surrendered(s, owed) == IF Broke(s, owed) THEN Weakest(s) ELSE {}

\* Mutants: removePost that clears the node and forgets the seat's own list; a
\* flag that says what the last charge did, not what any of them did.
PostsKept(s, owed) == posts
FlagOverwritten(s, owed) ==
  /\ flagged'  = [flagged EXCEPT ![s] = Broke(s, owed)]
  /\ indebted' = IF Broke(s, owed) THEN indebted \cup {s} ELSE indebted

\* applyDebt's writes, as the values they leave; the callers below add theirs.
PostsAfter(s, owed)  == [posts EXCEPT ![s] = @ \ Surrendered(s, owed)]
NodesAfter(s, owed)  ==
  [n \in Nodes |-> IF n \in Surrendered(s, owed) THEN NoPost ELSE post[n]]
InfamyAfter(s, owed) ==
  IF Broke(s, owed) THEN InfamyPlus(infamy[s], -1) ELSE infamy[s]
Flag(s, owed) ==
  /\ flagged'  = [flagged EXCEPT ![s] = @ \/ Broke(s, owed)]
  /\ indebted' = IF Broke(s, owed) THEN indebted \cup {s} ELSE indebted

\* applyDebt and what its caller adds: the income and the Infamy that follow.
ApplyDebt(s, owed, income, delta) ==
  /\ balance' = [balance EXCEPT ![s] = @ - Paid(s, owed) + income]
  /\ infamy'  = [infamy EXCEPT ![s] = InfamyPlus(InfamyAfter(s, owed), delta)]
  /\ post'    = NodesAfter(s, owed)
  /\ posts'   = PostsAfter(s, owed)
  /\ Flag(s, owed)

\* FirstPostInSector, read after any surrender the stake's own cost caused.
FirstPostInSector(held, n) == \A m \in held : SectorOf[m] # SectorOf[n]

\* leaseCostPerBlock: Permit Auction discounts both a stake and a renewal.
LeaseCost(blocks) ==
  blocks * (IF card = "permit" THEN AuctionCost ELSE BlockCost)

\* The seats byFairness may put in this order: ascending Infamy, then balance.
\* Its last two keys (RP, the seeded coin) are left open.
FairOrder(q) ==
  \A i, j \in 1 .. NumSeats : i < j =>
    /\ q[i] # q[j]
    /\ \/ infamy[q[i]] < infamy[q[j]]
       \/ infamy[q[i]] = infamy[q[j]] /\ balance[q[i]] <= balance[q[j]]

\* One seat of the phase is done; the last one opens the next phase.
Serve(next, q) ==
  IF Len(queue) = 1 THEN phase' = next /\ queue' = q
                    ELSE phase' = phase /\ queue' = Tail(queue)
Turn(ph, s) == phase = ph /\ queue # <<>> /\ s = Head(queue)

-------------------------------------------------------------------------------
Init ==
  /\ round = 0 /\ phase = "orders" /\ queue = <<>>
  /\ card = "none" /\ levy = 0
  /\ entry = Zero /\ staking = {}
  /\ post = [n \in Nodes |-> NoPost]
  /\ posts = [s \in Seats |-> {}]
  /\ balance = [s \in Seats |-> StartingBalance]
  /\ infamy = [s \in Seats |-> 0]
  /\ flagged = [s \in Seats |-> FALSE]
  /\ indebted = {}
  /\ eve = post /\ dues = Zero /\ lapsed = Zero

\* Top of Resolve: the entry snapshot, then resetRoundFlags, then the peek at
\* this round's global card.
OpenRound ==
  /\ phase = "orders" /\ round < Rounds
  /\ round' = round + 1 /\ phase' = "movement"
  /\ card' \in Cards
  /\ entry' = balance /\ staking' = {}
  /\ flagged' = [s \in Seats |-> FALSE]
  /\ indebted' = {}
  /\ eve' = [n \in Nodes |-> NoPost] /\ dues' = Zero
  /\ UNCHANGED <<queue, levy, post, posts, balance, infamy, lapsed>>

\* What the movement loop does to money and Infamy: at most one confrontation
\* (a bound of this model), where loser l forfeits its stake, pays a shakedown
\* capped at what is left, and the winner w collects half the stake and all of
\* the shakedown; or a seat walking blind scavenges.  None of it can run Debt.
Movement ==
  /\ phase = "movement"
  /\ phase' = "actions"
  /\ \/ UNCHANGED <<balance, infamy>>
     \/ \E w, l \in Seats, stake \in Stakes, fee \in {0, ShakedownCost} :
          LET staked == Least(stake, balance[l])
              shaken == Least(fee, balance[l] - staked)
          IN /\ w # l
             /\ balance' = [balance EXCEPT ![l] = @ - staked - shaken,
                                           ![w] = @ + (staked \div 2) + shaken]
             /\ infamy' = [infamy EXCEPT ![l] = InfamyPlus(@, -1),
                                         ![w] = InfamyPlus(@, 2)]
     \/ \E s \in Seats :
          /\ balance' = [balance EXCEPT ![s] = @ + ScavengeCash]
          /\ UNCHANGED infamy
  /\ \E q \in [1 .. NumSeats -> Seats] : FairOrder(q)' /\ queue' = q
  /\ UNCHANGED <<round, card, levy, entry, staking, post, posts, flagged,
                 indebted, eve, dues, lapsed>>

-------------------------------------------------------------------------------
(* Step N+1: actions, in fairness order.                                     *)

Acted == Serve("deliveries", BySeat)

\* What Legal let through at submission: the add-ons fit the entry balance and
\* the seat was under its cap.
LegalBlocks(s, blocks) == blocks * BlockCost <= entry[s]

\* resolveStakePost.  A node somebody holds, or a seat at its cap, is a no-op;
\* the debt cascade runs before the new lease exists, so it can never
\* surrender the lease being bought.
StakePost(s) ==
  /\ Turn("actions", s)
  /\ ~PostCapReached(Cardinality(posts[s]))
  /\ staking' = staking \cup {s}
  /\ \E n \in Nodes, blocks \in 0 .. MaxDeclared :
       LET owed == LeaseCost(blocks)
           held == posts[s] \ Surrendered(s, owed)
           gain == IF FirstPostInSector(held, n) THEN 1 ELSE 0
       IN /\ LegalBlocks(s, blocks)
          /\ entry' = [entry EXCEPT ![s] = @ - blocks * BlockCost]
          /\ \/ post[n] # NoPost /\ UNCHANGED books
             \/ /\ post[n] = NoPost
                /\ balance' = [balance EXCEPT ![s] = @ - Paid(s, owed)]
                /\ post' = [NodesAfter(s, owed) EXCEPT
                       ![n] = [owner  |-> s,
                               rounds |-> RenewedRoundsRemaining(0, blocks)]]
                /\ posts' = [posts EXCEPT ![s] = held \cup {n}]
                /\ infamy' = [infamy EXCEPT ![s] =
                                   InfamyPlus(InfamyAfter(s, owed), gain)]
                /\ Flag(s, owed)
  /\ Acted
  /\ UNCHANGED <<round, card, levy, eve, dues, lapsed>>

\* resolveDeal, Vanish, and every action that touches none of this state.
OtherAction(s) ==
  /\ Turn("actions", s)
  /\ \/ UNCHANGED <<balance, infamy>>
     \/ \E price \in Prices :
          /\ price <= balance[s]
          /\ balance' = [balance EXCEPT ![s] = @ - price]
          /\ UNCHANGED infamy
     \/ /\ infamy' = [infamy EXCEPT ![s] = InfamyPlus(@, -2)]
        /\ UNCHANGED balance
  /\ Acted
  /\ UNCHANGED <<round, card, levy, entry, staking, post, posts, flagged,
                 indebted, eve, dues, lapsed>>

(* Step N+2: deliveries, in seat order.  The gate fee comes out of the       *)
(* balance before the payment goes in.                                       *)
Deliver(s) ==
  /\ Turn("deliveries", s)
  /\ \/ UNCHANGED books
     \/ /\ s \notin staking
        /\ \E payment \in Payments, gain \in 0 .. 2 :
             ApplyDebt(s, GateFee, payment, gain)
  /\ Serve("addons", BySeat)
  /\ UNCHANGED <<round, card, levy, entry, staking, eve, dues, lapsed>>

(* Step N+3: add-ons, in seat order: the Ledger, then a remote renewal.      *)

\* resolveRenewal: the debt runs first, and a renewal whose own shortfall
\* surrenders the very lease it was paying for has nothing left to extend.
Renew(s, n, blocks, purse) ==
  LET owed   == LeaseCost(blocks)
      broke  == owed > purse
      gone   == IF broke THEN Weakest(s) ELSE {}
  IN  /\ balance' = [balance EXCEPT ![s] = purse - Least(purse, owed)]
      /\ infamy'  = [infamy EXCEPT ![s] = InfamyPlus(@, IF broke THEN -1 ELSE 0)]
      /\ posts'   = [posts EXCEPT ![s] = @ \ gone]
      /\ post'    = [m \in Nodes |->
                       IF m \in gone THEN NoPost
                       ELSE IF m # n THEN post[m]
                       ELSE Extended(post[m], blocks)]
      /\ flagged' = [flagged EXCEPT ![s] = @ \/ broke]
      /\ indebted' = IF broke THEN indebted \cup {s} ELSE indebted

AddOns(s) ==
  /\ Turn("addons", s)
  /\ \E ledger \in {0, LedgerCost} :
       LET purse == IF ledger <= balance[s] THEN balance[s] - ledger
                                            ELSE balance[s]
       IN /\ ledger <= entry[s]
          /\ ledger > 0 => round < Rounds
          /\ \/ /\ balance' = [balance EXCEPT ![s] = purse]
                /\ UNCHANGED <<infamy, post, posts, flagged, indebted>>
             \/ \E n \in posts[s], blocks \in 1 .. MaxDeclared :
                  /\ s \notin staking
                  /\ ledger + blocks * BlockCost <= entry[s]
                  /\ Renew(s, n, blocks, purse)
  /\ Serve("event", <<>>)
  /\ IF Len(queue) = 1 THEN entry' = Zero /\ staking' = {}
                       ELSE UNCHANGED <<entry, staking>>
  /\ UNCHANGED <<round, card, levy, eve, dues, lapsed>>

-------------------------------------------------------------------------------
(* Phase 6: the round's global card.                                         *)
Played(c) ==
  /\ phase = "event" /\ card = c
  /\ phase' = "incident" /\ queue' = <<>>
  /\ UNCHANGED <<round, card, levy, entry, staking, post, posts, flagged,
                 indebted, eve, dues, lapsed>>

\* resolveShiftChange: every seat loses a point of Infamy.
ShiftChange ==
  /\ Played("shift")
  /\ infamy' = [s \in Seats |-> InfamyPlus(infamy[s], -1)]
  /\ UNCHANGED balance

\* resolveCurrencySlide: every seat loses a quarter of its balance.
CurrencySlide ==
  /\ Played("slide")
  /\ balance' = [s \in Seats |-> balance[s] - (balance[s] \div 4)]
  /\ UNCHANGED infamy

\* resolveNewBoss: one seat (the lowest RP, left open here) is paid.
NewBoss ==
  /\ Played("boss")
  /\ \E s \in Seats :
       /\ balance' = [balance EXCEPT ![s] = @ + BossPayout]
       /\ infamy'  = [infamy EXCEPT ![s] = InfamyPlus(@, 1)]

\* resolveRaid: the most infamous seats lose two points.
Raid ==
  /\ Played("raid")
  /\ infamy' = [s \in Seats |->
       IF \A t \in Seats : infamy[t] <= infamy[s]
       THEN InfamyPlus(infamy[s], -2) ELSE infamy[s]]
  /\ UNCHANGED balance

\* Permit Auction, and every card that touches none of this state.
OtherCard ==
  /\ \E c \in {"none", "permit"} : Played(c)
  /\ UNCHANGED <<balance, infamy>>

PayrollDay ==
  /\ phase = "event" /\ card = "payroll"
  /\ phase' = "payroll" /\ queue' = BySeat
  /\ UNCHANGED <<round, card, levy, entry, staking, books, eve, dues, lapsed>>

\* resolvePayrollDay: every seat owes one per post it holds.
Payroll(s) ==
  /\ Turn("payroll", s)
  /\ ApplyDebt(s, Cardinality(posts[s]), 0, 0)
  /\ Serve("incident", <<>>)
  /\ UNCHANGED <<round, card, levy, entry, staking, eve, dues, lapsed>>

(* Phase 7: the sector incident, then Pressure.                              *)

\* resolveTorched only ever takes rounds off: it closes nothing.
Torched ==
  /\ phase = "incident"
  /\ \E sector \in {SectorOf[n] : n \in Nodes} :
       post' = [n \in Nodes |->
                  IF SectorOf[n] = sector /\ post[n] # NoPost
                  THEN Aged(post[n], TorchedRounds) ELSE post[n]]
  /\ phase' = "pressure" /\ queue' = BySeat
  /\ UNCHANGED <<round, card, levy, entry, staking, posts, balance, infamy,
                 flagged, indebted, eve, dues, lapsed>>

\* Snatch Job, Guard Sweep or Shakedown charges the seats caught in the sector.
StartLevy ==
  /\ phase = "incident"
  /\ phase' = "levy" /\ queue' = BySeat
  /\ levy' \in Levies
  /\ UNCHANGED <<round, card, entry, staking, books, eve, dues, lapsed>>

QuietIncident ==
  /\ phase = "incident"
  /\ phase' = "pressure" /\ queue' = BySeat
  /\ UNCHANGED <<round, card, levy, entry, staking, books, eve, dues, lapsed>>

Levy(s) ==
  /\ Turn("levy", s)
  /\ UNCHANGED books \/ \E loss \in {0, 1} : ApplyDebt(s, levy, 0, -loss)
  /\ Serve("pressure", BySeat)
  /\ levy' = IF Len(queue) = 1 THEN 0 ELSE levy
  /\ UNCHANGED <<round, card, entry, staking, eve, dues, lapsed>>

\* pressure: a Legend whose D6 comes up short pays and loses a point of Infamy;
\* Shift Change calls the roll off.  The last seat opens upkeep.
Pressure(s) ==
  /\ Turn("pressure", s)
  /\ \/ UNCHANGED books
     \/ /\ card # "shift" /\ infamy[s] >= LegendFrom
        /\ ApplyDebt(s, PressurePenalty, 0, -1)
  /\ Serve("contracts", BySeat)
  /\ eve' = IF Len(queue) = 1 THEN post' ELSE eve
  /\ card' = IF Len(queue) = 1 THEN "none" ELSE card
  /\ UNCHANGED <<round, levy, entry, staking, dues, lapsed>>

-------------------------------------------------------------------------------
(* Phase 8: upkeep.                                                          *)

\* One contract of s runs out (a seat holds at most two): its penalty runs Debt
\* and, at the top tier, costs Infamy as well.
ExpireContract(s) ==
  /\ phase = "contracts" /\ queue # <<>> /\ s = Head(queue)
  /\ lapsed[s] < 2
  /\ lapsed' = [lapsed EXCEPT ![s] = @ + 1]
  /\ \E penalty \in Penalties, loss \in {0, 2} :
       /\ ApplyDebt(s, penalty, 0, -loss)
       /\ dues' = IF Broke(s, penalty) THEN [dues EXCEPT ![s] = @ + 1] ELSE dues
  /\ UNCHANGED <<round, phase, queue, card, levy, entry, staking, eve>>

ContractsDone(s) ==
  /\ Turn("contracts", s)
  /\ Serve("leases", <<>>)
  /\ UNCHANGED <<round, card, levy, entry, staking, books, eve, dues, lapsed>>

\* upkeepLeases: every lease loses a round, and those at zero or below expire.
Expired == {n \in Nodes : post[n] # NoPost /\ post[n].rounds - 1 <= 0}

UpkeepLeases ==
  /\ phase = "leases"
  /\ post' = [n \in Nodes |->
                IF post[n] = NoPost \/ n \in Expired THEN NoPost
                ELSE Aged(post[n], 1)]
  /\ posts' = [s \in Seats |->
                 posts[s] \ {n \in Expired : post[n].owner = s}]
  /\ phase' = "orders" /\ lapsed' = Zero
  /\ UNCHANGED <<round, queue, card, levy, entry, staking, balance, infamy,
                 flagged, indebted, eve, dues>>

\* The match is closed: Resolve refuses a round past Config.Rounds.
MatchOver == phase = "orders" /\ round = Rounds /\ UNCHANGED vars

SeatStep(s) ==
  \/ StakePost(s) \/ OtherAction(s) \/ Deliver(s) \/ AddOns(s) \/ Payroll(s)
  \/ Levy(s) \/ Pressure(s) \/ ExpireContract(s) \/ ContractsDone(s)

Next ==
  \/ OpenRound \/ Movement
  \/ ShiftChange \/ CurrencySlide \/ NewBoss \/ Raid \/ OtherCard \/ PayrollDay
  \/ Torched \/ StartLevy \/ QuietIncident
  \/ UpkeepLeases \/ MatchOver
  \/ \E s \in Seats : SeatStep(s)

Spec == Init /\ [][Next]_vars

-------------------------------------------------------------------------------
(* Properties.                                                               *)

\* Shapes and ranges.  A balance is never negative and Infamy never leaves its
\* ladder (GDD 13: "No negative balances").
TypeOK ==
  /\ round \in 0 .. Rounds /\ phase \in Phases /\ queue \in Seq(Seats)
  /\ card \in Cards \cup {"none"} /\ levy \in Levies \cup {0}
  /\ entry \in [Seats -> Nat] /\ staking \subseteq Seats
  /\ post \in [Nodes -> Post \cup {NoPost}]
  /\ posts \in [Seats -> SUBSET Nodes]
  /\ balance \in [Seats -> Nat] /\ infamy \in [Seats -> 0 .. MaxInfamy]
  /\ flagged \in [Seats -> BOOLEAN] /\ indebted \subseteq Seats
  /\ eve \in [Nodes -> Post \cup {NoPost}]
  /\ dues \in [Seats -> Nat] /\ lapsed \in [Seats -> 0 .. 2]

\* The two records of a lease agree: a seat lists exactly the nodes whose post
\* it owns.  leasePosts (selection.go) reads Node.Post through Player.Posts
\* without a nil check, so the first disagreement is a crash inside Debt.
PostsAgree ==
  \A s \in Seats : posts[s] = {n \in Nodes : post[n].owner = s}

\* No chain of stakes, debts and renewals takes a seat past its post cap.
CapRespected == \A s \in Seats : Cardinality(posts[s]) <= PostCap

\* When orders open, every lease on the board has a round to run: Torched and
\* a stake of no blocks leave a dead lease behind, and upkeep must not.
LeasesLive ==
  phase = "orders" => \A n \in Nodes : post[n] # NoPost => post[n].rounds >= 1

\* GDD "Upkeep" steps 1 and 2 are "ordered on purpose": a contract's Debt must
\* take the lease that was about to lapse.  If upkeep took a lease that still
\* had rounds to run, it took one lease per Debt cascade and none besides.
UpkeepSparesHealthyLeases ==
  phase = "orders" => \A s \in Seats :
    LET lost == {n \in Nodes : eve[n].owner = s} \ posts[s]
    IN  (\A n \in lost : eve[n].rounds <= 1) \/ Cardinality(lost) <= dues[s]

\* A seat enters the order phase Flagged exactly when Debt caught it in the
\* round just closed, whichever phase it was in (D5: no clear may eat a flag
\* set in the same round, and no flag may outlive its round).
FlagMatchesDebt ==
  phase = "orders" => \A s \in Seats : flagged[s] <=> s \in indebted

\* A lease ends in two ways only.  Outside upkeep's own lease step, a seat
\* that loses one loses exactly one, the one with fewest rounds, and is Flagged.
LeaseLostOnlyToDebt ==
  [][\A s \in Seats :
       LET lost == posts[s] \ posts'[s]
       IN  lost = {} \/ phase = "leases"
           \/ /\ flagged'[s] /\ Cardinality(lost) = 1
              /\ \A n \in lost, m \in posts'[s] \cap posts[s] :
                   post[n].rounds <= post[m].rounds]_vars
===============================================================================
