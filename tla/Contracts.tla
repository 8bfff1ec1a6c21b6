------------------------------ MODULE Contracts -------------------------------
(***************************************************************************)
(* Contracts and the crates they are about, through the rounds of a match: *)
(* offers, acceptance, pickups, fights over cargo, the Fence's windfall,   *)
(* deliveries, drops, losses and deadlines (internal/rules: contracts.go,  *)
(* cargo.go, confront.go, actions.go, deliveries.go, upkeep.go).           *)
(*                                                                         *)
(* A contract belongs to one seat and its ID (0 or 1) is unique only       *)
(* there, while a crate that changes hands keeps the ID it was bound with: *)
(* most of what is checked here is about that.                             *)
(*                                                                         *)
(* Where a seat stands is left open: an order that ends on a node may      *)
(* reach it.  Money, Infamy and RP are in module Leases or left out.       *)
(***************************************************************************)
EXTENDS Integers, Sequences, FiniteSets, SequencesExt

CONSTANTS
  NumSeats, Nodes,
  Pairs,          \* the <<origin, destination>> pairs an offer may name
  Rounds,         \* Config.Rounds
  Deadlines,      \* Config.Contracts[tier].Deadline; the tier is left open
  Cooldowns,      \* Config.CooldownByTier; the Infamy tier is left open
  MaxFights,      \* bound: confrontations in one round
  LooseRounds     \* bound: the rounds in which a card may add a loose crate

Seats == 0 .. NumSeats - 1

ASSUME ContractsAssumption ==
  /\ NumSeats \in Nat \ {0} /\ Rounds \in Nat
  /\ Pairs \subseteq Nodes \X Nodes /\ (\A p \in Pairs : p[1] # p[2])
  /\ Deadlines \subseteq Nat \ {0} /\ Cooldowns \subseteq Nat
  /\ MaxFights \in Nat /\ LooseRounds \subseteq Nat /\ Nodes \subseteq Nat

NoPair  == <<0, 0>>     \* the zero Origin and Destination of a Cargo
NoCargo == [bound |-> FALSE, id |-> -1, pair |-> NoPair, stolen |-> FALSE]
Loose   == [bound |-> FALSE, id |-> 0, pair |-> NoPair, stolen |-> FALSE]

VARIABLES
  round, phase,
  offer,       \* Player.PendingOffer, as a set of pairs
  lastOffer,   \* Player.LastOfferRound
  contracts,   \* Player.Contracts, in order; "taken" is history
  cargo,       \* Player.Cargo; "pair" and "stolen" are history
  ground,      \* Graph.Cargo, in order
  plan,        \* the validated action of each seat
  todo,        \* seats whose action is still to resolve
  fights       \* confrontations resolved so far this round

vars == <<round, phase, offer, lastOffer, contracts, cargo, ground, plan, todo, fights>>

-------------------------------------------------------------------------------
(* Helpers.                                                                  *)

Idle        == [do |-> "other", at |-> 0]
Pickup(n)   == [do |-> "pickup", at |-> n]
Deliver     == [do |-> "deliver", at |-> 0]
AtRest      == [s \in Seats |-> Idle]
Plans       == {Idle, Deliver} \cup {Pickup(n) : n \in Nodes}

Carries(s)  == cargo[s] # NoCargo

\* The contract with this ID, as the index of the first, 0 when there is none.
WithID(held, id)   == SelectInSeq(held, LAMBDA c : c.id = id)
ForPair(held, p)   == SelectInSeq(held, LAMBDA c : c.pair = p)
FromNode(held, n)  == SelectInSeq(held, LAMBDA c : c.pair[1] = n)
Without(held, i)   == IF i = 0 THEN held ELSE RemoveAt(held, i)

\* CanCollect: a loose crate is anyone's, a bound one is for the same pair.
CanCollect(held, crate) == crate.bound => ForPair(held, crate.pair) # 0

\* groundCargoIndex: the first crate on n this seat may collect.
GroundIndex(held, lying, n) ==
  SelectInSeq(lying, LAMBDA g : g.at = n /\ CanCollect(held, g))
PickupAvailable(held, lying, n) ==
  GroundIndex(held, lying, n) # 0 \/ FromNode(held, n) # 0

\* Mutant: the count of contracts used as an ID.
IDByCount(held) == Len(held)

\* nextContractID looks at the first held contract only.
NextID(held) == IF held = <<>> THEN 0 ELSE IF held[1].id = 0 THEN 1 ELSE 0

Accepted(held, p, deadline) ==
  Append(held, [id |-> NextID(held), pair |-> p, taken |-> round + 1,
                expires |-> round + 1 + deadline, paused |-> FALSE])

\* Mutant: a pause that forgets it was already granted.
PausedAgain(c) == [c EXCEPT !.expires = @ + 1, !.paused = TRUE]

\* WithDeadlinePause, on the contract the carried crate names.
Paused(c) ==
  IF c.paused THEN c ELSE [c EXCEPT !.expires = @ + 1, !.paused = TRUE]
AfterPause(s) ==
  LET i == WithID(contracts[s], cargo[s].id)
  IN  IF cargo[s].bound /\ i # 0
      THEN [contracts[s] EXCEPT ![i] = Paused(@)] ELSE contracts[s]

\* dropForfeitCargo: the crate on the ground takes the pair of the contract its
\* ID names among the carrier's own, and the zero pair when it names none.
DroppedBy(s, n) ==
  LET i == WithID(contracts[s], cargo[s].id)
  IN  [at |-> n, bound |-> cargo[s].bound,
       pair |-> IF cargo[s].bound /\ i # 0 THEN contracts[s][i].pair ELSE NoPair,
       was |-> cargo[s].pair]
\* The members of a finite set of integers, in increasing order.
InOrder(S) == [k \in 1 .. Cardinality(S) |->
                 CHOOSE x \in S : Cardinality({y \in S : y <= x}) = k]
\* Mutant: only the lowest seat's crate falls.
GroundAfterOne(S, where) ==
  LET first == Head(InOrder(S))
  IN  IF S = {} THEN ground ELSE Append(ground, DroppedBy(first, where[first]))

GroundAfter(S, where) ==
  LET order == InOrder(S)
  IN  ground \o [i \in 1 .. Len(order) |-> DroppedBy(order[i], where[order[i]])]

-------------------------------------------------------------------------------
\* initial() deals the first offers the way every later round does.
Init ==
  /\ round = 0 /\ phase = "offers"
  /\ offer = [s \in Seats |-> {}] /\ lastOffer = [s \in Seats |-> 0]
  /\ contracts = [s \in Seats |-> <<>>]
  /\ cargo = [s \in Seats |-> NoCargo] /\ ground = <<>>
  /\ plan = AtRest /\ todo = {} /\ fights = 0

\* What Legal and checkActionDegradation let through for seat s, once its
\* contract choice is applied.
LegalPlans(s, held) ==
  {Idle} \cup {Pickup(n) : n \in {m \in Nodes : PickupAvailable(held, ground, m)}}
         \cup (IF Carries(s) /\ (cargo[s].bound => WithID(held, cargo[s].id) # 0)
               THEN {Deliver} ELSE {})

\* applyContractChoices, then validate.  An offer is answered in the round it
\* is made for or it is declined.
OpenRound ==
  /\ phase = "orders" /\ round < Rounds
  /\ round' = round + 1 /\ phase' = "movement"
  /\ \E pick \in [Seats -> Pairs \cup {NoPair}], deadline \in Deadlines :
       /\ \A s \in Seats : pick[s] \in offer[s] \cup {NoPair}
       /\ contracts' = [s \in Seats |->
            IF pick[s] = NoPair THEN contracts[s]
            ELSE Accepted(contracts[s], pick[s], deadline)]
  /\ lastOffer' = [s \in Seats |-> IF offer[s] = {} THEN lastOffer[s] ELSE round + 1]
  /\ offer' = [s \in Seats |-> {}]
  /\ \E intent \in [Seats -> Plans] :
       /\ \A s \in Seats : intent[s] \in LegalPlans(s, contracts'[s])
       /\ plan' = intent
  /\ UNCHANGED <<cargo, ground, todo, fights>>

-------------------------------------------------------------------------------
(* The movement loop.                                                        *)

\* resolveDecisive, resolveLoser: every loser pauses the deadline its crate
\* names and, unless a Shakedown protects it, forfeits the crate; an
\* empty-handed winner takes the lowest loser's, and the rest fall on the node.
Won(w, n, losers, guarded, corrected) ==
  LET forfeit == {l \in losers \ guarded : Carries(l)}
      taken   == IF Carries(w) THEN {}
                 ELSE {l \in forfeit : \A m \in forfeit : l <= m}
      halted  == losers \cup (IF corrected THEN {w} ELSE {})
  IN /\ contracts' = [s \in Seats |->
          IF s \in losers /\ Carries(s) THEN AfterPause(s) ELSE contracts[s]]
     /\ cargo' = [s \in Seats |->
          IF s \in forfeit THEN NoCargo
          ELSE IF s = w /\ taken # {}
               THEN [cargo[CHOOSE l \in taken : TRUE] EXCEPT
                       !.stolen = cargo[CHOOSE l \in taken : TRUE].bound]
               ELSE cargo[s]]
     /\ ground' = GroundAfter(forfeit \ taken, [s \in Seats |-> n])
     /\ plan' = [s \in Seats |-> IF s \in halted THEN Idle ELSE plan[s]]

Fight ==
  /\ phase = "movement" /\ fights < MaxFights
  /\ fights' = fights + 1
  /\ \E w \in Seats, n \in Nodes : \E losers \in (SUBSET (Seats \ {w})) \ {{}} :
     \E guarded \in SUBSET {l \in losers : Carries(l)}, corrected \in BOOLEAN :
       Won(w, n, losers, guarded, corrected)
  /\ UNCHANGED <<round, phase, offer, lastOffer, todo>>

\* resolveTie: nobody wins, everyone in it loses the rest of the order.
Tie ==
  /\ phase = "movement" /\ fights < MaxFights
  /\ fights' = fights + 1
  /\ \E tied \in SUBSET Seats :
       /\ Cardinality(tied) >= 2
       /\ plan' = [s \in Seats |-> IF s \in tied THEN Idle ELSE plan[s]]
  /\ UNCHANGED <<round, phase, offer, lastOffer, contracts, cargo, ground, todo>>

EndMovement ==
  /\ phase = "movement" /\ phase' = "actions" /\ todo' = Seats /\ fights' = 0
  /\ UNCHANGED <<round, offer, lastOffer, contracts, cargo, ground, plan>>

-------------------------------------------------------------------------------
(* Actions, in fairness order (any order here): the ground first, then the   *)
(* inexhaustible Warehouse.                                                  *)
NextInOrder(s) ==
  /\ phase = "actions" /\ s \in todo
  /\ todo' = todo \ {s}
  /\ phase' = IF todo = {s} THEN "windfall" ELSE "actions"

TakeFromGround(s) ==
  LET i == GroundIndex(contracts[s], ground, plan[s].at)
  IN  /\ i # 0
      /\ cargo' = [cargo EXCEPT ![s] =
           IF ground[i].bound
           THEN [bound |-> TRUE, pair |-> ground[i].pair, stolen |-> FALSE,
                 id |-> contracts[s][ForPair(contracts[s], ground[i].pair)].id]
           ELSE Loose]
      /\ ground' = RemoveAt(ground, i)

TakeFromWarehouse(s) ==
  LET i == FromNode(contracts[s], plan[s].at)
  IN  /\ GroundIndex(contracts[s], ground, plan[s].at) = 0 /\ i # 0
      /\ cargo' = [cargo EXCEPT ![s] =
           [bound |-> TRUE, id |-> contracts[s][i].id,
            pair |-> contracts[s][i].pair, stolen |-> FALSE]]
      /\ UNCHANGED ground

\* resolvePickup; a full slot, or a crate another seat took first, is a no-op.
ResolvePickup(s) ==
  /\ NextInOrder(s) /\ plan[s].do = "pickup"
  /\ IF Carries(s) \/ ~PickupAvailable(contracts[s], ground, plan[s].at)
     THEN UNCHANGED <<cargo, ground>>
     ELSE TakeFromGround(s) \/ TakeFromWarehouse(s)
  /\ UNCHANGED <<round, offer, lastOffer, contracts, plan, fights>>

OtherAction(s) ==
  /\ NextInOrder(s) /\ plan[s].do # "pickup"
  /\ UNCHANGED <<round, offer, lastOffer, contracts, cargo, ground, plan, fights>>

\* Mutant: the Fence is paid for a crate and the contract goes, the crate stays.
CrateKept ==
  /\ phase = "windfall" /\ phase' = "deliveries"
  /\ \E s \in Seats :
       /\ Carries(s)
       /\ contracts' = [contracts EXCEPT ![s] =
            IF cargo[s].bound THEN Without(@, WithID(@, cargo[s].id)) ELSE @]
  /\ UNCHANGED <<round, offer, lastOffer, cargo, ground, plan, todo, fights>>

\* resolveFenceWindfallClaim: the Fence buys one seat's crate, and the
\* contract its ID names goes with it.
Windfall ==
  /\ phase = "windfall" /\ phase' = "deliveries"
  /\ \/ \E s \in Seats :
          /\ Carries(s)
          /\ cargo' = [cargo EXCEPT ![s] = NoCargo]
          /\ contracts' = [contracts EXCEPT ![s] =
               IF cargo[s].bound THEN Without(@, WithID(@, cargo[s].id)) ELSE @]
     \/ UNCHANGED <<cargo, contracts>>
  /\ UNCHANGED <<round, offer, lastOffer, ground, plan, todo, fights>>

\* resolveDeliveries: a crate whose ID names no held contract is kept.
Delivers(s) ==
  /\ plan[s].do = "deliver" /\ Carries(s)
  /\ cargo[s].bound => WithID(contracts[s], cargo[s].id) # 0

ResolveDeliveries ==
  /\ phase = "deliveries" /\ phase' = "cards"
  /\ cargo' = [s \in Seats |-> IF Delivers(s) THEN NoCargo ELSE cargo[s]]
  /\ contracts' = [s \in Seats |->
       IF Delivers(s) /\ cargo[s].bound
       THEN Without(contracts[s], WithID(contracts[s], cargo[s].id))
       ELSE contracts[s]]
  /\ plan' = AtRest
  /\ UNCHANGED <<round, offer, lastOffer, ground, todo, fights>>

-------------------------------------------------------------------------------
(* The cards: Raid, Flood and Turf War make the seats they catch drop their  *)
(* crates where they stand; Guard Sweep and Snatch Job destroy them; Dead    *)
(* Runner and Spilled Load add a loose one.                                  *)

Caught == {S \in SUBSET {s \in Seats : Carries(s)} : S # {}}

DropCargo ==
  /\ phase = "cards" /\ phase' = "upkeep"
  /\ \E S \in Caught : \E where \in [Seats -> Nodes] :
       /\ \A s \in Seats \ S : where[s] = CHOOSE n \in Nodes : TRUE
       /\ cargo' = [s \in Seats |-> IF s \in S THEN NoCargo ELSE cargo[s]]
       /\ ground' = GroundAfter(S, where)
  /\ UNCHANGED <<round, offer, lastOffer, contracts, plan, todo, fights>>

DestroyCargo ==
  /\ phase = "cards" /\ phase' = "upkeep"
  /\ \E S \in Caught :
       cargo' = [s \in Seats |-> IF s \in S THEN NoCargo ELSE cargo[s]]
  /\ UNCHANGED <<round, offer, lastOffer, contracts, ground, plan, todo, fights>>

LooseCrate ==
  /\ phase = "cards" /\ phase' = "upkeep" /\ round \in LooseRounds
  /\ \E n \in Nodes : ground' =
       Append(ground, [at |-> n, bound |-> FALSE, pair |-> NoPair, was |-> NoPair])
  /\ UNCHANGED <<round, offer, lastOffer, contracts, cargo, plan, todo, fights>>

NoCard ==
  /\ phase = "cards" /\ phase' = "upkeep"
  /\ UNCHANGED <<round, offer, lastOffer, contracts, cargo, ground, plan, todo, fights>>

-------------------------------------------------------------------------------
\* upkeepContracts, expireContract: an overdue contract goes, and with it the
\* crate its ID names.
Overdue(c) == round >= c.expires
Current(held) ==
  LET kept == InOrder({i \in DOMAIN held : ~Overdue(held[i])})
  IN  [k \in DOMAIN kept |-> held[kept[k]]]

\* Mutant: an expiry that leaves the crate with its carrier.
ContractsExpireAlone ==
  /\ phase = "upkeep" /\ phase' = "offers"
  /\ contracts' = [s \in Seats |-> Current(contracts[s])]
  /\ UNCHANGED <<round, offer, lastOffer, cargo, ground, plan, todo, fights>>

UpkeepContracts ==
  /\ phase = "upkeep" /\ phase' = "offers"
  /\ contracts' = [s \in Seats |-> Current(contracts[s])]
  /\ cargo' = [s \in Seats |->
       LET i == WithID(contracts[s], cargo[s].id)
       IN  IF cargo[s].bound /\ i # 0 /\ Overdue(contracts[s][i])
           THEN NoCargo ELSE cargo[s]]
  /\ UNCHANGED <<round, offer, lastOffer, ground, plan, todo, fights>>

\* GenerateOffer: due, a slot free, and at most three distinct pairs, or none
\* when the map has no pair to offer (the offer stays due).
OfferDue(s, cooldown) == lastOffer[s] = 0 \/ lastOffer[s] + cooldown <= round
Offered(s, cooldown) ==
  IF OfferDue(s, cooldown) /\ Len(contracts[s]) < 2
  THEN {P \in SUBSET Pairs : Cardinality(P) <= 3} ELSE {{}}

\* prepareNextRound; the last round prepares nothing.
PrepareNextRound ==
  /\ phase = "offers" /\ phase' = "orders"
  /\ IF round < Rounds
     THEN \E cooldown \in [Seats -> Cooldowns] :
            offer' \in {f \in [Seats -> SUBSET Pairs] :
                          \A s \in Seats : f[s] \in Offered(s, cooldown[s])}
     ELSE UNCHANGED offer
  /\ UNCHANGED <<round, lastOffer, contracts, cargo, ground, plan, todo, fights>>

MatchOver == phase = "orders" /\ round = Rounds /\ UNCHANGED vars

Next ==
  \/ OpenRound \/ Fight \/ Tie \/ EndMovement
  \/ (\E s \in Seats : ResolvePickup(s) \/ OtherAction(s))
  \/ Windfall \/ ResolveDeliveries
  \/ DropCargo \/ DestroyCargo \/ LooseCrate \/ NoCard
  \/ UpkeepContracts \/ PrepareNextRound \/ MatchOver

Spec == Init /\ [][Next]_vars

-------------------------------------------------------------------------------
(* Properties.                                                               *)

AnyPair  == Pairs \cup {NoPair}
Contract == [id : 0 .. 1, pair : Pairs, taken : Nat, expires : Nat, paused : BOOLEAN]
Crate    == [bound : BOOLEAN, id : -1 .. 1, pair : AnyPair, stolen : BOOLEAN]
Dropped  == [at : Nodes, bound : BOOLEAN, pair : AnyPair, was : AnyPair]

\* Shapes and ranges.
TypeOK ==
  /\ round \in 0 .. Rounds
  /\ phase \in {"orders", "movement", "actions", "windfall", "deliveries",
                "cards", "upkeep", "offers"}
  /\ offer \in [Seats -> SUBSET Pairs] /\ lastOffer \in [Seats -> 0 .. Rounds]
  /\ contracts \in [Seats -> Seq(Contract)]
  /\ cargo \in [Seats -> Crate] /\ ground \in Seq(Dropped)
  /\ plan \in [Seats -> Plans] /\ todo \subseteq Seats /\ fights \in 0 .. MaxFights

\* At most two contracts to a seat, and an ID names one of them: nextContractID
\* looks at the first contract only, which is enough just as long as an offer
\* never reaches a seat that is full by the time it answers.
IDsNameOneContract ==
  \A s \in Seats :
    /\ Len(contracts[s]) <= 2
    /\ \A i, j \in DOMAIN contracts[s] :
         i # j => contracts[s][i].id # contracts[s][j].id

\* A bound crate nobody stole is always carried against a contract its carrier
\* holds, for the pair it was bound with: no expiry, sale, delivery or reused
\* ID separates the two.
HonestCargoHasItsContract ==
  \A s \in Seats : cargo[s].bound /\ ~cargo[s].stolen =>
    \E i \in DOMAIN contracts[s] :
      contracts[s][i].id = cargo[s].id /\ contracts[s][i].pair = cargo[s].pair

\* GDD 8.4: a Deadline Pause is worth one round, once per contract, however
\* many fights its crate is lost in and whoever carries it.
PausedOnceAtMost ==
  \A s \in Seats : \A i \in DOMAIN contracts[s] :
    LET c == contracts[s][i]
    IN  c.expires - c.taken - (IF c.paused THEN 1 ELSE 0) \in Deadlines

\* When orders open no contract is past its deadline.
NoneOverdue ==
  phase = "orders" => \A s \in Seats : \A i \in DOMAIN contracts[s] :
    contracts[s][i].expires > round

\* What a seat holds, what it carries and until when, together: no contract is
\* past its deadline or paused twice, no honest crate is without its contract.
ContractsInOrder == HonestCargoHasItsContract /\ PausedOnceAtMost /\ NoneOverdue

\* A fight moves cargo and neither makes nor destroys it, melee or not.
Crates == Len(ground) + Cardinality({s \in Seats : Carries(s)})
FightsKeepCargo == [][phase = "movement" => Crates' = Crates]_vars

\* GDD 15, "Winner": cargo taken without a matching contract cannot be
\* delivered.  What is delivered is the crate the contract was for.
OnlyOwnPairDelivered ==
  [][phase = "deliveries" => \A s \in Seats :
       Delivers(s) /\ cargo[s].bound =>
         contracts[s][WithID(contracts[s], cargo[s].id)].pair = cargo[s].pair]_vars

\* GDD 15: a crate that falls is "still bound to its original
\* origin/destination pair".
DroppedKeepsItsPair ==
  \A i \in DOMAIN ground : ground[i].bound => ground[i].pair = ground[i].was
===============================================================================
