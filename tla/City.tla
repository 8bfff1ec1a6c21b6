---------------------------------- MODULE City ---------------------------------
(***************************************************************************)
(* What the city does to its players: the two decks, the cards whose       *)
(* effect outlives the round they fall in, and the flags that change how   *)
(* far a seat may walk (internal/rules: resolve.go, events.go,             *)
(* incidents.go, cards.go, steps.go, upkeep.go, borders.go).  A round is   *)
(* opened and judged, walked, traded, struck by its event and then by its  *)
(* incident, and closed by upkeep.                                         *)
(*                                                                         *)
(* A seat reads how far it may walk in the view made when the last round   *)
(* closed (fog.go, projectSelf) and its order is judged by another         *)
(* computation when the next one opens (validate.go, legalView).           *)
(*                                                                         *)
(* Left out: money, Infamy and posts (module Leases), contracts and bound  *)
(* crates (Contracts), the loop that walks routes (Movement), what is seen *)
(* (Sight).  Infamy's tier is therefore the same in both computations.     *)
(***************************************************************************)
EXTENDS Sequences, Borders

CONSTANTS
  NumSeats,                \* len(MatchState.Players)
  Nodes, TypeOf, SectorOf, \* Graph.Nodes: IDs, Node.Type, Node.Sector
  Sectors,                 \* allSectors, positive numbers
  Paths,                   \* the edges of the map, as sets of two nodes
  Homes,                   \* the seats' start nodes
  Rounds,                  \* Config.Rounds
  FirstEvent, FirstIncident, \* the rounds the two decks start in (4 and 3)
  EventPools, IncidentPools, \* bound: sets of cards a run's decks are drawn from
  CategoryOf,              \* EventCard.Category; hazard or boon for an incident
  EventQuota, IncidentQuota, \* how many of each category a deck holds
  SealCount,               \* how many Borders Dragnet draws (2)
  BaseSteps,               \* StepsByTier of the seats' tier
  SinkholeLife,            \* what Sinkhole sets SinkholeRounds to (3)
  Permits,                 \* seats that discard a Circulation Permit when struck
  Longest,                 \* bound: steps of the longest route an order asks for
  Setbacks                 \* bound: the flags a round's play may leave on a seat

Seats      == 0 .. NumSeats - 1
BorderIDs  == {n \in Nodes : TypeOf[n] = "border"}
NoSector   == 0
NoCard     == "none"
NoModifier == [scaffolding |-> NoSector, retainer |-> FALSE,
               blackout |-> FALSE, strike |-> FALSE]

ASSUME CityAssumption ==
  /\ NumSeats \in Nat \ {0} /\ Rounds \in Nat
  /\ Nodes \subseteq Nat /\ IsFiniteSet(Nodes)
  /\ BorderIDs # {}                    \* gen places at least three (GDD 6.2)
  /\ Sectors \subseteq Nat \ {0}
  /\ FirstEvent \in Nat \ {0} /\ \A p \in EventPools : IsFiniteSet(p)

VARIABLES
  round, phase,
  eventDeck, incidentDeck,  \* Graph.EventDeck, Graph.IncidentDeck
  unstable,                 \* UnstableSector
  next, entryNext,          \* NextRound, and Resolve's copy of it as it opened
  where, cargo,             \* Player.Position; "none", "crate" or "spilled"
  flags,                    \* the one-round flags on each seat
  granted,                  \* what validate judges each seat's order by
  verdict,                  \* and what it makes of it: "legal", "cut" or "rejected"
  blocked,                  \* blockedBordersThisRound
  todo,                     \* seats still to act
  edges, sunk,              \* Node.Edges, Node.SinkholeRounds
  windfall,                 \* nodes with FenceWindfallActive
  crates,                   \* Graph.Cargo: pairs of a node and a kind
  shown,                    \* history: what each seat's last view promised
  claims                    \* history: Fence's Windfalls paid

decks == <<eventDeck, incidentDeck>>
rulings == <<granted, verdict>>
map   == <<edges, sunk, windfall>>
vars  == <<round, phase, decks, unstable, next, entryNext, where, cargo, flags,
           rulings, blocked, todo, map, crates, shown, claims>>

-------------------------------------------------------------------------------
(* Decks.                                                                    *)

Orders(S) == {f \in [1 .. Cardinality(S) -> S] : \A i, j \in DOMAIN f : f[i] = f[j] => i = j}

\* ShuffleConstrained: a quota of each category, no card twice, in any order.
ShuffleConstrained(pool, quota) ==
  LET picks == {T \in SUBSET pool :
        \A c \in DOMAIN quota : Cardinality({x \in T : CategoryOf[x] = c}) = quota[c]}
  IN UNION {Orders(T) : T \in picks}

CardAt(deck, first, r) == IF r - first + 1 \in DOMAIN deck THEN deck[r - first + 1] ELSE NoCard
EventCard(r)    == CardAt(eventDeck, FirstEvent, r)
IncidentCard(r) == IF unstable = NoSector THEN NoCard ELSE CardAt(incidentDeck, FirstIncident, r)

-------------------------------------------------------------------------------
(* How far a seat may walk, and what else its view says of the round.        *)

One(condition) == IF condition THEN 1 ELSE 0

StepAllowance(f, curfew, scaffolding, retainer) ==
  LET n == BaseSteps - One("flagged" \in f) - One(curfew) - One("evasive" \in f)
             + One("guard" \in f) + One(scaffolding) + 2 * One(retainer)
      atLeastOne == IF n < 1 THEN 1 ELSE n
  IN IF "streets" \in f THEN 1 ELSE atLeastOne

\* The card a view must warn of: that of the round about to open.
CardAhead(r) == EventCard(r)

\* legalView and projectSelf, for the round r they are about.  n is NextRound.
Terms(s, f, curfew, n, node, load) ==
  [steps  |-> StepAllowance(f, curfew, n.scaffolding = SectorOf[node],
                            n.retainer /\ load = "none"),
   strike |-> n.strike]

Promise(s, r, f, n, node, load) == Terms(s, f, CardAhead(r) = "curfew", n, node, load)

-------------------------------------------------------------------------------
(* The map.                                                                  *)

Neighbours(n) == {m \in Nodes : {n, m} \in edges}

\* Where a walk of exactly so many steps may end, and of no more than so many.
WalksOf(n, steps) ==
  LET ends[k \in 0 .. steps] ==
        IF k = 0 THEN {n} ELSE UNION {Neighbours(m) : m \in ends[k - 1]}
  IN ends[steps]
Reach(n, steps) == UNION {WalksOf(n, k) : k \in 0 .. steps}

InSector(sector)      == {n \in Nodes : SectorOf[n] = sector}
OutsideSector(sector) == Nodes \ InSector(sector)

\* retreatTowardSectorEdge: the lowest neighbour out of the sector, or stay.
Retreat(n, sector) ==
  LET exits == {m \in Neighbours(n) : SectorOf[m] # sector /\ sunk[m] = 0}
  IN IF exits = {} THEN n ELSE Lowest(exits)

Eligible(sector) == {s \in Seats : SectorOf[where[s]] = sector} \ Permits

\* legalView, with Curfew if it is on and without (truncateForCurfew asks for both).
JudgedBy(s, f, curfew) ==
  LET Now(c) == Terms(s, f, c, next, where[s], cargo[s])
  IN [steps |-> Now(curfew).steps, free |-> Now(FALSE).steps, strike |-> next.strike]

\* Mutant: the flags are reset before the snapshot the orders are judged by.
JudgedAfterReset(s, curfew) == JudgedBy(s, {}, curfew)

\* Judged by the flags of the entry snapshot, taken before the reset.
Judged(s, curfew) == JudgedBy(s, flags[s], curfew)

\* truncateForCurfew, then Legal, of a route of so many steps: one that Curfew alone
\* makes too long is cut to what is left; one too long without it is rejected.
Verdict(length, g) ==
  IF length <= g.steps THEN "legal" ELSE IF length <= g.free THEN "cut" ELSE "rejected"

-------------------------------------------------------------------------------
Init ==
  /\ round = 0 /\ phase = "closed"
  /\ \E p \in EventPools : eventDeck \in ShuffleConstrained(p, EventQuota)
  /\ \E p \in IncidentPools : incidentDeck \in ShuffleConstrained(p, IncidentQuota)
  /\ unstable \in (IF Rounds < FirstIncident THEN {NoSector} ELSE Sectors)
  /\ next = NoModifier /\ entryNext = NoModifier
  /\ where \in Homes /\ cargo = [s \in Seats |-> "none"]
  /\ flags = [s \in Seats |-> {}]
  /\ shown = [s \in Seats |-> Promise(s, 1, {}, NoModifier, where[s], "none")]
  /\ granted = [s \in Seats |-> Judged(s, FALSE)]
  /\ verdict = [s \in Seats |-> "legal"]
  /\ blocked = {} /\ todo = {}
  /\ edges = Paths /\ sunk = [n \in Nodes |-> 0]
  /\ windfall = {} /\ crates = {} /\ claims = 0

\* drawDragnetBorders.
Seals == IF EventCard(round + 1) = "dragnet"
           THEN {b \in SUBSET BorderIDs :
                   Cardinality(b) = IF Cardinality(BorderIDs) < SealCount
                                      THEN Cardinality(BorderIDs) ELSE SealCount}
           ELSE {{}}

\* Resolve, up to the movement loop: snapshot, reset, contexts, validate.  An order
\* asks for a route of any length.
OpenRound ==
  /\ phase = "closed" /\ round < Rounds
  /\ round' = round + 1
  /\ granted' = [s \in Seats |-> Judged(s, EventCard(round + 1) = "curfew")]
  /\ \E asked \in [Seats -> 0 .. Longest] :
       verdict' = [s \in Seats |-> Verdict(asked[s], granted'[s])]
  /\ flags' = [s \in Seats |-> {}]
  /\ entryNext' = next
  /\ \E b \in Seals : blocked' = BlockedBorders(BorderIDs, round + 1, NumSeats, b)
  /\ phase' = "walk" /\ todo' = Seats
  /\ UNCHANGED <<decks, unstable, next, where, cargo, map, crates, shown, claims>>

\* Where its route may take a seat: as far as it was allowed, or as far as Curfew
\* leaves of a longer one, or nowhere (absenceDefault).
Ends(s) ==
  CASE verdict[s] = "legal"    -> Reach(where[s], granted[s].steps)
    [] verdict[s] = "cut"      -> WalksOf(where[s], granted[s].steps)
    [] verdict[s] = "rejected" -> {where[s]}

\* The movement loop, for one seat; a fight or a debt on the way may leave its mark.
Walk(s) ==
  /\ phase = "walk" /\ s \in todo /\ \A t \in todo : s <= t
  /\ \E n \in Ends(s) : where' = [where EXCEPT ![s] = n]
  /\ \E f \in Setbacks : flags' = [flags EXCEPT ![s] = @ \cup f]
  /\ todo' = IF todo = {s} THEN Seats ELSE todo \ {s}
  /\ phase' = IF todo = {s} THEN "act" ELSE "walk"
  /\ UNCHANGED <<round, decks, unstable, next, entryNext, cargo, rulings, blocked,
                 map, crates, shown, claims>>

\* resolveActions for one seat, in any order of fairness: it picks up a loose
\* crate, unless Dockers' Strike made that order illegal or Step 0 left it none, or
\* does nothing here.
Act(s) ==
  /\ phase = "act" /\ s \in todo
  /\ \/ UNCHANGED <<cargo, crates>>
     \/ /\ cargo[s] = "none" /\ ~granted[s].strike /\ verdict[s] = "legal"
        /\ \E c \in crates :
             /\ c[1] = where[s]
             /\ crates' = crates \ {c}
             /\ cargo' = [cargo EXCEPT ![s] = c[2]]
  /\ todo' = todo \ {s}
  /\ phase' = IF todo = {s} THEN "claim" ELSE "act"
  /\ UNCHANGED <<round, decks, unstable, next, entryNext, where, flags, rulings,
                 blocked, map, shown, claims>>

\* Mutant: the claim leaves the offer standing.
OfferStands(node) == windfall

OfferClosed(node) == windfall \ {node}

\* resolveFenceWindfallClaim: one carrier at the flagged market sells its crate.
Claim ==
  /\ phase = "claim" /\ phase' = "deliver"
  /\ LET flagged == {n \in windfall : \A m \in windfall : n <= m}
         arrived == {s \in Seats : where[s] \in flagged /\ cargo[s] # "none"}
     IN \/ /\ arrived = {} /\ UNCHANGED <<cargo, windfall, claims>>
        \/ \E s \in arrived :
             /\ cargo' = [cargo EXCEPT ![s] = "none"]
             /\ windfall' = OfferClosed(where[s])
             /\ claims' = claims + 1
  /\ UNCHANGED <<round, decks, unstable, next, entryNext, where, flags, rulings,
                 blocked, todo, edges, sunk, crates, shown>>

\* resolveDeliveries: any carriers that asked to, on Borders that are open.  A route
\* cut has lost its action; absenceDefault delivers.  No verdict is read again.
Deliver ==
  /\ phase = "deliver" /\ phase' = "event"
  /\ \E sold \in SUBSET {s \in Seats : /\ cargo[s] # "none" /\ verdict[s] # "cut"
                                      /\ where[s] \in BorderIDs \ blocked} :
       cargo' = [s \in Seats |-> IF s \in sold THEN "none" ELSE cargo[s]]
  /\ verdict' = [s \in Seats |-> "legal"]
  /\ UNCHANGED <<round, decks, unstable, next, entryNext, where, flags, granted,
                 blocked, todo, map, crates, shown, claims>>

-------------------------------------------------------------------------------
(* globalEvent: the card of the round, by what it leaves behind.             *)

OnlyModifiers(n) == next' = n /\ UNCHANGED <<map, crates>>

Retainer      == EventCard(round) = "retainer" /\ OnlyModifiers([next EXCEPT !.retainer = TRUE])
Blackout      == EventCard(round) = "blackout" /\ OnlyModifiers([next EXCEPT !.blackout = TRUE])
DockersStrike == EventCard(round) = "strike" /\ OnlyModifiers([next EXCEPT !.strike = TRUE])

Scaffolding ==
  /\ EventCard(round) = "scaffolding"
  /\ \E sector \in Sectors : OnlyModifiers([next EXCEPT !.scaffolding = sector])

BridgeDown ==
  /\ EventCard(round) = "bridge"
  /\ \E e \in edges : edges' = edges \ {e}
  /\ UNCHANGED <<next, sunk, windfall, crates>>

FencesWindfall ==
  /\ EventCard(round) = "windfall"
  /\ \E n \in {m \in Nodes : TypeOf[m] = "market"} : windfall' = windfall \cup {n}
  /\ UNCHANGED <<next, edges, sunk, crates>>

DeadRunner ==
  /\ EventCard(round) = "runner"
  /\ \E n \in Nodes : crates' = crates \cup {<<n, "crate">>}
  /\ UNCHANGED <<next, map>>

\* No card yet, or one whose whole effect was on the round itself.
NoEvent == EventCard(round) \in {NoCard, "dragnet", "curfew"} /\ UNCHANGED <<next, map, crates>>

GlobalEvent ==
  /\ phase = "event" /\ phase' = "incident"
  /\ \/ Retainer \/ Blackout \/ DockersStrike \/ Scaffolding
     \/ BridgeDown \/ FencesWindfall \/ DeadRunner \/ NoEvent
  /\ UNCHANGED <<round, decks, unstable, entryNext, where, cargo, flags, rulings,
                 blocked, todo, shown, claims>>

-------------------------------------------------------------------------------
(* incident: the card of the round, in the flagged sector.                   *)

\* dropForfeitCargo, of a loose crate: it falls where its carrier stands.
Dropped(S) == crates \cup {<<where[s], cargo[s]>> : s \in {x \in S : cargo[x] # "none"}}
Without(S) == [s \in Seats |-> IF s \in S THEN "none" ELSE cargo[s]]

\* The seats the Turf War's dice go against are any of those it reaches.
Ousted(S) ==
  /\ crates' = Dropped(S) /\ cargo' = Without(S)
  /\ where' = [s \in Seats |-> IF s \in S THEN Retreat(where[s], unstable) ELSE where[s]]
  /\ UNCHANGED <<flags, sunk>>

Flood   == IncidentCard(round) = "flood" /\ Ousted(Eligible(unstable))
TurfWar == IncidentCard(round) = "turf" /\ \E S \in SUBSET Eligible(unstable) : Ousted(S)

SnatchJob ==
  /\ IncidentCard(round) = "snatch"
  /\ \E to \in [Eligible(unstable) -> OutsideSector(unstable)] :
       where' = [s \in Seats |-> IF s \in DOMAIN to THEN to[s] ELSE where[s]]
  /\ cargo' = Without(Eligible(unstable))
  /\ UNCHANGED <<flags, sunk, crates>>

Sinkhole ==
  /\ IncidentCard(round) = "sinkhole"
  /\ \E n \in InSector(unstable) : sunk' = [sunk EXCEPT ![n] = SinkholeLife]
  /\ UNCHANGED <<where, cargo, flags, crates>>

Marked(flag) ==
  /\ flags' = [s \in Seats |-> IF s \in Eligible(unstable) THEN flags[s] \cup {flag} ELSE flags[s]]
  /\ UNCHANGED <<where, cargo, sunk, crates>>

StreetsBlocked  == IncidentCard(round) = "streets" /\ Marked("streets")
DistractedGuard == IncidentCard(round) = "guard" /\ Marked("guard")

SpilledLoad ==
  /\ IncidentCard(round) = "spill"
  /\ \E n \in InSector(unstable) : crates' = crates \cup {<<n, "spilled">>}
  /\ UNCHANGED <<where, cargo, flags, sunk>>

NoIncident == IncidentCard(round) = NoCard /\ UNCHANGED <<where, cargo, flags, sunk, crates>>

\* nextUnstableSector, drawn only when an incident was live.
NextSector ==
  IF IncidentCard(round) = NoCard THEN unstable' = unstable
  ELSE IF round >= Rounds THEN unstable' = NoSector
  ELSE unstable' \in Sectors \ {unstable}

Incident ==
  /\ phase = "incident" /\ phase' = "upkeep"
  /\ \/ Flood \/ TurfWar \/ SnatchJob \/ Sinkhole \/ StreetsBlocked
     \/ DistractedGuard \/ SpilledLoad \/ NoIncident
  /\ NextSector
  /\ UNCHANGED <<round, decks, next, entryNext, rulings, blocked, todo, edges,
                 windfall, shown, claims>>

-------------------------------------------------------------------------------
\* Mutant: upkeep clears what is set, whenever it was set.
AllSpent == NoModifier

\* upkeepNextRoundModifiers: what was set when the round opened is spent.
Spent ==
  [scaffolding |-> IF entryNext.scaffolding # NoSector THEN NoSector ELSE next.scaffolding,
   retainer    |-> next.retainer /\ ~entryNext.retainer,
   blackout    |-> next.blackout /\ ~entryNext.blackout,
   strike      |-> next.strike /\ ~entryNext.strike]

\* upkeepSinkholes and upkeepNextRoundModifiers, then the views of the next round.
Upkeep ==
  /\ phase = "upkeep" /\ phase' = "closed"
  /\ sunk' = [n \in Nodes |-> IF sunk[n] > 0 THEN sunk[n] - 1 ELSE 0]
  /\ next' = Spent
  /\ shown' = [s \in Seats |-> Promise(s, round + 1, flags[s], Spent, where[s], cargo[s])]
  /\ UNCHANGED <<round, decks, unstable, entryNext, where, cargo, flags, rulings,
                 blocked, todo, edges, windfall, crates, claims>>

Next ==
  \/ OpenRound \/ Claim \/ Deliver \/ GlobalEvent \/ Incident \/ Upkeep
  \/ \E s \in Seats : Walk(s) \/ Act(s)

Spec == Init /\ [][Next]_vars

-------------------------------------------------------------------------------
(* Correctness.                                                              *)

\* What a seat was told it may do when the last round closed is what its order
\* is judged by when the next one opens: the steps it has, under Curfew too, and
\* whether it may pick up; so no route within what it was shown is cut or rejected.
\* The two are computed in different places (fog.go projectSelf and validate.go
\* legalView), with the reset of the flags between them.
ShownIsGranted ==
  phase = "walk" => \A s \in Seats :
    /\ granted[s].steps = shown[s].steps /\ granted[s].strike = shown[s].strike
    /\ \A length \in 0 .. shown[s].steps : Verdict(length, granted[s]) = "legal"

\* A modifier a card leaves for the next round is there through the whole of
\* that round, up to its own event, and in no other: it was set by the card of
\* the round before (upkeep.go, upkeepNextRoundModifiers).
Left(card) == EventCard(round - 1) = card
ModifiersServeOneRound ==
  phase \in {"walk", "act", "claim", "deliver", "event"} =>
    /\ (next.scaffolding # NoSector) <=> Left("scaffolding")
    /\ next.retainer <=> Left("retainer")
    /\ next.blackout <=> Left("blackout")
    /\ next.strike <=> Left("strike")

\* In every round some Border takes deliveries, whatever rotation and Dragnet
\* have closed between them (borders.go, blockedBordersThisRound).
SomeBorderOpen == BorderIDs \ blocked # {}

\* Fence's Windfall is paid for once, to the first crate to arrive, however
\* many rounds it waits (events.go, resolveFenceWindfallClaim).
WindfallPaidOnce == claims <= Cardinality({i \in DOMAIN eventDeck : eventDeck[i] = "windfall"})
===============================================================================
