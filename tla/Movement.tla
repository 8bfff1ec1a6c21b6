------------------------------- MODULE Movement -------------------------------
(***************************************************************************)
(* The movement of one round: every seat takes its first step at once,     *)
(* then its second, and so on; after each step the seats that met, on an   *)
(* edge or on a node, fight, and those that lose are thrown back           *)
(* (internal/rules: movement.go, confront.go, the loop in resolve.go).     *)
(*                                                                         *)
(* A fight's dice and modifiers are left open: any seat may win, or the    *)
(* top may tie.  What a fight does to money and Infamy is in Leases, what  *)
(* it does to cargo in Contracts.                                          *)
(***************************************************************************)
EXTENDS Integers, Sequences, FiniteSets, FiniteSetsExt, SequencesExt

CONSTANTS
  NumSeats, Nodes,
  Edges,      \* Node.Edges, as a set of two-node sets
  Weathers,   \* what the board may suffer: [gas |-> nodes, sunk |-> nodes]
  Permits,    \* seats that discard a Circulation Permit
  Plans,      \* bound: the plans each seat may declare
  Lucky       \* bound: the seats whose Scavenging roll may be a 6

Seats == 0 .. NumSeats - 1

ASSUME MovementAssumption ==
  /\ NumSeats \in Nat \ {0} /\ Nodes \subseteq Nat \ {0}
  /\ \A e \in Edges : e \subseteq Nodes /\ Cardinality(e) = 2
  /\ \A w \in Weathers : w.gas \subseteq Nodes /\ w.sunk \subseteq Nodes
  /\ Permits \subseteq Seats /\ Lucky \subseteq Seats
  /\ Plans \in [Seats -> SUBSET [steps : Nat, push : 0 .. 2, stance : {"aggressive", "neutral", "evasive"}]]

VARIABLES
  phase,      \* where Resolve is: "validate", "move", "actions"
  weather,    \* the Gas Leak's sector, if one leaks, and the sunken nodes
  step,       \* the loop's step
  position,   \* Player.Position
  known,      \* the nodes of Player.Fog that are Known
  order,      \* validated: the rest of each seat's order
  walk,       \* seatWalk
  pending,    \* the confrontations of this step still to resolve
  held, fate, twice, fled, goal   \* history: see the last section

history == <<held, fate, twice, fled, goal>>
vars == <<phase, weather, step, position, known, order, walk, pending, history>>

-------------------------------------------------------------------------------
(* Helpers.                                                                  *)

NoOrder      == [route |-> <<>>, push |-> 0, acts |-> FALSE, stance |-> "none"]
\* haltMovement: route, blind steps and action are gone.
HaltMovement(s) == [route |-> <<>>, push |-> 0, acts |-> FALSE, stance |-> order[s].stance]

Neighbours(n) == {m \in Nodes : {m, n} \in Edges}
Open(n)      == Neighbours(n) \ weather.sunk
Evasive(s)   == order[s].stance = "evasive"
Aggressive(s) == order[s].stance = "aggressive"

\* The routes of k steps from n along edges.
Routes(n, k) ==
  {r \in [1 .. k -> Nodes] : \A i \in 1 .. k : r[i] \in Neighbours(IF i = 1 THEN n ELSE r[i - 1])}

\* The step at which the declared plan runs out.
End(s) == Len(order[s].route) + order[s].push

MovementSteps == Max({1} \cup {End(s) : s \in Seats})

-------------------------------------------------------------------------------
(* One step of everyone.                                                     *)

\* pushOnCandidates: not back where it came from, unless that is the only way.
PushOnCandidates(n, cameFrom) ==
  IF Open(n) \ {cameFrom} # {} THEN Open(n) \ {cameFrom} ELSE Open(n)

\* Where the order takes the seat: its next route step, a blind step (the bias
\* only narrows the choice), or nowhere.
Targets(s, k) ==
  CASE k <= Len(order[s].route) -> {order[s].route[k]}
    [] k > Len(order[s].route) /\ k <= End(s) ->
         LET ways == PushOnCandidates(position[s], walk[s].previous)
         IN IF ways = {} THEN {position[s]} ELSE ways
    [] OTHER -> {position[s]}

GasStops(s, n) == n # position[s] /\ n \in weather.gas /\ s \notin Permits

\* What a seat that enters n learns: n, and with a 6 on a Hidden node what is next to it.
Learns(s, n, six) == known[s] \cup {n} \cup (IF six THEN Neighbours(n) ELSE {})

\* detectCrossings: pairs that swapped nodes, grouped by where they fight.
CrossingNode(a, b) ==
  CASE Aggressive(a) /\ ~Aggressive(b) -> position[a]
    [] Aggressive(b) /\ ~Aggressive(a) -> position[b]
    [] OTHER -> Min({position[a], position[b]})

Crossings(to) ==
  LET Swapped(a, b) == /\ a < b /\ to[a] # position[a]
                       /\ position[b] = to[a] /\ to[b] = position[a]
      At(n) == {s \in Seats : \E a, b \in Seats :
                  Swapped(a, b) /\ s \in {a, b} /\ CrossingNode(a, b) = n}
  IN {[node |-> n, seats |-> At(n)] : n \in {m \in Nodes : At(m) # {}}}

\* Mutant: only seats that moved collide.
CollisionsOfMovers(to) ==
  LET Here(n) == {s \in Seats : to[s] = n /\ to[s] # position[s]}
  IN {[node |-> n, seats |-> Here(n)] : n \in {m \in Nodes : Cardinality(Here(m)) >= 2}}

\* detectCollisions: whoever stands together, moved or not.
Collisions(to) ==
  LET Here(n) == {s \in Seats : to[s] = n}
  IN {[node |-> n, seats |-> Here(n)] : n \in {m \in Nodes : Cardinality(Here(m)) >= 2}}

\* mergeConfrontations: one confrontation for each node.
Merged(crossings, collisions) ==
  LET all == crossings \cup collisions
  IN {[node |-> n, seats |-> UNION {c.seats : c \in {d \in all : d.node = n}}] : n \in {c.node : c \in all}}

\* advance, then the detection of who meets.
Advance ==
  /\ phase = "move" /\ pending = {} /\ step < MovementSteps
  /\ \E target \in [Seats -> Nodes] :
       LET stopped == {s \in Seats : GasStops(s, target[s])}
           to      == [s \in Seats |-> IF s \in stopped THEN position[s] ELSE target[s]]
           Moves(s) == to[s] # position[s]
       IN /\ \A s \in Seats : target[s] \in Targets(s, step + 1)
          /\ position' = to
          /\ order' = [s \in Seats |-> IF s \in stopped THEN HaltMovement(s) ELSE order[s]]
          /\ walk' = [s \in Seats |->
               [previous |-> position[s],
                path     |-> IF Moves(s) THEN Append(walk[s].path, to[s]) ELSE walk[s].path]]
          /\ \E sixes \in SUBSET {s \in Lucky : Moves(s) /\ to[s] \notin known[s]} :
               known' = [s \in Seats |-> IF Moves(s) THEN Learns(s, to[s], s \in sixes) ELSE known[s]]
          /\ pending' = Merged(Crossings(to), Collisions(to))
          /\ fled' = [s \in Seats |-> IF Moves(s) THEN 0 ELSE fled[s]]
  /\ step' = step + 1
  /\ held' = position /\ fate' = [s \in Seats |-> "none"]
  /\ UNCHANGED <<phase, weather, twice, goal>>

-------------------------------------------------------------------------------
(* One confrontation.                                                        *)

\* Mutant: the tail is rewritten, the repeated entry stays.
FixPathTailOnly(path, n) == [path EXCEPT ![Len(path)] = n]

\* fixPathTail: the fight is at n, wherever the seat's step ended.
FixPathTail(path, n) ==
  LET fixed == [path EXCEPT ![Len(path)] = n]
  IN IF Len(path) >= 2 /\ path[Len(path) - 1] = n THEN Front(fixed) ELSE fixed

Corrected(c) == {s \in c.seats : position[s] # c.node}

PathInFight(c, s) == IF s \in Corrected(c) THEN FixPathTail(walk[s].path, c.node) ELSE walk[s].path

\* Where a seat that did not move is pushed: one random hop, two when evasive.
RandomHops(n, evasive) ==
  LET Second(m) == IF evasive /\ Open(m) \ {n} # {} THEN Open(m) \ {n} ELSE {m}
  IN IF Open(n) = {} THEN {n} ELSE UNION {Second(m) : m \in Open(n)}

\* pushback: the paths a loser may be left with; it stands where they end.
Pushbacks(c, s) ==
  LET path == PathInFight(c, s)
      hops == IF Evasive(s) THEN 2 ELSE 1
  IN IF Len(path) - 1 >= hops THEN {SubSeq(path, 1, Len(path) - hops)}
     ELSE IF Len(path) = 2 THEN {<<path[1]>>}
     ELSE {<<n>> : n \in RandomHops(c.node, Evasive(s))}

Unspent(s) == Max({0, End(s) - step})

\* Mutant: the steps already walked blindly are not added back.
HaltedShort(s) ==
  LET walked == Min({step, Len(order[s].route)})
  IN IF Unspent(s) = 0 THEN HaltMovement(s)
     ELSE [order[s] EXCEPT !.route = SubSeq(order[s].route, 1, walked), !.push = Unspent(s), !.acts = FALSE]

\* haltOrConvertMovement: the route and the action are lost, the steps are not.
Halted(s) ==
  LET walked == Min({step, Len(order[s].route)})
  IN IF Unspent(s) = 0 THEN HaltMovement(s)
     ELSE [order[s] EXCEPT !.route = SubSeq(order[s].route, 1, walked),
                           !.push = step - walked + Unspent(s),
                           !.acts = FALSE]

\* The seat a blind step must not walk back into the fight.
PreviousAfter(c, s) == IF Unspent(s) > 0 THEN c.node ELSE walk[s].previous

\* The fights of a step are resolved in node order.
NextFight(c) == c \in pending /\ \A d \in pending : c.node <= d.node

Remember(c, fates) ==
  /\ fate' = [s \in Seats |-> IF s \in c.seats THEN fates[s] ELSE fate[s]]
  /\ twice' = twice \cup {s \in c.seats : fate[s] # "none"}
  /\ fled' = [s \in Seats |-> IF s \notin c.seats THEN fled[s]
                              ELSE IF fates[s] # "won" /\ Unspent(s) > 0 THEN c.node ELSE 0]
  /\ UNCHANGED <<held, goal>>

\* Mutant: a tie sends everyone to where the round began.
RoundStart(s) == walk[s].path[1]

TieDestination(s) == walk[s].previous

\* resolveTie: everyone falls back to the node before.
Tie(c) ==
  LET dest == [s \in c.seats |-> TieDestination(s)]
  IN /\ position' = [s \in Seats |-> IF s \in c.seats THEN dest[s] ELSE position[s]]
     /\ walk' = [s \in Seats |-> IF s \in c.seats
                                 THEN [previous |-> PreviousAfter(c, s), path |-> <<dest[s]>>]
                                 ELSE walk[s]]
     /\ order' = [s \in Seats |-> IF s \in c.seats THEN Halted(s) ELSE order[s]]
     /\ Remember(c, [s \in c.seats |-> "tied"])
     /\ UNCHANGED known

\* The winner's order, void if the fight put it somewhere else.
WinnersOrder(c, w) == IF w \in Corrected(c) THEN Halted(w) ELSE order[w]

\* Mutant: being pushed onto a node does not make it Known.
PushedBlind(s, path) == known[s]

\* markNodeKnown in pushback.
PushedOnto(s, path) == known[s] \cup {Last(path)}

\* resolveDecisive, with resolveLoser for each loser.
Decisive(c, w) ==
  \E path \in [c.seats -> UNION {Pushbacks(c, s) : s \in c.seats} \cup {PathInFight(c, w)}] :
    LET losers == c.seats \ {w}
    IN /\ path[w] = PathInFight(c, w)
       /\ \A s \in losers : path[s] \in Pushbacks(c, s)
       /\ position' = [s \in Seats |-> IF s = w THEN c.node
                                       ELSE IF s \in losers THEN Last(path[s]) ELSE position[s]]
       /\ walk' = [s \in Seats |->
            IF s \in losers THEN [previous |-> PreviousAfter(c, s), path |-> path[s]]
            ELSE IF s = w THEN [walk[s] EXCEPT !.path = path[s]] ELSE walk[s]]
       /\ order' = [s \in Seats |-> IF s = w THEN WinnersOrder(c, s)
                                    ELSE IF s \in losers THEN Halted(s) ELSE order[s]]
       /\ known' = [s \in Seats |-> IF s \in losers THEN PushedOnto(s, path[s]) ELSE known[s]]
       /\ Remember(c, [s \in c.seats |-> IF s = w THEN "won" ELSE "lost"])

\* resolveOneConfrontation.
Fight ==
  /\ phase = "move" /\ pending # {}
  /\ \E c \in pending :
       /\ NextFight(c)
       /\ pending' = pending \ {c}
       /\ Tie(c) \/ \E w \in c.seats : Decisive(c, w)
  /\ UNCHANGED <<phase, weather, step>>

-------------------------------------------------------------------------------
(* The round around them.                                                    *)

Undeclared == {s \in Seats : order[s] = NoOrder}

\* validate lets an order through: a route along edges whose inner nodes are
\* Known, blind steps only from a Hidden last node and only without an action.
\* What is Known is chosen here, as little as the order needs.
Validate ==
  /\ phase = "validate" /\ Undeclared # {}
  /\ \E s \in Undeclared : \E p \in Plans[s] : \E r \in Routes(position[s], p.steps) :
       /\ \A t \in Undeclared : s <= t
       /\ known' = [known EXCEPT ![s] = @ \cup {r[i] : i \in 1 .. p.steps - 1}]
       /\ p.push > 0 => r # <<>> /\ Last(r) \notin known'[s]
       /\ order' = [order EXCEPT ![s] = [route |-> r, push |-> p.push, acts |-> p.push = 0, stance |-> p.stance]]
       /\ goal' = [goal EXCEPT ![s] = IF r = <<>> THEN position[s] ELSE Last(r)]
  /\ UNCHANGED <<phase, weather, step, position, walk, pending, held, fate, twice, fled>>

StartMoving ==
  /\ phase = "validate" /\ Undeclared = {}
  /\ phase' = "move"
  /\ UNCHANGED <<weather, step, position, known, order, walk, pending, history>>

\* The loop's bound is read again before every step.
EndMovement ==
  /\ phase = "move" /\ pending = {} /\ step >= MovementSteps
  /\ phase' = "actions"
  /\ UNCHANGED <<weather, step, position, known, order, walk, pending, history>>

\* Seats may share a node when a round opens: a pushback or a card put them there.
Init ==
  /\ phase = "validate" /\ weather \in Weathers /\ step = 0
  /\ position \in [Seats -> Nodes]
  /\ known = [s \in Seats |-> {position[s]}]
  /\ order = [s \in Seats |-> NoOrder]
  /\ walk = [s \in Seats |-> [previous |-> position[s], path |-> <<position[s]>>]]
  /\ pending = {}
  /\ held = position /\ fate = [s \in Seats |-> "none"] /\ twice = {}
  /\ fled = [s \in Seats |-> 0] /\ goal = position

Next == Validate \/ StartMoving \/ Advance \/ Fight \/ EndMovement

Spec == Init /\ [][Next]_vars

-------------------------------------------------------------------------------
(* Properties.  They read history: where a seat stood before this step       *)
(* (held), how its latest fight of the step went (fate), who has ever        *)
(* fought twice in one step (twice), the node a seat with steps left was     *)
(* thrown from and has not yet walked on from (fled), and where its order    *)
(* was to end (goal).                                                        *)

\* The board, the orders and the walks keep their shape; a walk never loses
\* its last node (pushback truncates it).
TypeOK ==
  /\ phase \in {"validate", "move", "actions"} /\ weather \in Weathers /\ step \in Nat
  /\ position \in [Seats -> Nodes] /\ known \in [Seats -> SUBSET Nodes]
  /\ order \in [Seats -> [route : Seq(Nodes), push : Nat, acts : BOOLEAN,
                         stance : {"none", "aggressive", "neutral", "evasive"}]]
  /\ walk \in [Seats -> [previous : Nodes, path : Seq(Nodes) \ {<<>>}]]
  /\ pending \subseteq [node : Nodes, seats : SUBSET Seats]

\* advance trusts the next entry of a route to be next to where the seat
\* stands: whatever fights have done to it, its route still fits
\* (resolveTie's comment; haltOrConvertMovement at all three halts).
RoutesFit ==
  phase = "move" /\ pending = {} =>
    \A s \in Seats : step < Len(order[s].route) => order[s].route[step + 1] \in Neighbours(position[s])

NoRepeat(path) == \A i \in 1 .. Len(path) - 1 : path[i] # path[i + 1]

\* A seat's path ends where it stands, and no entry repeats the one before:
\* what pushback and fixPathTail count on, across advances, corrections,
\* pushbacks and ties.
PathEndsHere ==
  \A s \in Seats :
    Last(walk[s].path) = position[s] /\ NoRepeat(walk[s].path)

\* Nobody ever stands on a node that is not Known to it, however it was put
\* there (markNodeKnown in scavenge and pushback; a correction or a tie only
\* goes where the seat has been).
StandsOnKnown == \A s \in Seats : position[s] \in known[s]

\* Who still acts when movement is over stands where its order was to end:
\* every fight or gas that stops a seat short takes its action too.
ActsWhereDeclared ==
  phase = "actions" => \A s \in Seats : order[s].acts => position[s] = goal[s]

\* Two seats share a node after movement only if the last step made one of
\* them fall back: no meeting of a step goes without its confrontation.
SharedOnlyByFallback ==
  phase = "actions" =>
    \A s, t \in Seats : s # t /\ position[s] = position[t] =>
                           {fate[s], fate[t]} \cap {"lost", "tied"} # {}

\* The order a seat is left with always describes the walk it is on: its route
\* fits, its action is where the walk ends, and no meeting on it was skipped.
OrdersFitWalks == RoutesFit /\ ActsWhereDeclared /\ SharedOnlyByFallback

\* The step at which a plan runs out never moves: a halt turns what is left
\* into blind steps or, when nothing is, ends the plan
\* (haltOrConvertMovement); so the loop that reads it again every step
\* neither stops short nor runs on.
ClockKept ==
  [][\A s \in Seats : phase = "move" /\ End(s)' # End(s) =>
       End(s)' = 0 /\ (End(s) <= step' \/ weather.gas # {})]_vars

\* How far apart two nodes are, up to two steps.
Within(n, m, d) ==
  \/ m = n
  \/ d >= 1 /\ m \in Neighbours(n)
  \/ d >= 2 /\ \E k \in Neighbours(n) : m \in Neighbours(k)

\* The fights that s is now part of: one at most.
FightsOf(s) == {c \in pending : NextFight(c) /\ s \in c.seats}

\* As long as a seat has not fought twice in one step, it falls back as the
\* rules say: after a tie to where it stood before the step, after a loss to
\* within one step of the fight, two if it was evasive (resolveTie, pushback
\* and the crossing correction before them, over several steps of fights).
FallsBackAsRuled ==
  [][\A s \in Seats : \A c \in FightsOf(s) : s \notin twice' =>
       /\ fate'[s] = "tied" => position'[s] = held[s]
       /\ fate'[s] = "lost" => Within(c.node, position'[s], IF Evasive(s) THEN 2 ELSE 1)]_vars

\* A seat thrown out of a fight with steps left does not walk blindly back
\* into that node, unless there is no other way (the Previous that resolveTie
\* and resolveLoser leave for pushOnCandidates).
NoWayBackIn ==
  [][\A s \in Seats : phase = "move" /\ pending = {} /\ fled[s] # 0 /\ position'[s] # position[s]
       /\ position'[s] = fled[s] => Open(position[s]) = {fled[s]}]_vars

\* Both ends of losing a fight: where the seat is sent, and that its blind
\* steps do not take it straight back.
ThrownOutAsRuled == FallsBackAsRuled /\ NoWayBackIn

\* resolveTie's comment: "every participant reverts to the node they held
\* before this step (seatWalk.Previous)".
TiesRevert ==
  [][\A s \in Seats : FightsOf(s) # {} /\ fate'[s] = "tied" => position'[s] = held[s]]_vars

\* GDD 14.3 of a Sinkhole: the node is impassable; resolveSinkhole's comment
\* leaves it to advance that no one steps onto it.
SinkholesImpassable ==
  [][\A s \in Seats : phase = "move" /\ pending = {} /\ position'[s] # position[s]
       => position'[s] \notin weather.sunk]_vars

===============================================================================
