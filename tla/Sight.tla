---------------------------------- MODULE Sight --------------------------------
(***************************************************************************)
(* What each seat sees: its fog, the trail it reads, the archive it keeps  *)
(* and the view made of them (internal/rules: trail.go, fog.go, anchors.go *)
(* and the incidents that move a seat or lend it sight).  A round is       *)
(* played, its trail is written and handed out, and only then does its     *)
(* incident strike.                                                        *)
(*                                                                         *)
(* Left out: the step loop (module Movement, which says where a walk ends  *)
(* and who fights), Infamy and posts (Leases, constant here), what a deed  *)
(* needs to succeed (a failed one leaves no event: the deed "none"), the   *)
(* edges and nodes that cards take away (City), and coordinates and names. *)
(* The rounds' cards are drawn from a set; which card falls when is City's.*)
(***************************************************************************)
EXTENDS Integers, Sequences, FiniteSets

CONSTANTS
  NumSeats,
  Nodes, TypeOf, SectorOf, Paths, \* the map; Paths are its edges, sets of two
  Homes,                \* start nodes, by seat
  Rounds,
  PostsOf, InfamyOf,    \* Player.Posts, Player.Infamy
  CargoNameFrom,        \* infamyNameCargoTaken (3)
  ItemNameFrom,         \* infamyNameItemPurchased (6)
  FearedFrom, LegendFrom, \* the Infamy that TierFeared and TierLegend start at
  Skies,                \* bound: the cards and places each round may have
  Eager,                \* bound: the seats that take a contract
  Deeds,                \* bound: the actions and discards each seat chooses from
  MaxSteps              \* bound: nodes in a walk

Seats   == 0 .. NumSeats - 1
NoNode  == 0            \* nodes are numbered from 1 here
Borders == {n \in Nodes : TypeOf[n] = "border"}

Hidden == 0  Rumoured == 1  Known == 2  InSight == 3   \* game.FogState

VARIABLES
  round, phase,
  sky,                  \* this round's event and incident cards and their places
  dark,                 \* NextRound.Blackout as the trail is written
  todo,                 \* seats still to play
  where, lastEnd,       \* Player.Position, LastEndNode
  streak, heat,         \* LoiteringStreak, LooseCrateHeldRounds
  loose,                \* seats carrying a loose crate
  dest,                 \* the Border of the contract in hand
  turn,                 \* this round's walk (seatWalk.Path) and deed
  informant,            \* seats with LocalInformant set
  fog,
  archive,              \* SeatArchive: node-rounds in sight and obscured, stamped trail
  logged                \* history: node-rounds something happened at, after any Riot

vars == <<round, phase, sky, dark, todo, where, lastEnd, streak, heat, loose, dest,
          turn, informant, fog, archive, logged>>

\* What a match gives: numbered nodes, starts and posts on them, and a target
\* for each deed that needs one.
Setting ==
  /\ NumSeats \in Nat /\ MaxSteps \in Nat
  /\ Nodes \in SUBSET (Nat \ {NoNode}) /\ IsFiniteSet(Nodes)
  /\ Homes \in [Seats -> Nodes]
  /\ PostsOf \in [Seats -> SUBSET Nodes]
  /\ \A s \in Seats : \A d \in Deeds[s] : d.item \in {"decoy", "band"} => d.at \in Nodes

Neighbours(n) == {m \in Nodes : {n, m} \in Paths}
WithinTwo(n)  == {n} \cup Neighbours(n) \cup UNION {Neighbours(m) : m \in Neighbours(n)}

NoTurn == [path |-> <<>>, act |-> "none", item |-> "none", at |-> NoNode]
NoSky  == [event |-> "none", fair |-> NoNode, incident |-> "none", sector |-> 0]

Ending(path) == path[Len(path)]

\* markNodeKnown, for each node of a set.
MadeKnown(f, S) == [n \in Nodes |-> IF n \in S /\ f[n] < Known THEN Known ELSE f[n]]

-------------------------------------------------------------------------------
\* seatPlayers: opening sight, and Known Warehouses two steps away.
OpeningFog(home) ==
  [n \in Nodes |->
     IF n = home \/ n \in Neighbours(home) THEN InSight
     ELSE IF TypeOf[n] = "warehouse" /\ n \in WithinTwo(home) THEN Known ELSE Hidden]

Init ==
  /\ round = 0 /\ phase = "closed"
  /\ sky = NoSky /\ dark = FALSE /\ todo = {}
  /\ where = Homes /\ lastEnd = Homes
  /\ streak = [s \in Seats |-> 0] /\ heat = [s \in Seats |-> 0]
  /\ loose = {} /\ informant = {}
  /\ dest = [s \in Seats |-> NoNode]
  /\ turn = [s \in Seats |-> NoTurn]
  /\ fog = [s \in Seats |-> OpeningFog(Homes[s])]
  /\ archive = [s \in Seats |-> [sight |-> {}, obscured |-> {}, trail |-> {}]]
  /\ logged = {}

\* contractCandidates: any Border, from a Warehouse the seat Knows.
Offers(s) ==
  IF \E w \in Nodes : TypeOf[w] = "warehouse" /\ fog[s][w] >= Known THEN Borders ELSE {}

\* AcceptOffer: the contract is in hand; the seat's fog is not touched.
Accept(s) ==
  /\ dest[s] = NoNode
  /\ \E b \in Offers(s) : dest' = [dest EXCEPT ![s] = b]

OpenRound ==
  /\ phase = "closed" /\ round < Rounds
  /\ round' = round + 1 /\ phase' = "play" /\ todo' = Seats
  /\ dark' = (sky.event = "blackout")
  /\ sky' \in Skies[round + 1]
  /\ \/ UNCHANGED dest
     \/ \E s \in Eager : Accept(s)
  /\ UNCHANGED <<where, lastEnd, streak, heat, loose, turn, informant, fog, archive, logged>>

\* The walks the route check lets through: a step leaves a Known node, enters
\* none that is only Rumoured, and a Hidden one is the last.
Walks(s) ==
  {p \in UNION {[1 .. k -> Nodes] : k \in 1 .. MaxSteps} :
     /\ p[1] = where[s]
     /\ \A i \in 1 .. Len(p) - 1 :
          p[i + 1] \in Neighbours(p[i]) /\ fog[s][p[i]] >= Known /\ fog[s][p[i + 1]] # Rumoured}

\* legalItemTargets: a Decoy goes on Known ground, a Police Band on ground not Hidden.
Aimed(s, deed) ==
  CASE deed.item = "decoy" -> fog[s][deed.at] >= Known
    [] deed.item = "band"  -> fog[s][deed.at] # Hidden
    [] OTHER -> TRUE

\* One seat's movement and action.  A node entered is Known from then on.
Play(s) ==
  /\ phase = "play" /\ s \in todo /\ \A t \in todo : s <= t
  /\ \E path \in Walks(s), deed \in Deeds[s] :
       /\ Aimed(s, deed)
       /\ deed.act = "take" => s \notin loose
       /\ turn' = [turn EXCEPT ![s] = [path |-> path, act |-> deed.act,
                                       item |-> deed.item, at |-> deed.at]]
       /\ where' = [where EXCEPT ![s] = Ending(path)]
       /\ fog' = [fog EXCEPT ![s] = MadeKnown(@, {path[i] : i \in 1 .. Len(path)})]
       /\ loose' = IF deed.act = "take" THEN loose \cup {s}
                   ELSE IF deed.act = "deliver" THEN loose \ {s} ELSE loose
  /\ todo' = todo \ {s}
  /\ phase' = IF todo = {s} THEN "trail" ELSE "play"
  /\ UNCHANGED <<round, sky, dark, lastEnd, streak, heat, dest, informant, archive, logged>>

-------------------------------------------------------------------------------
(* writeTrail: the entries of the round.                                     *)

Entry(kind, node, by, names) == [kind |-> kind, node |-> node, by |-> by, names |-> names]

\* hasDiscard of a Circulation Permit spares its holder the incident.
Struck == {s \in Seats : SectorOf[where[s]] = sky.sector /\ turn[s].item # "permit"}

\* ownTraceSuppressed: Festival's node, or the Distracted Guard's sector.
Untraced(s, node) ==
  /\ node = where[s]
  /\ \/ sky.event = "festival" /\ node = sky.fair
     \/ sky.incident = "guard" /\ s \in Struck

Named(s, from) == IF InfamyOf[s] >= from THEN {s} ELSE {}

CargoEntry(node, s) == Entry("cargo", node, {s}, Named(s, CargoNameFrom))

CargoTakenAndDecoys ==
  {CargoEntry(where[s], s) : s \in {t \in Seats : turn[t].act = "take" /\ ~Untraced(t, where[t])}}
  \cup {CargoEntry(turn[s].at, s) :
          s \in {t \in Seats : turn[t].item = "decoy" /\ ~Untraced(t, turn[t].at)}}

Tracks ==
  {Entry("tracks", n, {}, {}) : n \in {m \in Nodes : \E s \in Seats :
     /\ turn[s].act # "vanish"
     /\ m # Ending(turn[s].path)
     /\ \E i \in 1 .. Len(turn[s].path) : turn[s].path[i] = m}}

\* Those that ended together may have fought.
Meetings == {f \in Nodes \X SUBSET Seats :
               Cardinality(f[2]) = 2 /\ \A s \in f[2] : where[s] = f[1]}
Fights(F) == {Entry("fight", f[1], f[2], f[2]) : f \in F}

Purchases ==
  {Entry("deal", where[s], {s}, Named(s, ItemNameFrom)) :
     s \in {t \in Seats : turn[t].act = "buy" /\ ~Untraced(t, where[t])}}

\* performedQualifyingAction: a Vanish counts only if it lowered Infamy.
Worked(s) == \/ turn[s].act \in {"take", "deliver", "buy"}
             \/ turn[s].act = "vanish" /\ InfamyOf[s] > 0

\* evaluateLoitering.
Loiters(s) ==
  /\ where[s] = lastEnd[s] \/ where[s] \in Neighbours(lastEnd[s])
  /\ TypeOf[where[s]] \notin {"warehouse", "border"}
  /\ ~Worked(s)
NewStreak(s) == IF Loiters(s) THEN streak[s] + 1 ELSE 0

Loiterers == {Entry("loiter", where[s], {s}, {}) : s \in {t \in Seats : NewStreak(t) = 2}}

-------------------------------------------------------------------------------
(* applyRiotPermutation: the sector's entries trade places.                  *)

Sites(E) == {e \in E : e.kind # "loiter" /\ SectorOf[e.node] = sky.sector}

\* Mutant: an entry goes to any node of the sector, busy or not.
MovesAnywhere(E) ==
  IF sky.incident # "riot" THEN {[e \in {} |-> e]}
  ELSE [Sites(E) -> {Entry("site", n, {}, {}) : n \in {m \in Nodes : SectorOf[m] = sky.sector}}]

\* Each entry takes the node of another, all different.
Moves(E) ==
  IF sky.incident # "riot" THEN {[e \in {} |-> e]}
  ELSE {p \in [Sites(E) -> Sites(E)] : \A a, b \in Sites(E) : p[a] = p[b] => a = b}

Moved(E, p) == {IF e \in DOMAIN p THEN [e EXCEPT !.node = p[e].node] ELSE e : e \in E}

-------------------------------------------------------------------------------
(* distributeTrail.                                                          *)

\* Blackout leaves nothing of the round's entries, rain no tracks.
Legible(E) == IF dark THEN {}
              ELSE IF sky.event = "rain" THEN {e \in E : e.kind # "tracks"} ELSE E

\* seatSight.
SightOf(s) ==
  IF dark THEN {where[s]}
  ELSE {where[s]} \cup Neighbours(where[s]) \cup PostsOf[s]
       \cup (IF turn[s].act = "surveil" \/ s \in informant THEN WithinTwo(where[s]) ELSE {})
       \cup (IF turn[s].item = "band" THEN {turn[s].at} ELSE {})

\* Mutant: what a seat saw last round stays in sight.
KeepsLooking(f, S) == [n \in Nodes |-> IF n \in S THEN InSight ELSE f[n]]

\* updateSeatFog.
Refogged(f, S) == [n \in Nodes |-> IF n \in S THEN InSight
                                   ELSE IF f[n] = InSight THEN Known ELSE f[n]]

\* The nodes that logged something and have nothing left to read.
Erased(busy, E) == busy \ {e.node : e \in E}

\* What a seat with sight S archives: busy nodes, and the entries left of them.
Archived(a, S, busy, E) ==
  LET hidden == Erased(busy, E) IN
  [sight    |-> a.sight \cup {<<n, round>> : n \in S \ hidden},
   obscured |-> a.obscured \cup {<<n, round>> : n \in S \cap hidden},
   trail    |-> a.trail \cup {[kind |-> e.kind, node |-> e.node, names |-> e.names, round |-> round] :
                                e \in {x \in E : x.node \in S}}]

\* The whole pass: entries, Loitering and crate heat, Riot, distribution.
WriteTrail ==
  /\ phase = "trail" /\ phase' = "incident"
  /\ \E F \in SUBSET Meetings :
       LET E == CargoTakenAndDecoys \cup Tracks \cup Fights(F) \cup Loiterers \cup Purchases
       IN \E p \in Moves(E) :
            LET after == Moved(E, p)
                busy  == {e.node : e \in E} \cup {e.node : e \in after}
            IN /\ archive' = [s \in Seats |->
                                Archived(archive[s], SightOf(s), busy, Legible(after))]
               /\ logged' = logged \cup {<<e.node, round>> : e \in E}
  /\ fog' = [s \in Seats |-> Refogged(fog[s], SightOf(s))]
  /\ streak' = [s \in Seats |-> NewStreak(s)]
  /\ heat' = [s \in Seats |-> IF s \in loose THEN heat[s] + 1 ELSE 0]
  /\ lastEnd' = where
  /\ informant' = {}
  /\ UNCHANGED <<round, sky, dark, todo, where, loose, dest, turn>>

-------------------------------------------------------------------------------
(* incident: those that move a seat or lend it sight.                        *)

\* Mutant: a seat is dumped on ground its fog still hides.
LeftHidden(f, to) == f

Discovered(f, to) == [s \in Seats |-> IF s \in DOMAIN to THEN MadeKnown(f[s], {to[s]}) ELSE f[s]]

\* The seats in to's domain are moved; their crates are lost or fall.
Displace(to) ==
  /\ where' = [s \in Seats |-> IF s \in DOMAIN to THEN to[s] ELSE where[s]]
  /\ fog' = Discovered(fog, to)
  /\ loose' = loose \ DOMAIN to
  /\ UNCHANGED informant

SnatchJob ==
  /\ sky.incident = "snatch"
  /\ \E to \in [Struck -> {n \in Nodes : SectorOf[n] # sky.sector}] : Displace(to)

\* retreatTowardSectorEdge.
Retreat(n) ==
  LET exits == {m \in Neighbours(n) : SectorOf[m] # sky.sector}
  IN IF exits = {} THEN n ELSE CHOOSE m \in exits : \A k \in exits : m <= k

Flood   == sky.incident = "flood" /\ Displace([s \in Struck |-> Retreat(where[s])])
TurfWar == /\ sky.incident = "turf"
           /\ \E S \in SUBSET Struck : Displace([s \in S |-> Retreat(where[s])])

LocalInformant ==
  /\ sky.incident = "informant"
  /\ informant' = Struck
  /\ UNCHANGED <<where, fog, loose>>

\* Riot and the Distracted Guard acted on the trail; other cards are not about sight.
Elsewhere ==
  /\ sky.incident \in {"none", "riot", "guard"}
  /\ UNCHANGED <<where, fog, loose, informant>>

Incident ==
  /\ phase = "incident" /\ phase' = "closed"
  /\ SnatchJob \/ Flood \/ TurfWar \/ LocalInformant \/ Elsewhere
  /\ turn' = [s \in Seats |-> NoTurn]
  /\ UNCHANGED <<round, sky, dark, todo, lastEnd, streak, heat, dest, archive, logged>>

Next == OpenRound \/ WriteTrail \/ Incident \/ \E s \in Seats : Play(s)

Spec == Init /\ [][Next]_vars

-------------------------------------------------------------------------------
(* Project: the view of a seat as a round closes.                            *)

RoundsAt(n, set) == {r \in 1 .. round : <<n, r>> \in set}
TrailAt(s, n)    == {e.round : e \in {x \in archive[s].trail : x.node = n}}

\* deriveNodeStats.
NodeStats(s, n) ==
  LET sight == RoundsAt(n, archive[s].sight) IN
  [observed |-> Cardinality(sight),
   traffic  |-> Cardinality(sight \cap TrailAt(s, n)),
   obscured |-> Cardinality(RoundsAt(n, archive[s].obscured))]

\* projectTrail: this round's entries only.
ReadNow(s) == {e \in archive[s].trail : e.round = round}

\* projectNodes: what a view says of a node; edges from Known on.
NodeView(s, n) ==
  [listed |-> fog[s][n] >= Rumoured,
   edges  |-> IF fog[s][n] >= Known THEN Neighbours(n) ELSE {},
   market |-> fog[s][n] >= InSight /\ TypeOf[n] = "market"]

\* writeAnchors: places told to everyone, with the name where the tier gives it.
Anchors ==
  {<<"loitering", where[s], {}>> : s \in {t \in Seats : streak[t] >= 3}}
  \cup {<<"crate", where[s], {}>> : s \in {t \in loose : heat[t] >= 2}}
  \cup {<<"feared", where[s], {s}>> : s \in {t \in Seats : InfamyOf[t] >= FearedFrom}}
  \cup {<<"legend", where[s], {s}>> : s \in {t \in Seats : InfamyOf[t] >= LegendFrom}}

-------------------------------------------------------------------------------
(* Correctness.                                                              *)

\* The Heat Map never takes erased or displaced traces for quiet: of the rounds
\* a node is counted as observed, those counted as traffic are exactly those in
\* which the trail logged something there, and a round is obscured only where
\* something was lost (trail.go, distributeTrail; fog.go, deriveNodeStats).
HeatMapIsTrue ==
  phase = "closed" =>
    \A s \in Seats :
      /\ archive[s].obscured \cap archive[s].sight = {}
      /\ archive[s].obscured \subseteq logged
      /\ \A n \in Nodes :
           NodeStats(s, n).traffic = Cardinality(RoundsAt(n, archive[s].sight \cap logged))

\* A seat can always plan its next step: it Knows the node it stands on and its
\* edges, however it was brought there (movement.go, markNodeKnown).
StandsOnKnownGround ==
  phase = "closed" => \A s \in Seats : NodeView(s, where[s]).edges = Neighbours(where[s])

\* A view shows market stock, and reads this round's trail, only where the seat
\* had sight this very round (fog.go, projectNodes and projectTrail).
ShowsOnlyWhatIsInSight ==
  phase = "closed" /\ round > 0 =>
    \A s \in Seats :
      LET seen == {n \in Nodes : <<n, round>> \in archive[s].sight \cup archive[s].obscured}
      IN /\ \A n \in Nodes : NodeView(s, n).market => n \in seen
         /\ \A e \in ReadNow(s) : e.node \in seen

\* view.go, of ContractInHand.Destination: "Rumoured the moment this contract
\* was accepted".
DestinationIsRumoured ==
  \A s \in Seats : dest[s] # NoNode => NodeView(s, dest[s]).listed

\* GDD 9.1, of the third round of Loitering: "a global announcement naming the
\* node", the one the trace of the second names: where Loitering was judged.
AnnouncedWhereItLoitered ==
  phase = "closed" =>
    \A a \in Anchors : a[1] = "loitering" =>
      \E s \in Seats : streak[s] >= 3 /\ lastEnd[s] = a[2]
===============================================================================
