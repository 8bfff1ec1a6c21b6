--------------------------------- MODULE MCTable --------------------------------
(***************************************************************************)
(* The small city of MCCity; a line of nodes that two seats watch; and a     *)
(* town where one bot plays.                                                 *)
(***************************************************************************)
EXTENDS MCCity, Table, Functions

-------------------------------------------------------------------------------
(* For Sight: five nodes in a line, in two sectors.  Seat 0 is famous and    *)
(* holds a post, seat 1 is nobody; each round has one of a few pairs of      *)
(* cards.                                                                    *)

Line      == {{1, 2}, {2, 3}, {3, 4}, {4, 5}}
LineTypes == <<"alley", "market", "warehouse", "alley", "border">>
LineSectors == <<1, 1, 2, 2, 2>>

Sky(event, fair, incident, sector) ==
  [event |-> event, fair |-> fair, incident |-> incident, sector |-> sector]
TwoSkies == <<{Sky("blackout", 0, "snatch", 1), Sky("rain", 0, "informant", 1)},
              {Sky("none", 0, "riot", 1), Sky("rain", 0, "flood", 2),
               Sky("festival", 2, "turf", 2)}>>

Deed(act, item, at) == [act |-> act, item |-> item, at |-> at]
TwoDeeds == 0 :> {Deed("take", "none", 0), Deed("vanish", "decoy", 2), Deed("deliver", "band", 3)}
            @@ 1 :> {Deed("take", "none", 0), Deed("buy", "permit", 0), Deed("surveil", "none", 0)}

TwoHomes  == 0 :> 1 @@ 1 :> 2
OnePost   == 0 :> {4} @@ 1 :> {}
OneFamous == 0 :> 6 @@ 1 :> 0

ASSUME SightAssumption == W!Setting

-------------------------------------------------------------------------------
(* For Bots: six nodes in two sectors: home (1), a Warehouse (2) and a Black *)
(* Market (3) around it, and beyond the market an alley (4) that leads to    *)
(* two Borders.                                                              *)

Town      == {{1, 2}, {1, 3}, {3, 4}, {4, 5}, {4, 6}}
TownTypes == <<"alley", "warehouse", "market", "alley", "border", "border">>
TownSectors == <<1, 1, 1, 2, 2, 2>>
TownX     == <<2, 1, 3, 4, 5, 4>>
TownY     == <<2, 2, 2, 2, 2, 3>>
TownRates == <<0, 0, 1, 2, 0, 0>>
Stalls    == <<{}, {}, {"shiv", "boltHole"}, {}, {}, {}>>

Offer(to, t) == [origin |-> 2, dest |-> to, tier |-> t]
Contract(id, to, exp) == [id |-> id, origin |-> 2, dest |-> to, tier |-> 0, expires |-> exp,
                         paused |-> 0]

\* Fog: 0 Hidden, 2 Known, 3 In Sight.
Opening == [pos |-> 1, fog |-> <<3, 3, 3, 0, 0, 0>>, cargo |-> -2, contracts |-> {},
            offer |-> <<Offer(5, 0), Offer(6, 1)>>, balance |-> 10, infamy |-> 0,
            held |-> {}, posts |-> <<0, 0, 0, 0, 0, 0>>, items |-> <<>>]
Mapped == <<3, 3, 3, 2, 2, 2>>
Openings ==
  {Opening,
   [Opening EXCEPT !.items = <<"decoy", "boltHole">>, !.cargo = -1,
                   !.held = {2}, !.posts[2] = 1, !.balance = 7],
   [Opening EXCEPT !.fog = Mapped, !.cargo = 1, !.offer = <<>>,
                   !.contracts = {Contract(1, 6, 3), Contract(0, 5, 2)}, !.infamy = 9,
                   !.held = {1, 3}, !.posts[3] = 2, !.posts[1] = 2, !.balance = 10],
   [Opening EXCEPT !.fog = Mapped, !.offer = <<>>, !.balance = 15, !.infamy = 3]}

Weather(steps, strike, headline, penalty, threat, jump, far) ==
  [steps |-> steps, strike |-> strike, headline |-> headline, penalty |-> penalty,
   threat |-> threat, jump |-> jump, far |-> far]
MCWeathers == {Weather(2, FALSE, 0, 0, FALSE, FALSE, TRUE),
               Weather(1, TRUE, 2, 3, FALSE, TRUE, TRUE),
               Weather(2, FALSE, 1, 1, TRUE, TRUE, FALSE)}

Pay      == 0 :> 8 @@ 1 :> 14
Deadline == 0 :> 2 @@ 1 :> 3
Penalty  == 0 :> 3 @@ 1 :> 5
Gain     == 0 :> 1 @@ 1 :> 1
Loss     == 0 :> 0 @@ 1 :> 2
WonCrates == {-2, -1}   \* none, or a loose crate
OneFire  == [r \in 0 .. BotRounds - 1 |-> IF r = 1 THEN {0, 1} ELSE {0}]
Brawls   == <<0, 2, 0, 0>>
MCMostFights == [r \in 0 .. BotRounds - 1 |-> Brawls[r + 1]]
TwoOffers == {<<>>, <<Offer(5, 0), Offer(6, 1)>>}

ASSUME BotAssumption == B!Setting /\ B!Lasts /\ B!Pays

-------------------------------------------------------------------------------
(* Bounds on the start: the city's trouble starts in sector 2, where two     *)
(* Borders are, and around the market when the Fence is about.  Where a part *)
(* is not the one that runs, it has one start.                               *)

MCInit ==
  /\ TableInit
  /\ unstable = IF "windfall" \in Range(eventDeck) THEN 1 ELSE 2
  /\ look # "city" => <<eventDeck, incidentDeck>> =
                        <<<<"curfew", "blackout">>, <<"flood", "spill">>>>
  /\ look # "bot" => <<tier, blockRounds, me, weather>> =
                       <<"runner", 1, Opening, Weather(2, FALSE, 0, 0, FALSE, FALSE, TRUE)>>

MCSpec == MCInit /\ [][TableNext]_tableVars
===============================================================================
