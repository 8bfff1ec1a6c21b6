---------------------------------- MODULE Table ---------------------------------
(***************************************************************************)
(* Three looks at a table, side by side.  A behaviour plays the rounds of a  *)
(* small city (City), or follows what the seats see (Sight), or one bot      *)
(* (Bots): the three share no state, and each is constant while another      *)
(* runs.  Bots comes with its theorems, so that they may be cited here.      *)
(***************************************************************************)
EXTENDS City

CONSTANTS                          \* of Sight
  WatchNodes, WatchTypeOf, WatchSectorOf, WatchPaths, WatchHomes, WatchRounds,
  PostsOf, InfamyOf, CargoNameFrom, ItemNameFrom, FearedFrom, LegendFrom,
  Skies, Eager, Deeds, MaxSteps

CONSTANTS                          \* of Bots
  BotNodes, BotTypeOf, BotSectorOf, BotPaths, BotRounds,
  PostCap, LedgerCost, LeaseCost, HandLimit, MaxBlocks, MostStake, Suppressed,
  MarketOf, XOf, YOf, RateOf, ShakedownCost, ItemPrice, GateFee, ComfortBand,
  PayOf, DeadlineOf, PenaltyOf, GainOf, LossOf, LoosePay, MaxInfamy,
  DriftRounds, BlockRounds, Starts, Weathers, BotOffers,
  LongestPlan, MostFights, Takings, Crates, Fires

VARIABLES
  look,
  sround, sphase, sky, dark, stodo, swhere, lastEnd, streak, heat, loose, dest, turn,
  informant, fog, archive, logged,
  tier, blockRounds, bround, bphase, me, stock, weather, order, walk, fights,
  purse, shaken, struck, lapsed, inDebt

W == INSTANCE Sight WITH
  Nodes <- WatchNodes, TypeOf <- WatchTypeOf, SectorOf <- WatchSectorOf,
  Paths <- WatchPaths, Homes <- WatchHomes, Rounds <- WatchRounds,
  round <- sround, phase <- sphase, todo <- stodo, where <- swhere

B == INSTANCE BotsProofs WITH
  Nodes <- BotNodes, TypeOf <- BotTypeOf, SectorOf <- BotSectorOf,
  Paths <- BotPaths, Rounds <- BotRounds, Offers <- BotOffers, round <- bround, phase <- bphase

sightVars == <<sround, sphase, sky, dark, stodo, swhere, lastEnd, streak, heat, loose,
               dest, turn, informant, fog, archive, logged>>
botVars   == <<tier, blockRounds, bround, bphase, me, stock, weather, order, walk, fights,
               purse, shaken, struck, lapsed, inDebt>>
tableVars == <<look, vars, sightVars, botVars>>

-------------------------------------------------------------------------------
(* One of the three moves.                                                   *)

TableInit ==
  /\ look \in {"city", "sight", "bot"}
  /\ Init /\ W!Init /\ B!Init

TableNext ==
  \/ look = "city" /\ Next /\ UNCHANGED <<look, sightVars, botVars>>
  \/ look = "sight" /\ W!Next /\ UNCHANGED <<look, vars, botVars>>
  \/ look = "bot" /\ B!Next /\ UNCHANGED <<look, vars, sightVars>>

TableSpec == TableInit /\ [][TableNext]_tableVars

-------------------------------------------------------------------------------
(* Properties of Sight and Bots, each as its module states it.               *)

\* Heat map and trail say where things happened; a seat stands on Known ground;
\* a view shows what happens only where its owner could see it.
HeatMapIsTrue        == W!HeatMapIsTrue
StandsOnKnownGround  == W!StandsOnKnownGround
ShowsOnlyWhatIsInSight == W!ShowsOnlyWhatIsInSight

\* A bot plays legal orders only, goes straight for what it can reach, keeps its
\* reserve, and lets no lease lapse that it could have renewed.
DecidesLegally    == B!DecidesLegally
GoesStraight      == B!GoesStraight
AddOnsAreCovered  == B!AddOnsAreCovered
RenewsInTime      == B!RenewsInTime

\* What comments of runner.go and legal.go say of a Runner that cannot reach its
\* objective, of a fresh post, and of a crate delivered at a node that was Hidden.
BotNeverRefusesToMove == look = "bot" => B!NeverRefusesToMove
BotPostsReachDecide   == B!PostsReachDecide
BotDeliversAtBorders  == B!DeliversAtBorders
===============================================================================
