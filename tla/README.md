# cinzal: TLA+ models and proofs

cinzal is a turn-based game of smuggling played by two to six seats. Every
round each seat submits one order without seeing the others', and the round is
resolved all at once by a deterministic function, `rules.Resolve`. A match is
an append-only log of orders in PostgreSQL; everything else in the database is
derived from it by folding `Resolve` over the log. Around the game are its
bots, the program that plays matches between them for balance work, and the
services of a deployed server: migrations, matches, rate limits, metrics.

This directory models the parts of that program where a sequence of legal steps,
or an interleaving of processes, could leave it in a state no test looks for.

## 1. Inventory

### 1.1 The components, their state and their operations

| component (code) | state it keeps | operations | what makes it correct | modules |
|---|---|---|---|---|
| `internal/rules`: posts, leases, money, Infamy (`posts`, `debt`, `selection`, `addons`, `upkeep`, `infamy`) | `Node.Post`, `Player.Posts`, `Balance`, `Infamy`, `Flagged` | Stake Post, renewal, every charge (`applyDebt`), Torched, `upkeepLeases` | the two records of a lease agree; a lease ends by lapsing or by Debt, and Debt takes the weakest; the cap; the flag | `Leases` |
| contracts and cargo (`contracts`, `cargo`, `deliveries`) | `PendingOffer`, `LastOfferRound`, `Contracts`, `Player.Cargo`, `Graph.Cargo` | offer, accept, decline, pick up, deliver, pause, expire | an ID names one contract; a crate and its contract stay together; deadlines | `Contracts` |
| confrontations and movement (`confront`, `movement`) | positions, paths, halted orders | simultaneous steps, crossings, collisions, melees, pushback | everyone ends on a node it Knows; orders still fit the walk after any halt | `Movement` |
| the pipeline (`resolve`, `actions`, `steps`, `ordering`) | the phase of the round | `Resolve` calls its phases in a fixed order, seats in fairness or seat order | every seat is served once in every phase; phases in the order the rules count on | `Leases`, `City` |
| events and incidents (`events`, `incidents`, `cards`, `borders`) | decks, next-round modifiers, the map | one global card and one sector incident a round | a modifier holds for one round; some Border is always open; a Windfall pays once | `City`, `Borders` |
| legality (`legal`, `validate`, `affordance`) | none | `Legal` at submission, `validate` and `checkActionDegradation` at resolution | an order is judged by what its seat was shown | `Legality`, `City` |
| fog, view, trail (`fog`, `trail`, `anchors`) | each seat's fog and archive | trail writing and handing out, `Project` | a view never shows what the seat cannot know, nor takes an erased trace for quiet | `Sight` |
| setup, maps, randomness (`initial`, `gen`, `rng*`) | none | the seeded generator, one ChaCha8 stream per purpose | a map is connected and fair; a shuffle is a permutation | `City` (initial values) |
| scoring, market, items | none | pure functions | agree with the rules' tables | - |
| `internal/bots` | none | `Decide`: view in, order out, three tiers | orders `Legal` accepts; a kept reserve; leases renewed in time | `Bots` |
| `internal/store`: order log and projections | `orders`, `events`, `match_summary`, `match_players.last_seen_round` | `AppendOrder`, `WriteEvents`, `UpsertSummary`, `RebuildProjections`, `RebuildLastSeenRounds` | projections are a function of the log; never half rebuilt | `Rebuild` |
| `internal/match/fold`, `cmd/replay --rebuild` | the rows it listed, its transactions | load, list, decode, fold, rewrite | a reported success is a full repair; it always ends | `Rebuild` |
| `internal/store`: matches | `matches`, `match_players` | `CreateMatch`, `LoadMatch`, the strict codec | a match loads as asked or not at all | `Matches` |
| `internal/store`: rate limiter | `rate_limits` | consume, clean up | a bucket never pays more than capacity and refill | `RateLimit`, `Limiter` |
| `internal/store`: migrations; `cmd/migrate` | the schema, an advisory lock | migrate at boot | each migration once, in order; success means all of them | `Boot` |
| `internal/opsmetrics` | counters, a reservoir, a sampler goroutine | observe, sample, snapshot | a snapshot after the work misses nothing | `Pool` |
| `cmd/simulate` | two CSV files, a pool of workers | sweep, resume; `RunMany` | no configuration skipped or forgotten; answers depend on the seeds only | `Sweep`, `Pool` |
| `telemetry`, `cmd/replay` bundles, `scripts` | none | reports and checks | - | - |
| `cmd/server`, `internal/web`, `auth`, `mail`, `render`, `debug` | - | package comments, no code yet | - | - |

### 1.2 How they interact

`Resolve` is single-threaded: its phases call each other and share one
`MatchState`. What is hard there is not threads but *sequences*: nine phases
write the same few fields, several of them through `applyDebt`, and what one
phase validated another may have changed. A view is made as a round closes and
an order written from it is judged when the next one opens, by another function
reading other fields.

The store is where processes really run at once: a submission handler and a
tick (not written yet, but their store calls are), any number of `cmd/replay`
processes, instances of one deploy that all boot and migrate, request handlers
in transactions that wait for each other's rows, and PostgreSQL's own locking
between them; each may die between two statements. `cmd/simulate` runs matches
on several goroutines that meet in one `FoldStats`, beside a sampler goroutine.

### 1.3 Hazards

`PROJECT.json` lists every hazard with its line and the properties that would
catch it going wrong. The heaviest: the double record of a lease; a contract ID
that is unique per seat on a crate that changes hands; the order of upkeep's
two steps; a seat that fights twice in one step, the second time from what the
first left of its position, path and order; modifiers that are set, read and
cleared in three phases of two rounds; traces that four cards rewrite before
they are handed out; a rebuild that reads in one transaction and writes in two
others while the match goes on; an upsert that reads the clock before it waits
for its row; a sweep that is killed in the middle of a line.

## 2. Modules

| module | uses | what it is |
|---|---|---|
| `Leases` | | posts, leases, money, Infamy and flags through one `Resolve` after another |
| `Contracts` | | offers, contracts and crates through the rounds of a match |
| `Movement` | | the simultaneous steps of a round and the fights they lead to |
| `Borders` | | which Borders take deliveries, as operators |
| `City` | `Borders` | the decks, the cards that outlive their round, the promise a view makes |
| `Sight` | | fog, trail, archive and view |
| `Legality` | | `Legal` and the affordances of a view, as operators |
| `Bots` | `Legality` | a seat played by one of the three tiers, round after round |
| `Rebuild` | | order log, derived tables, the match that writes them, the processes that rebuild them |
| `Limiter` | | the abstract rate limiter: payments and answers, no table |
| `RateLimit` | `Limiter` | the table, its transactions, the sweep, the keys; implements `Limiter` |
| `Boot` | | instances that migrate a database as they start |
| `Matches` | | creators and loaders of matches |
| `Sweep` | | `cmd/simulate`'s two files over killed and resumed runs |
| `Pool` | | `RunMany`'s goroutines, `FoldStats` and the churn sampler |
| `Services` | `Boot`, `Matches`, `Sweep`, `Pool` | the four side by side, with their fairness and their properties |
| `Table` | `City`, `Sight`, `Bots` (through `BotsProofs`) | the three side by side, and their properties |
| `LeasesProofs`, `ContractsProofs`, `MovementProofs`, `RebuildProofs`, `ServicesProofs`, `RateLimitProofs`, `BotsProofs` | their module | theorems (section 4) |
| `TableProofs` | `Table` | the theorems of `City` and `Sight`, and those of `BotsProofs` for the bot of the table |
| `MC...` | theirs | instances |

`Table` and `Services` put parts that share no state side by side: a
behaviour picks one part and plays it alone, so each part is explored exactly as
it would be by itself, and one run answers for all of them.

### 2.1 Leases

State: `post` is `Graph.Nodes[n].Post`, `posts` is `Player.Posts`; `balance`,
`infamy` and `flagged` are the fields of `Player`; `entry` is the
`EntrySnapshot` balance that `Legal` judged orders by, less what the order has
been seen to declare. `phase` and `queue` are `Resolve`'s control: which phase
runs and which seats it has still to serve. `indebted`, `eve` and `dues` are
history, read by properties only.

| action | code |
|---|---|
| `OpenRound` | top of `Resolve`: snapshot, `resetRoundFlags`, peek at the card |
| `Movement` | the money and Infamy of `resolveDecisive`/`resolveLoser` and `scavenge` |
| `StakePost`, `OtherAction` | `resolveStakePost`; `resolveDeal`, Vanish |
| `Deliver` | `resolveOneDelivery` |
| `AddOns` | `resolveLedger` then `resolveRenewal` |
| `ShiftChange` ... `Payroll` | the global cards of that name |
| `Torched`, `StartLevy`/`Levy`, `QuietIncident` | `resolveTorched`; Snatch Job, Guard Sweep, Shakedown; the rest |
| `Pressure` | `pressure` |
| `ExpireContract`, `ContractsDone` | `upkeepContracts`, `expireContract` |
| `UpkeepLeases` | `upkeepLeases`, and the clear of the round's card |

Left open: which seats fight (at most one fight a round, a bound), what a
delivery pays, the last two keys of the fairness order, and the RP that picks
New Boss's seat. An order is chosen when it is first used, against the entry
snapshot, which gives the behaviours of choosing it when the round opens.

### 2.2 Contracts

State: `offer`, `lastOffer`, `contracts`, `cargo` are the fields of `Player`,
`ground` is `Graph.Cargo`, `plan` each seat's validated action. A crate's
`pair` and `stolen`, a fallen crate's `was` and a contract's `taken` are
history. Positions are left open: an order that ends on a node may reach it, and
a card may catch any set of carriers anywhere; every behaviour of the code is
among those of the model. Tiers and the candidate search are left open likewise
(`Offered` allows any three distinct pairs, or none). `Fight` is a
confrontation of one winner and any number of losers, protected or not,
corrected or not; `Tie`, `Windfall`, `DropCargo`, `DestroyCargo`, `LooseCrate`
are the other ways cargo moves.

### 2.3 Movement

State: `position` and `known` are `Player.Position` and the Known part of
`Player.Fog`; `order` is what `Resolve` keeps in `validated` (route, blind steps,
whether an action is left, stance), which halts rewrite while the loop runs;
`walk` is `seatWalk`; `pending` holds the confrontations of the current step.
`weather` is what the board suffers this round: the sector of a Gas Leak, and
the nodes with `SinkholeRounds`. `held`, `fate`, `twice`, `fled` and `goal` are
history.

| action | code |
|---|---|
| `Validate` | one seat's order passing `legalRoute` and `legalPushingOn` |
| `StartMoving` | `newSeatWalks` |
| `Advance` | one `advance` of every seat, then `detectCrossings`, `detectCollisions`, `mergeConfrontations` |
| `Fight` | `resolveOneConfrontation` of the next node: `Tie` is `resolveTie`; `Decisive` is `resolveDecisive` with a `resolveLoser` and a `pushback` for each loser, after `correctCrossingPositions` |
| `EndMovement` | the loop's condition, read again after every step |

Left open: the totals of a fight (any seat may win, or the top may tie), the bias
of a blind step, which only narrows its choice, and which Scavenging rolls are a
6. The nodes a seat must know to declare a route are put in `known` when it
declares it; what else it knows makes no difference to a property.

### 2.4 City

State: `eventDeck`, `incidentDeck` and `unstable`; `next` is
`MatchState.NextRound` and `entryNext` the copy `Resolve` takes of it; `where`,
`cargo` and `flags` of each seat (`flags` are the booleans that change its step
count); `edges`, `sunk`, `windfall`, `crates` are the map under the cards;
`blocked` the round's closed Borders. `shown` (what the last view promised) and
`claims` are history; `granted` is what `validate` judges the order by.

| action | code |
|---|---|
| `OpenRound` | `Resolve` up to the loop: snapshot, reset of the flags, `legalView` and `validate`, `blockedBordersThisRound` with Dragnet's draw |
| `Walk`, `Act` | the movement loop, `resolveActions`, as far as a seat was allowed |
| `Claim`, `Deliver` | `resolveFenceWindfallClaim`, `resolveDeliveries` |
| `GlobalEvent` | `globalEvent`: a disjunct for each card that lasts or changes the map |
| `Incident` | `incident` likewise; `NextSector` is the telegraph of the next |
| `Upkeep` | `upkeepSinkholes`, `upkeepNextRoundModifiers`, then `projectSelf`'s promise |

`OpenRound` asks a route of any length (`Longest`) of each seat and judges it as
`validate` does: `truncateForCurfew` compares it with the allowance under Curfew and
with that without, and `verdict` says whether the order is legal, cut or rejected.

Left open: where a seat ends (anywhere its route may lead), which fights set
flags, whether a seat acts. Infamy's tier is the same in both computations and
constant.

### 2.5 Sight

State: `fog` is `Player.Fog`, `archive` the `SeatArchive` (node-rounds in sight,
obscured, and the stamped trail), `streak`, `heat`, `lastEnd` the Loitering and
crate counters, `turn` a seat's `seatWalk.Path` and deed, `dark` last round's
Blackout. `logged` is history: the node-rounds something really happened at.

| action | code |
|---|---|
| `OpenRound` | the round's cards; a contract may be accepted |
| `Play` | one seat's movement and action; `markNodeKnown` |
| `WriteTrail` | `writeTrail` whole: entries, suppression, Loitering and crate Heat, Riot's permutation, Rain, who sees what, `distributeTrail`, the re-fogging |
| `Incident` | the incidents that move a seat or lend it sight |

The views are operators over that state: `NodeView` (`projectNodes`),
`NodeStats` (`deriveNodeStats`), `ReadNow` (`projectTrail`), `Anchors`
(`writeAnchors`).

### 2.6 Legality and Bots

`Legality` has `Legal` as a conjunction of its checks over a view and an order
and the affordances computed for a client. `Bots` follows one seat through
`Decide`, the whole decision of a tier, and through the round that resolves it.

State: `me` is the seat's `Player` with its fog and the rounds its posts have
left; `order` what `Resolve` keeps of the bot's order in `validated`, which
fights rewrite; `walk` its `seatWalk` and the nodes of the step at which it may
still be met; `stock` the market's. `weather` is what the bot cannot influence:
its allowance, a Strike, the headline and its penalty, a threat next to it, a
jump on the board, and whether it is far from others. `purse`, `shaken`, `struck`,
`lapsed` and `inDebt` are history.

| action | code |
|---|---|
| `Decide` | a tier's `Decide`. A Drifter's draws are the existential choice among its candidates, so an order is any it may draw; the Runner's and the Operator's orders are computed |
| `Begin` | the top of `Resolve`: `applyContractChoices`, `newSeatWalks` |
| `Advance` | one `advance` with its `scavenge`; the loop may go on for others when the seat's own plan is over |
| `Loses`, `Ties`, `Wins` | `resolveOneConfrontation` as it ends for this seat: the correction of a crossing, the stake, the shakedown, the crate, the Deadline Pause, Infamy, pushback, `haltOrConvertMovement`, Muscle; what a winner takes |
| `Close` | from `resolveActions` to `prepareNextRound`: discards and deed (`Acted`), delivery (`Delivered`), Ledger, renewal, `updateSeatFog`, Torched, `upkeepContracts`, `upkeepLeases`, the next offer |

The others at the table are choices: who is met and who wins, what a winner finds
on the losers, a rival's post where a stake was to go. A seat may be met where a
step began and where it ended, once at each, as `mergeConfrontations` has it; it
may so be shaken down several times in a round.

### 2.7 Rebuild

State: the four tables of one match (`orders`, `events`, `summary`, `cursor`),
the match's `status` and `round`, and for each rebuild process its program
counter, the rows it listed and the rows its open transaction has deleted and
inserted. One action per SQL statement. A projection is told apart by what it
is a function of: the events of a round are the drafts of all rounds up to it.

PostgreSQL is external and modelled as READ COMMITTED: a statement sees what is
committed when it starts, waits for the uncommitted writer of a row it needs,
and finds the row gone if that writer deleted it; a plain INSERT of a committed
row fails its transaction; a cycle of waits is broken by failing one of its
members. The tick and the submit handler are external too and only as long as
the store calls they are to make.

### 2.8 RateLimit and Limiter

`RateLimit`: `rows` is the table, `holder` the row locks, and each caller has its
request, its place, the time its statement started (`since`) and its verdict. `Begin`,
`Send`, `Answer`, `Commit`, `Abort` are a transaction of one or two upserts;
`SweepStart`, `SweepRow`, `SweepEnd`, `SweepFail` are `CleanupRateLimits`. An
upsert reads the clock of its VALUES before it waits for the row and the clock
of SET when it has it, as PostgreSQL evaluates `clock_timestamp()`. Keys are
computed from a request's scopes, `X-Forwarded-For`, and remote address by
`DeriveIPKey`.

`Limiter` knows none of that: `paid[b][t]` counts what bucket `b` paid with date
`t`. `Pay` is allowed when in no stretch of time the bucket would have paid more
than its capacity and the refill of the stretch, `Refuse` only when one more
payment would break that. Its buckets are the *customers'* accounts, so the
refinement also says that two notations of one address, or two hosts of one IPv6
network, share a bucket, and two customers do not.

### 2.9 Boot, Matches, Sweep, Pool

* `Boot`: one action per statement of `cmd/migrate` and `store.Migrate` for each
  instance (parse, count, lock, list, apply one migration, unlock, close,
  count, exit). `Crash` may strike anywhere; the session of the dead lingers and
  may even be granted the lock it waited for (`GrantedToDead`) until the server
  reaps it. goose and PostgreSQL are external.
* `Matches`: one action per statement of a creator's transaction; `LoadMatch` is
  two reads of separate snapshots. Any statement may fail, and the answer of a
  commit may be lost.
* `Sweep`: a line of a CSV file is the row it holds and how much of it reached the
  disk: all of it, too little, all but its end, or two rows run together. `Start`, `ResumeReport`, `CreateReport`, `OpenBreakdown`, `Skip`,
  `WriteRow`, `WriteBreakdown`, `Finish` are the run; `Kill` ends it anywhere.
* `Pool`: one action per lock, channel or atomic operation of the feeder, the
  workers, the main goroutine and the sampler.

## 3. Runs

All TLC runs are exhaustive on their instance.

| run | instance | checks | states |
|---|---|---|---|
| `leases` | 2 seats, 3 nodes in 2 sectors, 2 rounds, no global card | `PostsAgree` `UpkeepSparesHealthyLeases` `FlagMatchesDebt` `LeaseLostOnlyToDebt` | 4.7 M |
| `leases_cards` | 2 nodes, cap 1, one round under any of 7 cards, or two under none | `CapRespected` | 1.7 M |
| `contracts` | 3 seats, 2 Warehouses and a Border, 2 rounds, 2 fights a round | `ContractsInOrder` `FightsKeepCargo` | 1.4 M |
| `contracts_long` | 2 seats, 5 rounds, deadline 2, a loose crate in round 2 | `IDsNameOneContract` `ContractsInOrder` | 3.1 M |
| `movement` | 3 seats on 4 nodes from every placement, up to 3 steps each, with and without gas and a Sinkhole | `PathEndsHere` `StandsOnKnown` `OrdersFitWalks` `ClockKept` `ThrownOutAsRuled` | 1.3 M |
| `rebuild` | a match of 2 rounds, 2 seats, one may redraft, 2 rebuilds | `CursorNeverAhead` `SettledCommitIsExact` | 1.3 M |
| `rebuild_repair` | a damaged finished match of 3 rounds, a bot, a quiet round, 2 rebuilds, fairness | `SuccessIsExact` `NeverHalfRebuilt` `EveryRebuildEnds` | 0.09 M |
| `ratelimit` | 2 callers with 6 kinds of request of 2 customers, a sweep, 4 units of time | `KeepsItsPromise`, that is `Limiter`'s `Spec` | 0.16 M |
| `services` | 3 instances and 2 deaths; 2 creators, 1 loader, 4 configurations; 4 sweeps of 4 points with 3 faults; 3 seeds on 2 workers; fairness | `AppliedInOrder` `MigratedInFull`; `MatchesAsCreated`; `SweptInFull` `BreakdownWithinOut`; `SnapshotIsExact` `AnswersBySeed`; `EveryRunEnds` | 0.55 M |
| `table` | a city of 5 nodes, 2 seats, 3 rounds, decks of 2 from 6 and 5 pools; sight of 2 seats on a line of 5, 2 rounds; a bot of each tier on 6 nodes, 4 rounds, two fights in the second | `ShownIsGranted` `ModifiersServeOneRound` `SomeBorderOpen` `WindfallPaidOnce`; `HeatMapIsTrue` `StandsOnKnownGround` `ShowsOnlyWhatIsInSight`; `DecidesLegally` `GoesStraight` `AddOnsAreCovered` `RenewsInTime` | 3.1 M |

A property whose name joins several is their conjunction: `ContractsInOrder` is
`HonestCargoHasItsContract` (a crate that was never stolen is carried by a seat
that holds its contract, for the pair it was bound to), `PausedOnceAtMost` and `NoneOverdue`;
`OrdersFitWalks` is `RoutesFit`, `ActsWhereDeclared` and `SharedOnlyByFallback`;
`ThrownOutAsRuled` is `FallsBackAsRuled` and `NoWayBackIn`. Each module also has
its type invariant where a proof needs one.

### 3.1 Where the code and the repository's words part

Two runs show such a disagreement, and TLC finds a behaviour for each.

| run | what the repository says | what happens |
|---|---|---|
| `contracts_stolen` | GDD 15: a winner without a matching contract "cannot deliver" the crate | `resolveOneDelivery` finds *a* contract by the crate's ID, which is unique only to the seat it was taken from; the thief is paid for an unrelated contract and that contract closes |
| `movement_ties` | `resolveTie`'s comment: everyone "reverts to the node they held before this step (seatWalk.Previous)" | a seat that fell back from one fight of the step and ties the next goes to the node of the first: `Previous` has been pointed there. The path is cut to match, so nothing else breaks |

The following configurations are kept beside them, each with a counterexample
that `tlc -config <cfg> <module>` finds, in seconds but for `TableDeliver.cfg`,
which takes minutes:

| cfg, module | what the repository says | what happens |
|---|---|---|
| `ContractsDropped.cfg`, `MCContracts` | GDD 15 (line 1280): a fallen crate is "still bound to its original origin/destination pair" | `dropForfeitCargo` (`confront.go:411`) looks the pair up by ID among the carrier's own contracts: a stolen crate falls with the thief's pair, or with none |
| `MovementSinkhole.cfg`, `MCMovement` | GDD 14.3 (line 1156): a Sinkhole is "impassable", which `resolveSinkhole`'s comment leaves to `advance` | only blind steps and random hops look at `SinkholeRounds`; a declared route walks over it (`movement.go:124`) |
| `TableRefuse.cfg`, `MCTable` | `chooseRoute`'s comment (`runner.go:214`): `exploreRoute` "pushes into unmapped territory ... rather than refusing to move" | for an objective that is still Hidden the view has the zero `NodeView`, whose place is (0, 0) (`runner.go:308`): a Runner that already stands nearest the origin stays there |
| `TableTorched.cfg`, `MCTable` | `runner.go:471`: a post "always reaches the next Decide with at least one round remaining" | Torched takes three rounds before the upkeep of the same round (`incidents.go:358`): a post staked in the sector it strikes is gone before anyone decides again |
| `TableDeliver.cfg`, `MCTable` | `legal.go:317`: what a Hidden ending node is cannot be checked, which is "deferred to Resolve" | nothing there looks at it: `checkActionDegradation` (`validate.go:255`) asks for closed Borders only and `resolveOneDelivery` not at all. A Deliver ordered into the dark pays at any node: a Drifter that carries a loose crate sells it in an alley |
| `ServicesOpen.cfg`, `MCServices` | `run.go:302`: a configuration in the breakdown and not in the sweep "must not be reachable" | a full disk may cut off the newline of the header alone: a resumed run takes the header for whole, puts its first row on the same line, and then writes that row's breakdown |
| `SightDisplaced.cfg`, `MCSight` | GDD 9.1: the third round of Loitering is announced "naming the node" | the announcement is made from the position after the round's incident (`fog.go:234`), which a Snatch Job has changed |
| `SightRumoured.cfg`, `MCSight` | `view.go:189`: a contract's destination is "Rumoured the moment this contract was accepted" | nothing in the program sets `FogRumoured`: accepting an offer leaves the seat's fog alone |

Because of the first two of the contracts, `HonestCargoHasItsContract` speaks of
crates that were not stolen: for them the pairing of crate and contract is never
broken. `FallsBackAsRuled` leaves out a seat that has fought twice in one step
because of `movement_ties`. That also covers a second case with the same cause: a
seat thrown back from a crossing may still be listed in a later fight of that
step, and `correctCrossingPositions` then brings it to that fight's node from
wherever it is. `RoutesFit`, `PathEndsHere` and `StandsOnKnown` hold of such seats
too. `AddOnsAreCovered` leaves out an Operator that deals at a market, whose price
is not part of the reserve it keeps, and a round of two shakedowns. One is what the
reserve is for (`runner.go:10`), but an Evasive carrier that is pushed back may be
caught again by a later step (`confront.go:432`) and pays each time: with 7 in
the purse, a lease at 3 and a shakedown at 4, the second leaves the renewal
nothing, and it runs into Debt. Without `shaken <= 1` TLC finds that round.
`RenewsInTime` leaves out posts that Torched struck, for which no bot can provide.

Met on the way, with no configuration of their own:

* neither `Legal` nor `resolveStakePost` refuses a Stake Post of 0 blocks
  (`actions.go:192`), though `game/order.go:124` says that "0 is never a real
  value". It costs nothing, pays a first post's Infamy and opens a lease that
  upkeep ends in the same round; `Leases!LegalBlocks` includes it.
* A Ledger asked for in the last round is legal by `legal.go:414` and refused in
  silence by `addons.go:35`. The bots compare `view.Round`, which is the round
  last *closed* (`fog.go:28`), with `cfg.Rounds` (`operator.go:578`,
  `legalspace.go:383`), and so ask for it.
* `operator.go:222` says that between two rounds a goal's "own distance only
  shrinks"; under a sector's penalty it may grow.
* A Sinkhole of "3 rounds" (GDD 14.3) is shut for two rounds of movement: upkeep
  takes the first of the three in the round it falls.
* A crate dropped by this round's incident still counts for its carrier's crate
  Heat of the round, and Riot's telling event names only entries with an actor.
* `cmd/migrate` comments that a hostless DSN "would have already failed";
  `countAppliedMigrations` dials before anything has asked for a host.
* A row that a full disk cut after its last comma has all its fields: a resumed
  sweep takes it for done, its next row lands on the same line, and the sweep may
  exit with 0 and both missing (`csv_report.go:164`). `SweptInFull` allows this, and
  no more than this.
* `truncateForCurfew` explains its cut by a card "only known once Resolve peeks
  it, after submission" and calls the allowance without Curfew the one "the
  player actually saw" (`validate.go:132`). It is not: a round's Curfew is in the
  view that the round's orders are written from (`fog.go:80`).
  `ShownIsGranted` is the sharper fact: what is judged is what was shown, Curfew
  included. The cut meets only routes that were already too long in the view.
* `Order.AbandonCargo` is read by nothing under `internal/rules`.

### 3.2 Bounds and why they are enough

* Leases: amounts of 0 to 3 against a starting balance of 2, so that every charge
  can find its seat with more than it costs, exactly it, or less. Two rounds,
  so that a lease opened in one is renewed, torched, surrendered or left to lapse
  in the next. A lease block is 2 rounds there, so that healthy and dying leases
  coexist in upkeep. Two seats interact only through nodes and fights; the
  theorems (below) hold for any number. The cap needs a run of its own because
  a seat with three posts would take three rounds; there `InBounds` follows a match into
  its second round only where no card has fallen. The constraint cuts matches
  between rounds, never inside one.
* Contracts: `MaxFights` and `LooseRounds` bound what one round may bring. Two
  fights let a crate be lost twice in one round; three seats make a melee with
  two forfeits. An ID is reused only after a contract closes, which takes five
  rounds and no fights: hence the second run.
* Movement: three seats, because a seat is in two fights of one step only if
  another crosses it and a third stands where it lands. The triangle has crossings,
  ways around and ties between adjacent nodes; the dead end has a blind step with
  no way on but back. Plans of three steps, mixed from routes and blind steps, let
  a seat be halted and converted twice. One round: nothing of a walk outlives it,
  and every placement is an initial state. Stances matter through three
  comparisons only (aggressive against not, evasive or not), and each seat keeps
  one. The run does not ask for deadlock: the round ends.
* Rebuild: two rebuilds give every pairwise race, and a third would only queue
  behind them. Two rounds let a rebuild's log be a round older than the table it
  rewrites. `MaxRuns` counts the rebuilds of a behaviour: two at once, or one
  after another.
* RateLimit: two callers are every pair of transactions on one row, and the sweep
  a third party. Time 0 to 3 with capacity 1, rate 1 and retention 2 lets a
  bucket drain, refill, be forgotten and be revived. `OneCustomer` keeps one
  customer's requests to a behaviour: accounts do not touch each other. Callers are
  interchangeable (symmetry).
* Boot: three instances, so that one waits for the lock while another dies
  holding it and a third is granted it; two migrations, so that a death can fall
  between them. Matches: two creators, with configurations on both sides of
  each check of `Validate` and of the codec. Sweep: two fields of two values;
  three faults let a resumed run fail and be resumed. A full disk may
  cut any line short or at its very end, so that a row may be lost in two ways and
  a header be run into by a row. Pool:
  three seeds on two workers, a reservoir of two that the third match overflows,
  and one tick of the sampler.
* City: three rounds are a card's round, the next, and the one after it in which
  its modifier must be gone. The pools pair cards that bear on the same state
  (Dragnet with rotation, Curfew with a flag, Windfall with a crate that falls).
  Three Borders and two players make the valve's case: a rotation shuts one or two,
  Dragnet two. Sight: two seats, one famous with a post, one nobody; the pairs of cards
  are those that rewrite a trace before it is read. Bots: the openings put each
  tier with and without contract, crate, posts, items and money; four rounds
  let a lease be opened, renewed and run out. `DriftRounds` follows a Drifter, whose
  choices multiply, for one order. Fights (`MostFights`) come in the second round,
  where two let a carrier be shaken down twice; Torched (`Fires`) may fall
  there too. `LongestPlan` is one step, the loop's own minimum: the others do not walk
  on once the bot's plan is over (the theorems hold for any length). A fight won
  brings one sum (`Takings`) and a loose crate or none (`Crates`).

The parts that run side by side stop when their rounds are over, so `movement`,
`ratelimit`, `services` and `table` do not ask for deadlock.

### 3.3 Fairness

`Resolve` is a synchronous call over fixed slices, and nothing is asked of its end.
`Rebuild!RepairSpec` asks for weak fairness of each process's
own statements, including PostgreSQL's deadlock detector: a started process goes
on. `Boot` asks for weak fairness of each instance's steps, of an orchestrator
that starts it again and of the server that reaps a dead session, and for strong
fairness of the advisory lock: the server grants it in the order of waiting.
`Pool` asks for weak fairness of each goroutine, and strong of `FoldStats.mu`,
which Go's mutex hands to a starving waiter. Nothing is assumed of crashes, of
submissions, of the ticker, or of processes starting. `Services` states the
fairness of both parts as one condition per index, since a behaviour has only
one of them.

## 4. Proofs

### 4.1 Leases

TLAPS proves for every number of seats, map, sector table, price list, cap,
deck and number of rounds (under `ShapeAssumption` and `AmountAssumption`,
which say that these are natural numbers, that the map is finite, and that a
lease block is at least one round):

| theorem | states |
|---|---|
| `IInvHolds` | `Spec => []IInv` |
| `TypeCorrect` | `Spec => []TypeOK`: in particular no negative balance |
| `RecordsAgree` | `Spec => []PostsAgree` |
| `CapHolds` | `Spec => []CapRespected` |
| `LiveLeases` | `Spec => []LeasesLive` |
| `FlagIsDebt` | `Spec => []FlagMatchesDebt` |
| `UpkeepOrderSparesLeases` | `Spec => []UpkeepSparesHealthyLeases` |
| `LeasesLostOnlyToDebt` | `Spec => LeaseLostOnlyToDebt` |

**The argument.** `PostsAgree` is not inductive alone: a surrender keeps it only
if the lease `Weakest` picks is the seat's own, which needs the shape of both
records; the cap needs the agreement, to know that a stake adds one post. `IInv`
is therefore the conjunction of the lease books (shapes, agreement, cap), the
money books, the flag books (`FlagsTrackDebt`: flag and history agree in *every*
phase, not only when orders open) and the course of the round. Each group has a
lemma for each kind of write (`SurrenderKeepsLeases`, `DebtKeepsBooks`,
`StakeKeepsBooks`, `RenewKeepsBooks`), and each action cites one of them.

`UpkeepSparesHealthyLeases` compares the end of upkeep with its beginning and
needs a second invariant, `UInv`, relative to the first: while contracts are
being charged, the leases lost so far are at most the cascades so far, none of
them healthier than any that is left, and those that are left are as upkeep
found them. When leases then lapse, either every lost lease was about to lapse
or the only ones lost were paid for. `LeaseLostOnlyToDebt` is a fact about one
step from a state where `IInv` holds.

### 4.2 Movement

For every number of seats, board, weather, set of plans and of lucky seats, under
`MovementAssumption` (an edge joins two nodes of the board; plans have the
shape `Legal` lets through):

| theorem | states |
|---|---|
| `IInvHolds` | `Spec => []IInv` |
| `TypeCorrect` | `Spec => []TypeOK`: in particular no path is ever emptied |
| `WalksEndHere` | `Spec => []PathEndsHere` |
| `NobodyLost` | `Spec => []StandsOnKnown` |
| `OrdersFit` | `Spec => []OrdersFitWalks` |
| `PlansKeepTime` | `Spec => ClockKept` |
| `ThrownOut` | `Spec => ThrownOutAsRuled` |

**The argument.** That a seat knows the node it stands on is not inductive: a tie
sends it to its `Previous`, a pushback to an earlier entry of its path, a
correction to the node of a fight it may have been thrown out of the way of.
`IInv` therefore adds `WalkKnown` (every node of the path, and `Previous`, is
Known) and `FightsKnown` (the node of every fight still to come is Known to
everyone in it). The latter rests on `MeetingsWhereSeatsWere`: a confrontation's
node is the origin or the destination of each seat in it. The lemmas on paths
(`Appended`, `Truncated`, `Single`, `PathFixed`) say what each kind of rewriting
keeps; `PathsAfterPushback` and `HaltedOrder` apply them.

The last three theorems look forward and need a second invariant, `Ahead`: what
is left of a route leads on along edges from where its seat stands
(`RoutesAhead`), whoever still acts is bound for its goal by no blind step
(`ActsAhead`), each node has at most one fight to come and everyone who stands
there and has not fallen back is in it (`Meetings`), a seat's walk records the
step just taken until its first fight (`StepTaken`), paths of seats that were not
in two fights of a step follow edges (`WalksConnected`), and the way back of a
seat that was thrown out is closed to it (`WayBack`). `Meetings` is what
`SharedOnlyByFallback` needs: a fight may put a seat on a node of another fight
only by falling back. `PlansKeepTime` and `ThrownOut` are then facts of one step.

### 4.3 City

For every map with a Border, any decks, sectors, seats and rounds, under
`CityAssumption`:

| theorem | states |
|---|---|
| `JudgedAsShown` | `Spec => []ShownIsGranted` |
| `OneRoundEach` | `Spec => []ModifiersServeOneRound` |
| `NeverAllShut` | `Spec => []SomeBorderOpen` |
| `PaidOnce` | `Spec => []WindfallPaidOnce` |

**The argument.** `ModifiersServeOneRound` says nothing of the phases between the
event and the end of upkeep, where a modifier of this round and one of the next
are both set. `CityInv` adds `ModifierInv`, which says in every phase which card each
modifier comes from: in the incident and in upkeep the modifiers are those of
the round's card *and* of the last one's, and the entry copy knows which are
which. Clearing what the copy has is then right only if two cards in a row are not
the same, which `DeckInv` gives: no card is dealt twice. `ViewInv` says that the
promise is recomputed from what upkeep leaves, so that the order is judged by the
very same numbers. `ValveReopens` needs the least Border to exist; `HasLeast` gets it from
the library's minimal elements of finite sets, since the induction theorems
are out of reach here.

`PaidOnce` rests on `PaidInv`: until the card is dealt nothing is
offered or paid; from then on there is one offer and no payment, or one payment
and no offer. That the card is dealt once is `DeckInv` again.

### 4.4 Contracts

For any number of seats, pairs, nodes, deadlines, fights and rounds, under
`ContractsAssumption` (a pair joins two nodes; a deadline is at least a round):

| theorem | states |
|---|---|
| `TypeCorrect` | `Spec => []TypeOK` |
| `IDsAreUnique` | `Spec => []IDsNameOneContract` |
| `ContractsKept` | `Spec => []ContractsInOrder` |
| `FightsConserve` | `Spec => FightsKeepCargo` |

**The argument.** `nextContractID` looks at the first held contract only: its
answer is unused only if an offer is never accepted by a seat that holds two.
That is `OffersHaveRoom`, which also says that no offer outlives the order phase.
`Purses` couples what a seat holds with what it carries: IDs unique, no deadline
paused twice, and an honest crate (bound, never stolen) covered by a contract of
the same ID and pair. A fight keeps it because what a winner takes from another is
stolen and a pause moves a deadline and nothing else; a pickup because the crate
is bound to the seat's own contract; a delivery and the Fence because the crate goes
with the contract; expiry because, IDs being unique, the crate whose ID is overdue
is the one whose contract goes. `Timely` (from the end of upkeep to the next orders
no contract is past its deadline) gives `NoneOverdue`. `FightsConserve` is a count
over one step: the carriers that lose a crate are as many as the crates that fall
or change hands (`CratesAfterFight`, `GroundGrows`), in a melee of any size.

### 4.5 Rebuild

For any number of seats, rounds, bots, quiet rounds, drafts and rebuilds at once:

| theorem | states |
|---|---|
| `TypeCorrect` | `Spec => []TypeOK`: in particular no cursor reaches the last round |
| `CursorsBehind` | `Spec => []CursorNeverAhead` |
| `SettledRebuilds` | `Spec => SettledCommitIsExact` |
| `NeverHalf` | `RepairSpec => NeverHalfRebuilt` |
| `SuccessRepairs` | `RepairSpec => []SuccessIsExact` |

**The argument.** Two computations of a cursor must agree, one submission at a
time (`AppendOrder`'s upsert) and all at once (`lastSeenRoundsFromOrders`), and
neither is the closed form `SeenRounds` that the properties use. `SeenBy(H, c)`
says that `c` is the least of the clamps that the rounds in `H` put on it;
`SeenOnce` that only one number is; `OneMoreRound` that advancing the cursor
over a later round keeps it. The loop is a recursive function over the rounds:
that it has an outcome (`LoopEnds`) and that the outcome is `SeenBy` of the rounds
up to each (`LoopCounts`) are shown by the least round at which they would fail,
since the induction theorems cannot be used; `CursorsExact` follows, for every log.
`LaterRounds` then shows that a cursor right for an *older* log is never too large
for the log the match has now. `PlayInv` carries this through the match: `MatchInv`
(which rounds are filled, and that in an open round a row is a human's own),
`LogInv` (each rebuild's log is the match's up to some submission of each seat),
`CursorInv`, `SettledInv` (a log listed after the end is the whole of it),
`QuietInv`. A commit is exact (`CommitIsExact`) because it writes every round
of a full log that is not quiet, and a quiet round has no events anywhere. `RepairInv`
adds for each stage of a rebuild what it has achieved so far.

### 4.6 Services

For any number of instances, deaths, migrations, creators, loaders,
configurations, seeds, workers and points, under `ServicesAssumption` and
`SweepAssumption`; the latter says that the points of a sweep are different,
which `parseSweepFlags` sees to (`sweep_spec.go:80` and `:105`) and which, of
a fold over the flags, would need induction:

| theorem | states |
|---|---|
| `MigrationsInOrder` | `Spec => []AppliedInOrder` |
| `SuccessMeansMigrated` | `Spec => []MigratedInFull` |
| `MatchesLoadAsCreated` | `Spec => []MatchesAsCreated` |
| `RunManyAnswers` | `Spec => []AnswersBySeed` |
| `SnapshotsCount` | `Spec => []SnapshotIsExact` |
| `SweepsComplete` | `Spec => []SweptInFull` |
| `BreakdownsBehind` | `Spec => []BreakdownWithinOut` |

**The argument.** *Boot*: between listing and unlocking an instance holds the lock
(`Holds`), so that what it has listed stays the rest of what is to be applied
(`RestPending`); an instance past that without an error leaves nothing
(`Through`), and versions only grow. `Holds` also says that only the dead leave a
session behind, so that the living are never reaped. *Matches*: what
an open transaction has written is the beginning of what its caller asked
(`OpenFit`), tokens are drawn from a counter that no two share (`TokensApart`), and
what is stored is whole (`StoredFit`), so the two reads of a load find the two
halves of one match. *Pool*: the seeds that count as recorded are those whose
worker is past recording them, and their number is the counter at every step
(`Counted`), because a worker's seed is its own (`Hands`) and the mutex lets one
worker at a time be between two counters; `Stages` says that the main goroutine is
past waiting only when every worker is gone. *Sweep*: a cut line that still
reads as one is the last of its file and stays the only one (`Orderly`); once a
resumed run has written on it, no later run takes the file. So the lines of a
file that is being written are all whole but for one (`Shape`), which has no row
or two rows on it, and the rows after it are one line ahead; `Counts` says that
they are those of the first points, exactly as many as the run found done or has
come past. A breakdown is opened where nothing is done, so that the line in
question can only be the header.

### 4.7 Sight

`Table` has `Sight` as `W`. For any map, seats, skies, deeds and rounds under `W!Setting` (nodes are a finite
set of numbers other than `NoNode`; homes, posts and the targets of deeds are on
the map), which `MCTable` has TLC evaluate for its instance:

| theorem | states |
|---|---|
| `GroundIsKnown` | `TableSpec => []StandsOnKnownGround` |
| `ViewsAreEarned` | `TableSpec => []ShowsOnlyWhatIsInSight` |
| `HeatMapCounts` | `TableSpec => []HeatMapIsTrue` |

**The argument.** `StandInv` says that a seat Knows the node it stands on in every
phase: a walk learns what it enters, an incident learns where it throws its
victim (`RetreatsOnTheMap`, `WalksTheMap`), and a new look forgets nothing that is
Known (`LookKeeps`). `SeenInv` ties fog to archive: between the trail and the next
round, whatever is In Sight is a node-round of the archive, seen or obscured.
`ArchiveInv` says for each seat that its archive `Fits` the log up to the last
round that was written: no node-round is both seen and obscured, only logged
ones are obscured, and of those seen the trail names exactly the logged ones. One
round of `WriteTrail` adds node-rounds of that round only, which no archive can
have yet, so each of the four survives Riot's permutation, Rain and the rest.

### 4.8 Bots

For any map, prices, rates, tiers of contract, offers, weather and number of rounds
under `Setting` (nodes are a finite set of numbers other than `NoNode`; costs and
pay are natural numbers, deadlines and places integers; a match hands a seat over
on Known ground, with no debt, its contracts numbered apart and an ID left for an
offer), which `MCTable` has TLC evaluate for its instance:

| theorem | states |
|---|---|
| `BotsProofs!BotInvariant` | `Spec => []BotInv` |
| `BotsAreLegal` | `TableSpec => []DecidesLegally` |
| `ReservesCover` | `Pays` implies `TableSpec => AddOnsAreCovered` |
| `LeasesAreRenewed` | `Lasts` implies `TableSpec => RenewsInTime` |
| `RunnersGoStraight` | `TableSpec => []GoesStraight` |

The last four are proved in `BotsProofs` for `Bots` by itself; `TablePlaysTheBot`
carries them over to the table that TLC runs. `Lasts` says that a lease block
costs something and lasts a round or more and that two may be bought at once. The
default configuration has 3 for both and four blocks, but `Config.Validate`
(`config.go:250`) asks for neither: free leases are never renewed, and
leases of no rounds to no effect, so that the property is false there. `Pays`
says that half of what any crate pays covers the gate, as the configuration's does:
else a delivery could leave less than there was. The fights, the nodes and the
payments of a round are any: only the shakedowns are counted, by the property.

**The argument.** `BotInv` says that the seat stays sound (`TableIsSound`), that the
order just decided is the answer to the very view it was decided on
(`OrderIsDecided`: `Playable`, legal, a walk over nodes, an offer that exists, for
every tier, and for a Runner or an Operator also `Careful`: what its add-ons cost
leaves the shakedown in the purse, `Covered`, and every post about to lapse is
renewed, or another as urgent is, or the reserve forbids it, `Timely`), and that
the walk keeps it (`WalkIsKept`): whatever steps and fights did to route, push and
deed, the path ends where the seat stands, the add-ons are those decided, the
purse holds what it held less one shakedown for each paid (`Reserved`), and
the posts are untouched (`InTime`).

*Decide.* `RoutesAreLegal`: each route the toolkit lists is one that `Legal` lets
through, and there are finitely many, so that the least scored, then the shortest
or longest, then the first of them exists (`LeastAreLeast`, `FirstRoute`,
`HasFirstByKeys`; an order of routes by their first difference is total,
`PrecedesOrders`). The rest follows an order through its making: `PlannedIsDrafted`,
`RenewalIsDrafted`, `AddOnsAreDrafted`, `RelaxedIsDrafted`, `DeedIsLegal` for what is
computed, `AddOnsKeepLegal` and `BlocksAreAffordable` for what is drawn. The Operator's
deed and the Drifter's come from a set that was filtered by `Legal`; the Runner's
is legal by the conditions it asks itself (`DraftedIsLegal`).

*The round.* One lemma for each operation, from `ChosenIsSeated` to `OfferedIsSeated`,
says what it does to purse and posts. `BeginKeeps`, `AdvanceKeeps`, `LosesKeeps`,
`TiesKeeps` and `WinsKeeps` carry `WalkIsKept` through the loop; `PushedBackIsAWalk` and
`HaltedKeeps` say what a fight leaves of path and order. `CloseKeeps` and
`CloseGives` put the rest in the order of the round. A Runner or an Operator that
does not deal, and was shaken down once at most, meets its charges with at least what
`Covered` had kept; a delivery only adds to it (`PaymentsCover`). A post that was not
about to lapse survives one upkeep, unless it is torched; what is renewed or staked
gets at least two rounds (`RenewalLasts`), which is what `stakeBlocksToSurviveUpkeep`
is for.

*The Runner's way.* `KnownBall` is a recursive function, as is `Routes`; `AllStages`
carries a fact from each of its stages to the next by the least stage at which it
would fail. `NoShortcut` walks a legal route backwards: no route comes nearer by
more than a step each. `StraightRoute` builds one that takes every step towards the
goal. `NearestRoute` takes a route no worse than that, so the distance left is exactly
what the allowance leaves.

### 4.9 RateLimit implements Limiter

For any number of callers and requests, scopes and addresses, any capacity, refill,
retention and waiting time under `RateLimitAssumption` and `CallAssumption`:

| theorem | states |
|---|---|
| `TableKeepsItsPromise` | `KeysFollowCustomers` implies `Spec => KeepsItsPromise`, that is, `Limiter`'s `Spec` |

`KeysFollowCustomers` says that two served requests ask one bucket exactly when
they are one customer's. It is about the trust placed in `X-Forwarded-For`: it
depends on the requests a server gets, so it is a hypothesis here, and
`MCRateLimit` has TLC evaluate it for its own, whose notations and proxies differ.

**The argument.** The refinement maps buckets to accounts, and each step of the
table to one step of the limiter or to none: a refusing `Answer` is `Refuse` (the
first one of its call), a `Commit` is `Pay`, whatever it tells its caller, an `Abort`
is `Fail`; sending, waiting, admitting and sweeping are invisible. The invariant
`LimitInv` says what a row knows of what was paid. `Tells`: since any date up to
the row's, the payments and what the row would hold now stay within capacity
and refill (`NotTooMuch`), and unless it is full now some such date meets that bound
(`NotTooLittle`). The first makes every payment allowed, the second makes every
refusal deserved (`EmptyIsExhausted`). A key without a row has regained
everything with a token to spare (`FullAgain`, and `Spare` in rows older than
`MaxWait`), because an upsert that finds no row writes the time it *started*
(`WaitInv`: nothing was paid since then). That is where the sweep's
retention must exceed the longest wait: a row it may forget is full, and was
last paid before any statement began that still waits for it (`ForgottenFits`).
Transactions come in by `BusyInv` (a call holds every row it has asked, and has
written it unless it was refused) and `DraftInv` (what is written but not
committed is a payment for the account as it stands: nobody else can have charged
it, since the row is locked). Sums over stretches of time are `TotalSums`,
`PayoutRises` and `PayoutRests`; a recursive function stands where a RECURSIVE
operator would shut out the SMT backend, and that it exists is shown by the least date
at which it would not.

### 4.10 Only model-checked

`EveryRebuildEnds` and `EveryRunEnds` (liveness under
fairness, and `ENABLED` within it, are out of this prover's reach). Every other
property of a passing run is a theorem. What a recursive definition computes for
every length needs induction over data with an operator as its parameter, which
the installed provers cannot instantiate; where one is needed (`City`'s decks,
`Rebuild`'s cursor, `Limiter`'s sums, the routes and distances of `Bots`) the proofs go by a least counterexample instead,
from the library's theorem on minimal elements. Four definitions were put in a form that
can be reasoned about, and are the same function: `Contracts!InOrder` lists a
set of numbers by rank, `Boot!Pending` lists the versions left by rank,
`Rebuild!Deleting` names a stage by cases where a string was joined, and
`Limiter!Total` is a recursive function.

## 5. Not modelled

* Scoring, the market's rolls, the item table, the map generator, `telemetry`,
  the statistics of `cmd/simulate` and of `opsmetrics`: pure functions of their
  input, with no state that a sequence of steps could break. The random streams are
  nondeterministic choices.
* `cmd/replay` bundles, HTML, wire forms and JSON payloads beyond what the codec
  accepts: formatting.
* `cmd/server`, `web`, `auth`, `mail`, `render`, `debug`: no code yet. What races
  on a row of the order log (two submissions, or one and the tick's default,
  `orders.go:104`) waits for the tick; `Rebuild` has its store calls.
* `Leases`, `Contracts`, `Movement`, `City` and `Sight` are views of one `Resolve`
  and are not composed: what one leaves open (the penalty of an expired
  contract, the cargo lost in a fight, where a walk ends) is an input of the
  others. Their product is beyond TLC's reach on any instance that has an
  interesting case of each.
* Of a confrontation, the totals; of `validate`, the cut at a destroyed edge; of a
  view, other seats' bands, the headline and the deck counts; of bots, the sums of
  the Operator's estimates. In `Bots` a seat meets none of the cards that `City`,
  `Movement` and `Contracts` have (Gas Leak, Sinkholes, sealed Borders, what moves
  a seat once its add-ons are paid) but Torched and those that change a payment,
  and its round has no Pickup off the ground.

## 6. Plan

1. `Leases`, `Contracts`, `Rebuild`, `Movement`: done. `City`, `Borders`, `Sight`,
   `Legality`, `Bots`, `RateLimit` over `Limiter`, `Boot`, `Matches`, `Sweep`, `Pool`:
   done.
2. Proofs: every safety and action property the passing runs check, and that
   `RateLimit` implements `Limiter`, is proved (section 4): done.
3. `validate`'s cut at a destroyed edge, with Bridge Down, in `City`.
4. Abstract specifications: a ledger in which a lease is one record with one owner,
   implemented by `Leases`; projections that jump from wrong to right in one step,
   implemented by `Rebuild`.
5. Pure algorithms as operators against reference definitions: scoring, the
   generator's edges and start placement, `checkNoRoundGap`.
