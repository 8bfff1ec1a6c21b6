-------------------------------- MODULE Rebuild --------------------------------
(***************************************************************************)
(* One match's order log and what is derived from it: the tables events    *)
(* and match_summary and the column match_players.last_seen_round, and     *)
(* cmd/replay --rebuild, which folds the log again and replaces them       *)
(* (cmd/replay/rebuild.go, internal/store, internal/match/fold).  Several  *)
(* rebuilds may run at once and each may die between two statements, while *)
(* the match itself is played: the submit handler and the round tick are   *)
(* not in the repository yet, and are modelled by the store calls written  *)
(* for them.                                                               *)
(*                                                                         *)
(* PostgreSQL is external: READ COMMITTED, a statement waits for the       *)
(* uncommitted writer of a row it needs, and a cycle of waits is broken by *)
(* failing one of the transactions in it.                                  *)
(***************************************************************************)
EXTENDS Integers, Sequences, FiniteSets, FiniteSetsExt

CONSTANTS
  NumSeats, Rounds,
  Bots,         \* the seats a bot plays
  Quiet,        \* the rounds in which Resolve records no event
  Rebuilders,   \* cmd/replay processes
  Drafts,       \* the order payloads of each seat, told apart
  MaxRuns       \* bound: rebuilds started in a behaviour

Seats    == 0 .. NumSeats - 1
RoundNos == 1 .. Rounds
Tables   == {"events", "summary"}

ASSUME RebuildAssumption ==
  /\ NumSeats \in Nat \ {0} /\ Rounds \in Nat \ {0} /\ MaxRuns \in Nat
  /\ Bots \subseteq Seats /\ Quiet \subseteq RoundNos /\ \A s \in Seats : Drafts[s] \subseteq Nat /\ Drafts[s] # {}

NoOrder   == [source |-> "none", draft |-> 0]   \* no row for this seat
Default   == [source |-> "default", draft |-> 0]
NoEvents  == <<>>                               \* no rows for this round
NoSummary == {-1}                               \* no row for this round

VARIABLES
  status, round, tick,   \* matches.status, matches.round; where the tick is
  orders,                \* the log: orders[round][seat]
  events, summary,       \* the committed projections, by round
  cursor,                \* match_players.last_seen_round
  pc, log, begun,        \* each rebuild: where it is, the rows it listed, and
                         \* (history) the match's status when it listed them
  seen,                  \* rows its DELETE found when it started
  dropped, written,      \* rows its open transaction has deleted and inserted
  runs                   \* rebuilds started

match == <<status, round, tick, orders>>
rows  == <<events, summary>>
tx    == <<seen, dropped, written>>
vars  == <<match, rows, cursor, pc, log, begun, tx, runs>>

-------------------------------------------------------------------------------
(* What a log stands for.                                                    *)

Present(l) == {r \in RoundNos : \E s \in Seats : l[r][s] # NoOrder}
Through(l) == IF Present(l) = {} THEN 0 ELSE Max(Present(l))

\* orderlog.Decode refuses a gap between rounds, FoldThrough a missing seat and
\* a fold that leaves no event at all; a log of no rows is not folded.
Decodes(l) == Present(l) = 1 .. Through(l)
Folds(l) ==
  Present(l) = {} \/ /\ \A r \in 1 .. Through(l), s \in Seats : l[r][s] # NoOrder
                     /\ ~(1 .. Through(l) \subseteq Quiet)

\* The events of a round are Resolve's trace of every order up to it, whoever
\* they came from; a seat has submitted unless its order is the default one.
EventsOf(l, r) ==
  IF r \in Quiet THEN NoEvents ELSE [q \in 1 .. r |-> [s \in Seats |-> l[q][s].draft]]
SubmittedOf(l, r) == {s \in Seats : l[r][s].source # "default"}

Projection(l) ==
  <<[r \in RoundNos |-> IF r \in Present(l) THEN EventsOf(l, r) ELSE NoEvents],
    [r \in RoundNos |-> IF r \in Present(l) THEN SubmittedOf(l, r) ELSE NoSummary]>>

\* Mutant: the cursor without its clamp.
Unclamped(l) ==
  [s \in Seats |-> Cardinality({r \in RoundNos : l[r][s].source = "human"})]

\* lastSeenRoundsFromOrders: cursor = LEAST(cursor + 1, round - 1) over the
\* rounds the seat itself submitted.
Advance(c, r) == Min({c + 1, r - 1})
Cursors(l) ==
  [s \in Seats |->
     LET upTo[r \in 0 .. Rounds] ==
           IF r = 0 THEN 0
           ELSE IF l[r][s].source = "human" THEN Advance(upTo[r - 1], r)
           ELSE upTo[r - 1]
     IN  upTo[Rounds]]

(* Transactions.                                                             *)

NoRows == [t \in Tables |-> {}]
Found(t) ==
  IF t = "events" THEN {r \in RoundNos : events[r] # NoEvents}
                  ELSE {r \in RoundNos : summary[r] # NoSummary}

\* The other transactions that hold row r of table t.
Holders(p, t, r) == {q \in Rebuilders \ {p} : r \in dropped[q][t] \cup written[q][t]}

EventsLeft(p)  == (Present(log[p]) \ Quiet) \ written[p]["events"]
SummaryLeft(p) == Present(log[p]) \ written[p]["summary"]

\* The transactions the current statement of p waits for.
WaitsFor(p) ==
  CASE pc[p] = "deleting events"  -> UNION {Holders(p, "events", r) : r \in seen[p]}
    [] pc[p] = "deleting summary" -> UNION {Holders(p, "summary", r) : r \in seen[p]}
    [] pc[p] = "writing" /\ EventsLeft(p) # {} ->
         Holders(p, "events", Min(EventsLeft(p)))
    [] pc[p] = "writing" /\ EventsLeft(p) = {} /\ SummaryLeft(p) # {} ->
         Holders(p, "summary", Min(SummaryLeft(p)))
    [] OTHER -> {}

\* Mutant: an error path with no deferred Rollback.
StaysOpen(p, to) ==
  /\ pc' = [pc EXCEPT ![p] = to]
  /\ UNCHANGED tx

\* The transaction of p is rolled back and its process goes on to "to".
RollBack(p, to) ==
  /\ pc' = [pc EXCEPT ![p] = to]
  /\ seen' = [seen EXCEPT ![p] = {}]
  /\ dropped' = [dropped EXCEPT ![p] = NoRows]
  /\ written' = [written EXCEPT ![p] = NoRows]

Go(p, from, to) == pc[p] = from /\ pc' = [pc EXCEPT ![p] = to]

-------------------------------------------------------------------------------
Idle ==
  /\ pc = [p \in Rebuilders |-> "idle"] /\ runs = 0
  /\ log = [p \in Rebuilders |-> [r \in RoundNos |-> [s \in Seats |-> NoOrder]]]
  /\ begun = [p \in Rebuilders |-> "none"]
  /\ seen = [p \in Rebuilders |-> {}]
  /\ dropped = [p \in Rebuilders |-> NoRows]
  /\ written = [p \in Rebuilders |-> NoRows]

\* A match in the lobby.
Init ==
  /\ status = "lobby" /\ round = 0 /\ tick = "open"
  /\ orders = [r \in RoundNos |-> [s \in Seats |-> NoOrder]]
  /\ events = [r \in RoundNos |-> NoEvents]
  /\ summary = [r \in RoundNos |-> NoSummary]
  /\ cursor = [s \in Seats |-> 0]
  /\ Idle

\* A finished match some of whose derived rows are missing or wrong, which is
\* what --rebuild is for (TestIntegrationRebuildProjectionsRecoversFromCorruption).
Damaged ==
  /\ status = "finished" /\ round = Rounds /\ tick = "open"
  /\ orders \in [RoundNos -> [Seats -> {Default} \cup
                   [source : {"human", "bot"}, draft : {1}]]]
  /\ \A r \in RoundNos, s \in Seats : orders[r][s].source = "bot" <=> s \in Bots
  /\ \E lost \in SUBSET RoundNos, bad \in SUBSET RoundNos :
       /\ events = [r \in RoundNos |-> IF r \in lost THEN NoEvents
                                       ELSE Projection(orders)[1][r]]
       /\ summary = [r \in RoundNos |-> IF r \in bad THEN {}
                                        ELSE Projection(orders)[2][r]]
  /\ cursor \in {[s \in Seats |-> 0], [s \in Seats |-> Rounds - 1]}
  /\ Idle

-------------------------------------------------------------------------------
(* The match: external, but for AppendOrder, WriteEvents and UpsertSummary.  *)

OpenMatch ==
  /\ status = "lobby" /\ status' = "active" /\ round' = 1
  /\ UNCHANGED <<tick, orders, rows, cursor, pc, log, begun, tx, runs>>

\* A submission: AppendOrder upserts the seat's row, and the first one of the
\* round advances the seat's cursor (D52; the handler is not written yet).
AppendOrder(s, d) ==
  /\ status = "active" /\ tick = "open" /\ s \notin Bots
  /\ orders' = [orders EXCEPT ![round][s] = [source |-> "human", draft |-> d]]
  /\ cursor' = IF orders[round][s] = NoOrder
               THEN [cursor EXCEPT ![s] = Advance(@, round)] ELSE cursor
  /\ UNCHANGED <<status, round, tick, rows, pc, log, begun, tx, runs>>

\* The tick takes the round: bots and absent seats are given their orders.
Tick ==
  /\ status = "active" /\ tick = "open" /\ tick' = "events"
  /\ orders' = [orders EXCEPT ![round] = [s \in Seats |->
       IF s \in Bots THEN [source |-> "bot", draft |-> Min(Drafts[s])]
       ELSE IF @[s] = NoOrder THEN Default ELSE @[s]]]
  /\ UNCHANGED <<status, round, rows, cursor, pc, log, begun, tx, runs>>

\* WriteEvents: one statement of plain INSERTs, which fails as a whole on a row
\* that is there already; the tick is taken to go on without it.
WriteEvents ==
  /\ tick = "events" /\ tick' = "summary"
  /\ \A q \in Rebuilders : round \notin dropped[q]["events"] \cup written[q]["events"]
  /\ events' = IF events[round] # NoEvents THEN events
               ELSE [events EXCEPT ![round] = EventsOf(orders, round)]
  /\ UNCHANGED <<status, round, orders, summary, cursor, pc, log, begun, tx, runs>>

\* UpsertSummary, and the round is over.
UpsertSummary ==
  /\ tick = "summary" /\ tick' = "open"
  /\ \A q \in Rebuilders : round \notin dropped[q]["summary"] \cup written[q]["summary"]
  /\ summary' = [summary EXCEPT ![round] = SubmittedOf(orders, round)]
  /\ IF round = Rounds THEN status' = "finished" /\ round' = round
                       ELSE status' = status /\ round' = round + 1
  /\ UNCHANGED <<orders, events, cursor, pc, log, begun, tx, runs>>

-------------------------------------------------------------------------------
(* rebuildMatch, one action per statement.                                   *)

\* LoadMatch: an active match is refused without --include-active.
LoadMatch(p) ==
  /\ pc[p] \in {"idle", "done", "failed"} /\ runs < MaxRuns
  /\ runs' = runs + 1
  /\ \E includeActive \in BOOLEAN :
       pc' = [pc EXCEPT ![p] =
                IF status = "active" /\ ~includeActive THEN "failed" ELSE "loaded"]
  /\ UNCHANGED <<match, rows, cursor, log, begun, tx>>

\* ListOrdersForMatch, and everything computed from its rows.
ListOrders(p) ==
  /\ pc[p] = "loaded"
  /\ log' = [log EXCEPT ![p] = orders] /\ begun' = [begun EXCEPT ![p] = status]
  /\ pc' = [pc EXCEPT ![p] = IF Decodes(orders) /\ Folds(orders)
                             THEN "folded" ELSE "failed"]
  /\ UNCHANGED <<match, rows, cursor, tx, runs>>

Deleting(t) == IF t = "events" THEN "deleting events" ELSE "deleting summary"

\* deleteProjectionsTx: DELETE finds the committed rows of its moment ...
StartDelete(p, t, from) ==
  /\ Go(p, from, Deleting(t))
  /\ seen' = [seen EXCEPT ![p] = Found(t)]
  /\ UNCHANGED <<match, rows, cursor, log, begun, dropped, written, runs>>

\* Mutant: the two DELETEs committed on their own (ClearProjections).
ClearCommitted(p, t, to) ==
  /\ Go(p, Deleting(t), to) /\ WaitsFor(p) = {}
  /\ IF t = "events"
     THEN events' = [r \in RoundNos |-> NoEvents] /\ UNCHANGED summary
     ELSE summary' = [r \in RoundNos |-> NoSummary] /\ UNCHANGED events
  /\ UNCHANGED <<match, cursor, log, begun, tx, runs>>

\* ... and takes those that are still there once their holders are gone.
EndDelete(p, t, to) ==
  /\ Go(p, Deleting(t), to) /\ WaitsFor(p) = {}
  /\ dropped' = [dropped EXCEPT ![p][t] = seen[p]]
  /\ seen' = [seen EXCEPT ![p] = {}]
  /\ UNCHANGED <<match, rows, cursor, log, begun, written, runs>>

\* Mutant: ON CONFLICT DO NOTHING.
InsertIfAbsent(p) ==
  /\ pc[p] = "writing" /\ EventsLeft(p) # {} /\ WaitsFor(p) = {}
  /\ written' = [written EXCEPT ![p]["events"] = @ \cup {Min(EventsLeft(p))}]
  /\ LET r == Min(EventsLeft(p))
     IN  log' = IF events[r] # NoEvents /\ r \notin dropped[p]["events"]
                THEN [log EXCEPT ![p][r] =
                        [s \in Seats |-> [@[s] EXCEPT !.draft = events[r][r][s]]]]
                ELSE log
  /\ UNCHANGED <<match, rows, cursor, pc, begun, seen, dropped, runs>>

\* writeEventsTx, round by round: a row another writer committed in the
\* meantime is a unique violation, and the whole rebuild fails.
InsertEvents(p) ==
  /\ pc[p] = "writing" /\ EventsLeft(p) # {} /\ WaitsFor(p) = {}
  /\ LET r == Min(EventsLeft(p))
     IN  IF events[r] # NoEvents /\ r \notin dropped[p]["events"]
         THEN RollBack(p, "failed")
         ELSE /\ written' = [written EXCEPT ![p]["events"] = @ \cup {r}]
              /\ UNCHANGED <<pc, seen, dropped>>
  /\ UNCHANGED <<match, rows, cursor, log, begun, runs>>

\* upsertSummaryTx, round by round, after the events.
PutSummary(p) ==
  /\ pc[p] = "writing" /\ EventsLeft(p) = {} /\ SummaryLeft(p) # {}
  /\ WaitsFor(p) = {}
  /\ written' = [written EXCEPT ![p]["summary"] = @ \cup {Min(SummaryLeft(p))}]
  /\ UNCHANGED <<match, rows, cursor, pc, log, begun, seen, dropped, runs>>

\* Mutant: success reported once the first of the two transactions is in.
ReportEarly(p) == "done"

\* The last-seen rounds are still to be rebuilt.
AfterCommit(p) == "committed"

\* The transaction is visible at once, and a DELETE that was waiting for it
\* finds the rows it deleted gone.
Commit(p) ==
  /\ pc[p] = "writing" /\ EventsLeft(p) = {} /\ SummaryLeft(p) = {}
  /\ events' = [r \in RoundNos |->
       IF r \in written[p]["events"] THEN EventsOf(log[p], r)
       ELSE IF r \in dropped[p]["events"] THEN NoEvents ELSE events[r]]
  /\ summary' = [r \in RoundNos |->
       IF r \in written[p]["summary"] THEN SubmittedOf(log[p], r)
       ELSE IF r \in dropped[p]["summary"] THEN NoSummary ELSE summary[r]]
  /\ pc' = [pc EXCEPT ![p] = AfterCommit(p)]
  /\ seen' = [q \in Rebuilders |->
       IF pc[q] = "deleting events" THEN seen[q] \ dropped[p]["events"]
       ELSE IF pc[q] = "deleting summary" THEN seen[q] \ dropped[p]["summary"]
       ELSE seen[q]]
  /\ dropped' = [dropped EXCEPT ![p] = NoRows]
  /\ written' = [written EXCEPT ![p] = NoRows]
  /\ UNCHANGED <<match, cursor, log, begun, runs>>

\* RebuildLastSeenRounds: a transaction of its own that overwrites every seat,
\* in seat order, so two of them cannot block each other for good.
RebuildLastSeenRounds(p) ==
  /\ Go(p, "committed", "done")
  /\ cursor' = Cursors(log[p])
  /\ UNCHANGED <<match, rows, log, begun, tx, runs>>

\* The process or its connection dies; PostgreSQL rolls its transaction back.
Crash(p) ==
  /\ pc[p] \notin {"idle", "done", "failed"}
  /\ RollBack(p, "failed")
  /\ UNCHANGED <<match, rows, cursor, log, begun, runs>>

\* PostgreSQL's deadlock detector; with two rebuilds a cycle is a pair.
DeadlockDetected(p) ==
  /\ \E q \in WaitsFor(p) : p \in WaitsFor(q)
  /\ RollBack(p, "failed")
  /\ UNCHANGED <<match, rows, cursor, log, begun, runs>>

Rebuilding(p) ==
  \/ ListOrders(p)
  \/ StartDelete(p, "events", "folded") \/ EndDelete(p, "events", "cleared")
  \/ StartDelete(p, "summary", "cleared") \/ EndDelete(p, "summary", "writing")
  \/ InsertEvents(p) \/ PutSummary(p) \/ Commit(p)
  \/ RebuildLastSeenRounds(p) \/ DeadlockDetected(p)

Rested == \A p \in Rebuilders : pc[p] \in {"idle", "done", "failed"}
AllQuiet == Rested /\ status = "finished" /\ runs = MaxRuns /\ UNCHANGED vars

Playing == OpenMatch \/ (\E s \in Seats : \E d \in Drafts[s] : AppendOrder(s, d))
           \/ Tick \/ WriteEvents \/ UpsertSummary

Next ==
  \/ Playing
  \/ \E p \in Rebuilders : LoadMatch(p) \/ Rebuilding(p) \/ Crash(p)
  \/ AllQuiet

\* A process that has started goes on until it ends or dies.
Fairness == \A p \in Rebuilders : WF_vars(Rebuilding(p))

Spec       == Init /\ [][Next]_vars
RepairSpec == Damaged /\ [][Next]_vars /\ Fairness

-------------------------------------------------------------------------------
(* Properties.                                                               *)

\* D52 in one expression: a seat has seen as many rounds as it has submitted,
\* less what the clamp held back at the round before one of its submissions.
SeenRounds(l) ==
  [s \in Seats |->
     LET mine == {r \in RoundNos : l[r][s].source = "human"}
     IN  Min({Cardinality(mine)} \cup
             {r - 1 + Cardinality({q \in mine : q > r}) : r \in mine})]

\* Shapes and ranges; no cursor reaches the last round.
TypeOK ==
  /\ status \in {"lobby", "active", "finished"} /\ round \in 0 .. Rounds
  /\ tick \in {"open", "events", "summary"}
  /\ \A r \in RoundNos, s \in Seats :
       /\ orders[r][s].source \in {"none", "human", "bot", "default"}
       /\ orders[r][s].draft \in Drafts[s] \cup {0}
  /\ \A r \in RoundNos : /\ Len(events[r]) \in {0, r}
                         /\ summary[r] \in (SUBSET Seats) \cup {NoSummary}
  /\ cursor \in [Seats -> 0 .. Rounds - 1]
  /\ \A p \in Rebuilders, t \in Tables :
       dropped[p][t] \cup written[p][t] \cup seen[p] \subseteq RoundNos
  /\ runs \in 0 .. MaxRuns

\* "Never a half-cleared, half-rewritten state" (projections.go): the two
\* tables of a finished match change together, and only to what its log says.
NeverHalfRebuilt == [][rows' # rows => rows' = Projection(orders)]_vars

\* A rebuild that reports success has repaired all three projections, whatever
\* other rebuilds did or died doing in the meantime.
SuccessIsExact ==
  \A p \in Rebuilders : pc[p] = "done" =>
    rows = Projection(orders) /\ cursor = SeenRounds(orders)

\* A rebuild that read the log of a finished match and commits leaves the
\* exact tables, even against rebuilds that read an older log: the plain
\* INSERT must fail where another one's stale rows got in between.
SettledCommitIsExact ==
  [][\A p \in Rebuilders :
       pc[p] = "writing" /\ pc'[p] = "committed" /\ begun[p] = "finished"
         => rows' = Projection(orders)]_vars

\* A rebuild that races submissions may set a seat's Recap cursor back, but it
\* never moves it past a round the seat has not seen (D52).
CursorNeverAhead == \A s \in Seats : cursor[s] <= SeenRounds(orders)[s]

\* No rebuild waits forever: not for one that failed, died or waits for it.
EveryRebuildEnds ==
  \A p \in Rebuilders :
    pc[p] = "loaded" ~> pc[p] \in {"idle", "done", "failed"}
===============================================================================
