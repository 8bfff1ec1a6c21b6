------------------------------ MODULE Matches ------------------------------
(***************************************************************************)
(* store.CreateMatch and store.LoadMatch (matches.go), the configuration   *)
(* codec between them (config_codec.go) and game.Config.Validate: creators *)
(* write a match and its seats in one transaction, loaders read them with  *)
(* two statements of their own snapshots, all at once, any of them failing *)
(* anywhere.                                                               *)
(*                                                                         *)
(* JSON is abstracted to the keys the decoder counts; a token and its hash *)
(* to a number drawn once.                                                 *)
(***************************************************************************)
EXTENDS Integers, Sequences, FiniteSets

CONSTANTS Creators, Loaders,
          Configs,    \* [rounds, caps, maps, attempts, balance, weights]
          Rosters,    \* sequences of seats
          MaxInt,     \* the largest int
          MaxMatches  \* bound: transactions begun

PlayerCounts == 2 .. 5
EventCardsDrawn == 12
IncidentCardsDrawn == 13
Greater(a, b) == IF a > b THEN a ELSE b

\* The running total of OfferWeight never passes the largest int.
WeightsFit(w) ==
  /\ \A i \in DOMAIN w : w[i] >= 1
  /\ LET total[i \in 0 .. Len(w)] == IF i = 0 THEN 0 ELSE total[i - 1] + w[i]
     IN  \A i \in DOMAIN w : w[i] <= MaxInt - total[i - 1]

Validate(cfg, players) ==
  /\ cfg.rounds >= 1
  /\ Greater(cfg.rounds - 3, 0) <= EventCardsDrawn
  /\ Greater(cfg.rounds - 2, 0) <= IncidentCardsDrawn
  /\ players \in cfg.caps /\ players \in cfg.maps
  /\ cfg.attempts >= 1 /\ cfg.balance >= 0
  /\ WeightsFit(cfg.weights)

\* The strict decoder of version 1: exact keys, exact lengths.
DecodeConfigV1(cfg) == /\ cfg.caps = PlayerCounts /\ cfg.maps = PlayerCounts
                       /\ Len(cfg.weights) = 4

\* What EncodeConfig accepts is exactly what DecodeConfig will accept.
EncodeConfig(cfg) == IF DecodeConfigV1(cfg) THEN [v |-> 1, config |-> cfg] ELSE [v |-> 0]
DecodeConfig(payload) == payload.v = 1 /\ DecodeConfigV1(payload.config)

NoTx == [id |-> 0, payload |-> [v |-> 0], rows |-> <<>>]
NoAnswer == [kind |-> "none"]

VARIABLES stored,  \* stored[id]: the committed match, its payload and seats
          asked,   \* history: asked[id], what its creator asked for
          begun,   \* how many matches have been begun: the next id
          drawn,   \* how many tokens have been drawn
          creator, \* creator[c]: its place, request, open transaction, tokens, answer
          loader   \* loader[l]: its place, match, what GetMatch gave, answer
vars == <<stored, asked, begun, drawn, creator, loader>>

Idle == [pc |-> "idle", cfg |-> "none", roster |-> <<>>, tx |-> NoTx,
         tokens |-> <<>>, answer |-> NoAnswer]
IdleLoader == [pc |-> "idle", id |-> 0, payload |-> [v |-> 0], answer |-> NoAnswer]

Init == /\ stored = <<>> /\ asked = <<>> /\ begun = 0 /\ drawn = 0
        /\ creator = [c \in Creators |-> Idle]
        /\ loader = [l \in Loaders |-> IdleLoader]

\* `f` with one more entry.
With(f, x, y) == [z \in DOMAIN f \cup {x} |-> IF z = x THEN y ELSE f[z]]

Refuses(cfg, roster) == \/ roster = <<>> \/ ~ Validate(cfg, Len(roster))
                        \/ EncodeConfig(cfg).v = 0

\* CreateMatch: what cannot be served never reaches the database.
Begin(c, cfg, roster) ==
  /\ creator[c].pc = "idle" /\ begun < MaxMatches
  /\ creator' = [creator EXCEPT ![c] =
       IF Refuses(cfg, roster)
         THEN [Idle EXCEPT !.answer = [kind |-> "error"]]
         ELSE [Idle EXCEPT !.pc = "match", !.cfg = cfg, !.roster = roster]]
  /\ UNCHANGED <<stored, asked, begun, drawn, loader>>

\* Mutant: the match's row commits on its own, ahead of its seats.
InsertMatchAlone(c) ==
  /\ creator[c].pc = "match" /\ begun < MaxMatches
  /\ begun' = begun + 1
  /\ asked' = With(asked, begun + 1, [cfg |-> creator[c].cfg, roster |-> creator[c].roster])
  /\ stored' = With(stored, begun + 1, [payload |-> EncodeConfig(creator[c].cfg), rows |-> <<>>])
  /\ creator' = [creator EXCEPT ![c].pc = "seats",
                   ![c].tx = [id |-> begun + 1, payload |-> EncodeConfig(creator[c].cfg),
                              rows |-> <<>>]]
  /\ UNCHANGED <<drawn, loader>>

\* INSERT INTO matches, inside the transaction.
InsertMatch(c) ==
  /\ creator[c].pc = "match" /\ begun < MaxMatches
  /\ begun' = begun + 1
  /\ asked' = With(asked, begun + 1, [cfg |-> creator[c].cfg, roster |-> creator[c].roster])
  /\ creator' = [creator EXCEPT ![c].pc = "seats",
                   ![c].tx = [id |-> begun + 1, payload |-> EncodeConfig(creator[c].cfg),
                              rows |-> <<>>]]
  /\ UNCHANGED <<stored, drawn, loader>>

\* One seat: a fresh token, its hash in the row, the token itself kept aside.
InsertSeat(c) ==
  LET i == Len(creator[c].tx.rows) + 1 IN
  /\ creator[c].pc = "seats" /\ i <= Len(creator[c].roster)
  /\ drawn' = drawn + 1
  /\ creator' = [creator EXCEPT
       ![c].tx.rows = Append(@, [seat |-> i - 1, who |-> creator[c].roster[i], hash |-> drawn]),
       ![c].tokens = Append(@, drawn)]
  /\ UNCHANGED <<stored, asked, begun, loader>>

\* The commit; its answer may be lost, and then so are the tokens.
Commit(c) ==
  LET tx == creator[c].tx IN
  /\ creator[c].pc = "seats" /\ Len(tx.rows) = Len(creator[c].roster)
  /\ stored' = With(stored, tx.id, [payload |-> tx.payload, rows |-> tx.rows])
  /\ \E answer \in {[kind |-> "created", id |-> tx.id, tokens |-> creator[c].tokens],
                    [kind |-> "error"]} :
        creator' = [creator EXCEPT ![c] = [Idle EXCEPT !.answer = answer]]
  /\ UNCHANGED <<asked, begun, drawn, loader>>

\* A statement fails, the context ends or the process dies: Rollback.
Abort(c) ==
  /\ creator[c].pc # "idle"
  /\ creator' = [creator EXCEPT ![c] = [Idle EXCEPT !.answer = [kind |-> "error"]]]
  /\ UNCHANGED <<stored, asked, begun, drawn, loader>>

\* LoadMatch, first statement: the match's own row.
GetMatch(l, id) ==
  /\ loader[l].pc = "idle"
  /\ loader' = [loader EXCEPT ![l] =
       IF id \notin DOMAIN stored
         THEN [IdleLoader EXCEPT !.id = id, !.answer = [kind |-> "absent"]]
       ELSE IF DecodeConfig(stored[id].payload)
         THEN [IdleLoader EXCEPT !.id = id, !.pc = "seats", !.payload = stored[id].payload]
         ELSE [IdleLoader EXCEPT !.id = id, !.answer = [kind |-> "error"]]]
  /\ UNCHANGED <<stored, asked, begun, drawn, creator>>

\* seatsFromRows: the rows, in order of seat, are 0, 1, 2 ... with no gap.
SeatsFromRows(rows) == \A i \in 1 .. Len(rows) : rows[i].seat = i - 1

\* Second statement: the seats, and the configuration checked against them.
ListMatchPlayers(l) ==
  LET rows == stored[loader[l].id].rows
      cfg == loader[l].payload.config
  IN
  /\ loader[l].pc = "seats"
  /\ loader' = [loader EXCEPT ![l] =
       [IdleLoader EXCEPT !.id = loader[l].id, !.answer =
         IF SeatsFromRows(rows) /\ Validate(cfg, Len(rows))
           THEN [kind |-> "loaded", cfg |-> cfg, roster |-> [i \in 1 .. Len(rows) |-> rows[i].who]]
           ELSE [kind |-> "error"]]]
  /\ UNCHANGED <<stored, asked, begun, drawn, creator>>

Next == \/ \E c \in Creators : \/ \E cfg \in Configs, r \in Rosters : Begin(c, cfg, r)
                               \/ InsertMatch(c) \/ InsertSeat(c) \/ Commit(c) \/ Abort(c)
        \/ \E l \in Loaders : \/ \E id \in 1 .. MaxMatches : GetMatch(l, id)
                              \/ ListMatchPlayers(l)

Spec == Init /\ [][Next]_vars

-----------------------------------------------------------------------------
\* Whatever fails or overlaps, a match that can be found can be loaded, and is
\* what its creator asked for: what CreateMatch lets in, LoadMatch's decoder and
\* second Validate let out, and no reader sees a match without its seats.
LoadedAsCreated ==
  \A l \in Loaders : LET a == loader[l].answer IN
    /\ a.kind # "error"
    /\ a.kind = "loaded" => [cfg |-> a.cfg, roster |-> a.roster] = asked[loader[l].id]

\* The tokens handed back once are the ones whose hashes the seats hold, seat by
\* seat, and nobody else's (CreateMatch, newUnsubscribeTokenHash).
TokensFit ==
  \A c \in Creators : LET a == creator[c].answer IN
    a.kind = "created" =>
      /\ a.id \in DOMAIN stored
      /\ a.tokens = [i \in 1 .. Len(stored[a.id].rows) |-> stored[a.id].rows[i].hash]
      /\ \A id \in DOMAIN stored \ {a.id} : \A i \in 1 .. Len(stored[id].rows) :
            \A j \in 1 .. Len(a.tokens) : stored[id].rows[i].hash # a.tokens[j]
=============================================================================
