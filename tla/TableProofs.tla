------------------------------- MODULE TableProofs ------------------------------
(***************************************************************************)
(* For any map, any decks and any number of players: a seat is judged by   *)
(* what it was shown, some Border stays open, and a modifier serves the    *)
(* round after its card and no other (City).  And for any cards and deeds: *)
(* a seat Knows the ground it stands on, its view shows only what it had   *)
(* in sight, and its Heat Map counts what happened where it looked (Sight).*)
(***************************************************************************)
EXTENDS Table, FiniteSetTheorems, WellFoundedInduction, TLAPS

\* Among sets of members of a finite set, one contains no other.
LEMMA HasMinimal ==
  ASSUME NEW S, IsFiniteSet(S), NEW T, T \subseteq SUBSET S, T # {}
  PROVE  \E x \in T : \A y \in T : ~(<<y, x>> \in StrictSubsetOrdering(S))
<1>1. IsWellFoundedOn(StrictSubsetOrdering(S), FiniteSubsetsOf(S))
  BY FS_StrictSubsetOrderingWellFounded
<1>2. T \subseteq FiniteSubsetsOf(S)
  BY FS_Subset DEF FiniteSubsetsOf
<1> QED  BY <1>1, <1>2, WFMin

\* A non-empty finite set of numbers has a least member: of the sets of what
\* lies below each member, one contains no other.
LEMMA HasLeast ==
  ASSUME NEW S \in SUBSET Nat, S # {}, IsFiniteSet(S)
  PROVE  \E b \in S : \A c \in S : b <= c
<1> DEFINE Below(b) == {c \in S : c < b}
           Belows   == {Below(b) : b \in S}
<1>2. Belows \subseteq SUBSET S /\ Belows # {}
  OBVIOUS
<1>3. PICK T \in Belows : \A U \in Belows : ~(<<U, T>> \in StrictSubsetOrdering(S))
  <2> HIDE DEF Belows
  <2> QED  BY <1>2, HasMinimal
<1>4. PICK b \in S : T = Below(b)
  OBVIOUS
<1>5. ASSUME NEW c \in S, c < b
      PROVE  FALSE
  <2>0. c \in Nat /\ b \in Nat /\ ~(c < c)
    OBVIOUS
  <2>a. ASSUME NEW d \in S, d < c
        PROVE  d < b
    <3>1. d \in Nat
      OBVIOUS
    <3> QED  BY <1>5, <2>0, <2>a, <3>1
  <2>1. Below(c) \subseteq Below(b) /\ c \in Below(b) /\ c \notin Below(c)
    BY <1>5, <2>0, <2>a
  <2>2. Below(c) \in SUBSET S /\ Below(b) \in SUBSET S /\ Below(c) # Below(b)
    BY <2>1
  <2>3. <<Below(c), Below(b)>> \in StrictSubsetOrdering(S)
    <3> HIDE DEF Below
    <3> QED  BY <2>1, <2>2 DEF StrictSubsetOrdering
  <2> QED  BY <1>3, <1>4, <2>3
<1> QED  BY <1>5

\* The safety valve: rotation and Dragnet never shut every Border of a map
\* that has one (borders.go, blockedBordersThisRound).
LEMMA ValveReopens ==
  ASSUME NEW borders \in SUBSET Nat, borders # {}, IsFiniteSet(borders),
         NEW r, NEW players, NEW sealed \in SUBSET borders
  PROVE  borders \ BlockedBorders(borders, r, players, sealed) # {}
<1> DEFINE shut == sealed \cup InactiveBorders(borders, r, players)
<1>1. shut \subseteq borders
  BY DEF InactiveBorders
<1>2. CASE shut = borders
  <2>1. Lowest(borders) \in borders
    BY HasLeast DEF Lowest
  <2> QED  BY <1>2, <2>1 DEF BlockedBorders
<1>3. CASE shut # borders
  BY <1>1, <1>3 DEF BlockedBorders
<1> QED  BY <1>2, <1>3

-------------------------------------------------------------------------------
Phases == {"closed", "walk", "act", "claim", "deliver", "event", "incident", "upkeep"}

\* The modifiers n are those the cards in C left.
LeftBy(n, C) ==
  /\ (n.scaffolding # NoSector) <=> "scaffolding" \in C
  /\ n.retainer <=> "retainer" \in C
  /\ n.blackout <=> "blackout" \in C
  /\ n.strike <=> "strike" \in C

ModifierType == [scaffolding : Nat, retainer : BOOLEAN, blackout : BOOLEAN, strike : BOOLEAN]

\* No card is dealt twice; where each phase finds the modifiers, and why.
DeckInv ==
  /\ DOMAIN eventDeck \subseteq Nat \ {0}
  /\ \A i, j \in DOMAIN eventDeck : eventDeck[i] = eventDeck[j] => i = j

ModifierInv ==
  /\ next \in ModifierType /\ entryNext \in ModifierType
  /\ phase = "closed" => LeftBy(next, {EventCard(round)})
  /\ phase \in {"walk", "act", "claim", "deliver", "event"} =>
       next = entryNext /\ LeftBy(next, {EventCard(round - 1)})
  /\ phase \in {"incident", "upkeep"} =>
       /\ LeftBy(entryNext, {EventCard(round - 1)})
       /\ LeftBy(next, {EventCard(round - 1), EventCard(round)})

ViewInv ==
  /\ phase = "closed" =>
       shown = [s \in Seats |-> Promise(s, round + 1, flags[s], next, where[s], cargo[s])]
  /\ ShownIsGranted

CityInv ==
  /\ round \in Nat /\ phase \in Phases
  /\ DeckInv /\ ModifierInv /\ ViewInv /\ SomeBorderOpen

-------------------------------------------------------------------------------
\* Two rounds running never have the same card.
LEMMA CardsDiffer ==
  ASSUME DeckInv, NEW r \in Nat, EventCard(r) = EventCard(r - 1)
  PROVE  EventCard(r) = NoCard
BY CityAssumption DEF DeckInv, EventCard, CardAt

\* The decks as dealt.
LEMMA InitHolds == Init => CityInv
<1> SUFFICES ASSUME Init PROVE CityInv
  OBVIOUS
<1>1. round \in Nat /\ phase \in Phases
  BY DEF Init, Phases
<1>2. DeckInv
  <2>0. PICK p \in EventPools : eventDeck \in ShuffleConstrained(p, EventQuota)
    BY DEF Init
  <2>1. PICK T \in SUBSET p : eventDeck \in Orders(T)
    BY <2>0 DEF ShuffleConstrained
  <2>2. Cardinality(T) \in Nat
    BY CityAssumption, FS_Subset, FS_CardinalityType
  <2> QED  BY <2>1, <2>2 DEF DeckInv, Orders
<1>3. ModifierInv
  <2>1. EventCard(0) = NoCard
    BY <1>2, CityAssumption DEF DeckInv, EventCard, CardAt
  <2> QED  BY <2>1 DEF ModifierInv, Init, NoModifier, ModifierType, LeftBy, NoSector, NoCard
<1>4. ViewInv
  BY DEF ViewInv, ShownIsGranted, Init
<1>5. SomeBorderOpen
  BY CityAssumption DEF SomeBorderOpen, Init
<1> QED  BY <1>1, <1>2, <1>3, <1>4, <1>5 DEF CityInv

-------------------------------------------------------------------------------
(* The steps.                                                                *)

\* OpenRound: the order is judged by what was shown, on the modifiers that
\* stood, with some Border open.
LEMMA OpenRoundKeeps == CityInv /\ OpenRound => CityInv'
<1> SUFFICES ASSUME CityInv, OpenRound PROVE CityInv'
  OBVIOUS
<1> USE DEF CityInv, OpenRound
<1>1. round' \in Nat /\ phase' \in Phases /\ DeckInv'
  BY DEF Phases, DeckInv, decks
<1>2. EventCard(round)' = EventCard(round + 1)
  BY DEF EventCard, CardAt, decks
<1>3. EventCard(round - 1)' = EventCard(round)
  BY DEF EventCard, CardAt, decks
<1>4. ModifierInv'
  BY <1>3 DEF ModifierInv, LeftBy, ModifierType
<1>5. ViewInv'
  <2>1. ASSUME NEW s \in Seats
        PROVE  granted'[s].steps = shown[s].steps /\ granted'[s].strike = shown[s].strike
    BY DEF ViewInv, Judged, JudgedBy, Promise, Terms, CardAhead
  <2>2. ASSUME NEW s \in Seats, NEW length \in 0 .. shown[s].steps
        PROVE  Verdict(length, granted'[s]) = "legal"
    BY <2>1 DEF Verdict
  <2> QED  BY <2>1, <2>2 DEF ViewInv, ShownIsGranted, Verdict
<1>6. SomeBorderOpen'
  <2>1. PICK b \in Seals : blocked' = BlockedBorders(BorderIDs, round + 1, NumSeats, b)
    OBVIOUS
  <2>2. b \in SUBSET BorderIDs
    BY DEF Seals
  <2>3. BorderIDs \in SUBSET Nat /\ BorderIDs # {} /\ IsFiniteSet(BorderIDs)
    BY CityAssumption, FS_Subset DEF BorderIDs
  <2> QED  BY <2>1, <2>2, <2>3, ValveReopens DEF SomeBorderOpen
<1> QED  BY <1>1, <1>4, <1>5, <1>6

\* The steps that leave the modifiers, the cards and the judgement alone: they
\* stay within the phases that read them.
LEMMA QuietKeeps ==
  ASSUME CityInv,
         UNCHANGED <<round, decks, next, entryNext, granted, blocked, shown>>,
         phase \in {"walk", "act", "claim", "deliver"},
         phase' \in {"walk", "act", "claim", "deliver", "event"},
         phase' = "walk" => phase = "walk"
  PROVE  CityInv'
<1> USE DEF CityInv
<1>1. round' \in Nat /\ phase' \in Phases /\ DeckInv' /\ SomeBorderOpen'
  BY DEF Phases, DeckInv, decks, SomeBorderOpen
<1>2. EventCard(round - 1)' = EventCard(round - 1)
  BY DEF EventCard, CardAt, decks
<1>3. ModifierInv'
  BY <1>2 DEF ModifierInv, LeftBy, ModifierType
<1>4. ViewInv'
  BY DEF ViewInv, ShownIsGranted
<1> QED  BY <1>1, <1>3, <1>4

\* GlobalEvent: the card of the round adds its own modifier, and no other.
LEMMA GlobalEventKeeps == CityInv /\ GlobalEvent => CityInv'
<1> SUFFICES ASSUME CityInv, GlobalEvent PROVE CityInv'
  OBVIOUS
<1> USE DEF CityInv
<1>1. round' \in Nat /\ phase' \in Phases /\ DeckInv' /\ SomeBorderOpen' /\ ViewInv'
  BY DEF GlobalEvent, Phases, DeckInv, decks, SomeBorderOpen, ViewInv, ShownIsGranted
<1>2. /\ EventCard(round - 1)' = EventCard(round - 1)
      /\ EventCard(round)' = EventCard(round)
  BY DEF GlobalEvent, EventCard, CardAt, decks
<1>3. next = entryNext /\ LeftBy(next, {EventCard(round - 1)})
  BY DEF GlobalEvent, ModifierInv
<1>4. LeftBy(next', {EventCard(round - 1), EventCard(round)}) /\ next' \in ModifierType
  <2>0. next \in ModifierType
    BY DEF ModifierInv
  <2>1. CASE Retainer
    BY <1>3, <2>0, <2>1 DEF Retainer, OnlyModifiers, LeftBy, ModifierType
  <2>2. CASE Blackout
    BY <1>3, <2>0, <2>2 DEF Blackout, OnlyModifiers, LeftBy, ModifierType
  <2>3. CASE DockersStrike
    BY <1>3, <2>0, <2>3 DEF DockersStrike, OnlyModifiers, LeftBy, ModifierType
  <2>4. CASE Scaffolding
    <3>1. PICK sector \in Sectors : next' = [next EXCEPT !.scaffolding = sector]
      BY <2>4 DEF Scaffolding, OnlyModifiers
    <3>2. sector \in Nat /\ sector # NoSector
      BY CityAssumption DEF NoSector
    <3> QED  BY <1>3, <2>0, <2>4, <3>1, <3>2 DEF Scaffolding, LeftBy, ModifierType
  <2>5. CASE BridgeDown
    BY <1>3, <2>0, <2>5 DEF BridgeDown, LeftBy
  <2>6. CASE FencesWindfall
    BY <1>3, <2>0, <2>6 DEF FencesWindfall, LeftBy
  <2>7. CASE DeadRunner
    BY <1>3, <2>0, <2>7 DEF DeadRunner, LeftBy
  <2>8. CASE NoEvent
    BY <1>3, <2>0, <2>8 DEF NoEvent, NoCard, LeftBy
  <2> QED  BY <2>1, <2>2, <2>3, <2>4, <2>5, <2>6, <2>7, <2>8 DEF GlobalEvent
<1>5. ModifierInv'
  <2>1. entryNext' = entryNext /\ phase' = "incident"
    BY DEF GlobalEvent
  <2>2. entryNext \in ModifierType
    BY DEF ModifierInv
  <2> QED  BY <1>2, <1>3, <1>4, <2>1, <2>2 DEF ModifierInv, LeftBy
<1> QED  BY <1>1, <1>5

\* An incident drawn keeps the map and its modifiers.
LEMMA IncidentKeeps == CityInv /\ Incident => CityInv'
<1> SUFFICES ASSUME CityInv, Incident PROVE CityInv'
  OBVIOUS
<1> USE DEF CityInv
<1>1. UNCHANGED <<round, eventDeck, next, entryNext, blocked>> /\ phase = "incident" /\ phase' = "upkeep"
  BY DEF Incident, decks
<1>2. round' \in Nat /\ phase' \in Phases /\ DeckInv' /\ SomeBorderOpen' /\ ViewInv'
  BY <1>1 DEF Phases, DeckInv, SomeBorderOpen, ViewInv, ShownIsGranted
<1>3. /\ EventCard(round - 1)' = EventCard(round - 1)
      /\ EventCard(round)' = EventCard(round)
  BY <1>1 DEF EventCard, CardAt
<1>4. ModifierInv'
  BY <1>1, <1>3 DEF ModifierInv, LeftBy, ModifierType
<1> QED  BY <1>2, <1>4

\* Upkeep: the last round's modifier goes, this round's stays, because the two
\* cards differ.
LEMMA UpkeepKeeps == CityInv /\ Upkeep => CityInv'
<1> SUFFICES ASSUME CityInv, Upkeep PROVE CityInv'
  OBVIOUS
<1> USE DEF CityInv
<1>1. UNCHANGED <<round, eventDeck, entryNext, blocked>> /\ phase = "upkeep"
      /\ phase' = "closed" /\ next' = Spent
  BY DEF Upkeep, decks
<1>2. round' \in Nat /\ phase' \in Phases /\ DeckInv' /\ SomeBorderOpen'
  BY <1>1 DEF Phases, DeckInv, SomeBorderOpen
<1>3. ViewInv'
  BY <1>1 DEF Upkeep, ViewInv, ShownIsGranted, Promise, Terms, CardAhead, EventCard, CardAt, decks
<1>4. EventCard(round)' = EventCard(round)
  BY <1>1 DEF EventCard, CardAt
<1>5. EventCard(round) = EventCard(round - 1) => EventCard(round) = NoCard
  BY CardsDiffer
<1>6. Spent \in ModifierType /\ LeftBy(Spent, {EventCard(round)})
  <2>1. /\ next \in ModifierType /\ entryNext \in ModifierType
        /\ LeftBy(entryNext, {EventCard(round - 1)})
        /\ LeftBy(next, {EventCard(round - 1), EventCard(round)})
    BY <1>1 DEF ModifierInv
  <2> QED  BY <1>5, <2>1 DEF Spent, ModifierType, LeftBy, NoSector, NoCard
<1>7. ModifierInv'
  BY <1>1, <1>4, <1>6 DEF ModifierInv, LeftBy, ModifierType
<1> QED  BY <1>2, <1>3, <1>7

\* Nothing changes in a step of nothing.
LEMMA StutterKeeps == CityInv /\ UNCHANGED vars => CityInv'
BY DEF CityInv, vars, decks, Phases, DeckInv, ModifierInv, LeftBy, ModifierType, ViewInv,
       ShownIsGranted, SomeBorderOpen, EventCard, CardAt, Promise, Terms, CardAhead, rulings

\* Every step of a round keeps the invariant.
LEMMA NextKeeps == CityInv /\ [Next]_vars => CityInv'
<1> SUFFICES ASSUME CityInv, [Next]_vars PROVE CityInv'
  OBVIOUS
<1>1. CASE OpenRound
  BY <1>1, OpenRoundKeeps
<1>2. ASSUME NEW s \in Seats, Walk(s) PROVE CityInv'
  BY <1>2, QuietKeeps DEF Walk, rulings
<1>3. ASSUME NEW s \in Seats, Act(s) PROVE CityInv'
  BY <1>3, QuietKeeps DEF Act, rulings
<1>4. CASE Claim
  BY <1>4, QuietKeeps DEF Claim, rulings
<1>5. CASE Deliver
  BY <1>5, QuietKeeps DEF Deliver
<1>6. CASE GlobalEvent
  BY <1>6, GlobalEventKeeps
<1>7. CASE Incident
  BY <1>7, IncidentKeeps
<1>8. CASE Upkeep
  BY <1>8, UpkeepKeeps
<1>9. CASE UNCHANGED vars
  BY <1>9, StutterKeeps
<1> QED  BY <1>1, <1>2, <1>3, <1>4, <1>5, <1>6, <1>7, <1>8, <1>9 DEF Next

-------------------------------------------------------------------------------
\* An order is judged by the allowance its seat was shown, for any decks, map
\* and number of seats (fog.go, projectSelf; validate.go, legalView).
THEOREM JudgedAsShown == Spec => []ShownIsGranted
<1>1. CityInv => ShownIsGranted
  BY DEF CityInv, ViewInv
<1> QED  BY InitHolds, NextKeeps, <1>1, PTL DEF Spec

\* A card's modifier serves the round after it and no other, whatever the
\* decks (events.go, globalEvent; upkeep.go, upkeepNextRoundModifiers).
THEOREM OneRoundEach == Spec => []ModifiersServeOneRound
<1>1. CityInv => ModifiersServeOneRound
  BY DEF CityInv, ModifierInv, LeftBy, ModifiersServeOneRound, Left
<1> QED  BY InitHolds, NextKeeps, <1>1, PTL DEF Spec

\* Some Border takes deliveries in every round, on any map with a Border
\* (borders.go, blockedBordersThisRound).
THEOREM NeverAllShut == Spec => []SomeBorderOpen
<1>1. CityInv => SomeBorderOpen
  BY DEF CityInv
<1> QED  BY InitHolds, NextKeeps, <1>1, PTL DEF Spec

-------------------------------------------------------------------------------
(* Fence's Windfall.                                                         *)

\* The card has been dealt by round r; the last round whose event has come.
DealtBy(r) == \E i \in DOMAIN eventDeck : eventDeck[i] = "windfall" /\ i <= r - FirstEvent + 1
Dealt      == DealtBy(IF phase \in {"incident", "upkeep", "closed"} THEN round ELSE round - 1)

\* Until its card is dealt there is no offer and no claim; from then on there is
\* one offer that stands, or one claim, and no second card.
PaidInv ==
  \/ claims = 0 /\ windfall = {}
  \/ Dealt /\ (\/ claims = 1 /\ windfall = {}
               \/ claims = 0 /\ \E n \in Nodes : windfall = {n})

\* A step that leaves the deck, the offer and the claims keeps their account, so
\* long as no event is taken back.
LEMMA PaidStays ==
  ASSUME CityInv, PaidInv, UNCHANGED <<eventDeck, windfall, claims>>, round' \in Nat, Dealt => Dealt'
  PROVE  PaidInv'
BY DEF PaidInv

\* What is dealt stays dealt, as rounds and phases go on.
LEMMA DealtStays ==
  ASSUME CityInv, UNCHANGED eventDeck, round' = round,
         phase \in {"incident", "upkeep", "closed"} => phase' \in {"incident", "upkeep", "closed"}
  PROVE  Dealt => Dealt'
BY CityAssumption DEF CityInv, DeckInv, Dealt, DealtBy

\* The card's own round: it was not dealt before, so nothing is offered or paid.
LEMMA OfferedOnce ==
  ASSUME CityInv, PaidInv, phase = "event", EventCard(round) = "windfall"
  PROVE  /\ claims = 0 /\ windfall = {}
         /\ DealtBy(round)
<1>1. PICK i : i = round - FirstEvent + 1
  OBVIOUS
<1>2. i \in DOMAIN eventDeck /\ eventDeck[i] = "windfall"
  BY <1>1 DEF EventCard, CardAt, NoCard
<1>3. ~ DealtBy(round - 1)
  <2> SUFFICES ASSUME NEW j \in DOMAIN eventDeck, eventDeck[j] = "windfall", j <= round - 1 - FirstEvent + 1
               PROVE  FALSE
    BY DEF DealtBy
  <2>1. j = i
    BY <1>2 DEF CityInv, DeckInv
  <2>2. j \in Nat /\ round \in Nat /\ FirstEvent \in Nat
    BY CityAssumption DEF CityInv, DeckInv
  <2> QED  BY <1>1, <2>1, <2>2
<1>4. DealtBy(round)
  <2>1. i \in Nat /\ i <= round - FirstEvent + 1
    BY <1>1, <1>2 DEF CityInv, DeckInv
  <2> QED  BY <1>2, <2>1 DEF DealtBy
<1> QED  BY <1>3, <1>4 DEF PaidInv, Dealt

\* No step pays twice, nor offers what was paid.
LEMMA PaidKeeps == CityInv /\ PaidInv /\ [Next]_vars => PaidInv'
<1> SUFFICES ASSUME CityInv, PaidInv, [Next]_vars PROVE PaidInv'
  OBVIOUS
<1>0. round \in Nat
  BY DEF CityInv
<1>1. CASE OpenRound
  <2>1. /\ phase = "closed" /\ phase' = "walk" /\ round' = round + 1
        /\ UNCHANGED <<eventDeck, windfall, claims>>
    BY <1>1 DEF OpenRound, decks, map
  <2>2. round' - 1 = round
    BY <1>0, <2>1
  <2>3. Dealt => Dealt'
    BY <2>1, <2>2 DEF Dealt, DealtBy
  <2> QED  BY <1>0, <2>1, <2>3, PaidStays
<1>2. CASE \E s \in Seats : Walk(s) \/ Act(s)
  <2>1. /\ phase \in {"walk", "act"} /\ round' = round
        /\ UNCHANGED <<eventDeck, windfall, claims>>
    BY <1>2 DEF Walk, Act, decks, map
  <2> QED  BY <1>0, <2>1, DealtStays, PaidStays
<1>3. CASE Claim
  <2>1. /\ phase = "claim" /\ phase' = "deliver" /\ round' = round /\ UNCHANGED eventDeck
    BY <1>3 DEF Claim, decks
  <2>2. Dealt => Dealt'
    BY <2>1, DealtStays
  <2>3. CASE UNCHANGED <<windfall, claims>>
    BY <1>0, <2>1, <2>2, <2>3, PaidStays
  <2>4. CASE ~ UNCHANGED <<windfall, claims>>
    <3>1. PICK s \in Seats : /\ \E n \in windfall : where[s] = n
                             /\ windfall' = windfall \ {where[s]} /\ claims' = claims + 1
      BY <1>3, <2>4 DEF Claim, OfferClosed
    <3>2. PICK n \in Nodes : Dealt /\ claims = 0 /\ windfall = {n}
      BY <3>1 DEF PaidInv
    <3>3. windfall' = {} /\ claims' = 1
      BY <3>1, <3>2
    <3> QED  BY <2>2, <3>2, <3>3 DEF PaidInv
  <2> QED  BY <2>3, <2>4
<1>4. CASE Deliver
  <2>1. /\ phase = "deliver" /\ round' = round /\ UNCHANGED <<eventDeck, windfall, claims>>
    BY <1>4 DEF Deliver, decks, map
  <2> QED  BY <1>0, <2>1, DealtStays, PaidStays
<1>5. CASE GlobalEvent
  <2>1. phase = "event" /\ phase' = "incident" /\ round' = round /\ UNCHANGED <<eventDeck, claims>>
    BY <1>5 DEF GlobalEvent, decks
  <2>2. CASE UNCHANGED windfall
    <3>1. Dealt => Dealt'
      BY <2>1, DealtStays
    <3> QED  BY <1>0, <2>1, <2>2, <3>1, PaidStays
  <2>3. CASE FencesWindfall
    <3>1. PICK n \in Nodes : windfall' = windfall \cup {n}
      BY <2>3 DEF FencesWindfall
    <3>2. claims = 0 /\ windfall = {} /\ DealtBy(round)
      BY <2>1, <2>3, OfferedOnce DEF FencesWindfall
    <3>3. Dealt'
      BY <2>1, <3>2 DEF Dealt, DealtBy
    <3> QED  BY <2>1, <3>1, <3>2, <3>3 DEF PaidInv
  <2> QED  BY <1>5, <2>2, <2>3 DEF GlobalEvent, Retainer, Blackout, DockersStrike, Scaffolding, OnlyModifiers,
                                   BridgeDown, DeadRunner, NoEvent, map
<1>6. CASE Incident
  <2>1. /\ phase = "incident" /\ phase' = "upkeep" /\ round' = round
        /\ UNCHANGED <<eventDeck, windfall, claims>>
    BY <1>6 DEF Incident, decks, map
  <2> QED  BY <1>0, <2>1, DealtStays, PaidStays
<1>7. CASE Upkeep
  <2>1. /\ phase = "upkeep" /\ phase' = "closed" /\ round' = round
        /\ UNCHANGED <<eventDeck, windfall, claims>>
    BY <1>7 DEF Upkeep, decks, map
  <2> QED  BY <1>0, <2>1, DealtStays, PaidStays
<1>8. CASE UNCHANGED vars
  BY <1>8 DEF vars, decks, map, PaidInv, Dealt, DealtBy
<1> QED  BY <1>1, <1>2, <1>3, <1>4, <1>5, <1>6, <1>7, <1>8 DEF Next

\* A Windfall is claimed once for the one card that offers it, whoever arrives
\* and however long it waits (events.go, resolveFenceWindfallClaim).
THEOREM PaidOnce == Spec => []WindfallPaidOnce
<1>1. Init => PaidInv
  BY DEF Init, PaidInv
<1>2. CityInv /\ PaidInv => WindfallPaidOnce
  <2> SUFFICES ASSUME CityInv, PaidInv PROVE WindfallPaidOnce
    OBVIOUS
  <2>1. PICK offers : offers = {i \in DOMAIN eventDeck : eventDeck[i] = "windfall"}
    OBVIOUS
  <2>2. \A i, j \in offers : i = j
    BY <2>1 DEF CityInv, DeckInv
  <2>3. CASE offers = {}
    <3>1. claims = 0
      BY <2>1, <2>3 DEF PaidInv, Dealt, DealtBy
    <3>2. Cardinality(offers) = 0
      BY <2>3, FS_EmptySet
    <3> QED  BY <2>1, <3>1, <3>2 DEF WindfallPaidOnce
  <2>4. CASE offers # {}
    <3>1. PICK i : offers = {i}
      BY <2>2, <2>4
    <3>2. Cardinality(offers) = 1
      BY <3>1, FS_Singleton
    <3> QED  BY <2>1, <3>2 DEF PaidInv, WindfallPaidOnce
  <2> QED  BY <2>3, <2>4
<1> QED  BY <1>1, <1>2, InitHolds, NextKeeps, PaidKeeps, PTL DEF Spec

-------------------------------------------------------------------------------
(* What the seats see.                                                       *)

\* Sight's finite sets are those of the library.
LEMMA WatchFinite == \A T : W!IsFiniteSet(T) <=> IsFiniteSet(T)
BY DEF W!IsFiniteSet, IsFiniteSet

\* A seat retreats to a node of the map (incidents.go, retreatTowardSectorEdge).
LEMMA RetreatsOnTheMap ==
  ASSUME W!Setting, NEW n \in WatchNodes
  PROVE  W!Retreat(n) \in WatchNodes
<1> DEFINE exits == {m \in W!Neighbours(n) : WatchSectorOf[m] # sky.sector}
<1>1. exits \in SUBSET WatchNodes /\ exits \in SUBSET Nat /\ IsFiniteSet(exits)
  BY FS_Subset, WatchFinite DEF W!Setting, W!Neighbours
<1>2. CASE exits = {}
  BY <1>2 DEF W!Retreat
<1>3. CASE exits # {}
  <2>1. \E b \in exits : \A c \in exits : b <= c
    <3> HIDE DEF exits
    <3> QED  BY <1>1, <1>3, HasLeast
  <2> QED  BY <1>1, <1>3, <2>1 DEF W!Retreat
<1> QED  BY <1>2, <1>3

-------------------------------------------------------------------------------
(* The ground a seat stands on.                                              *)

\* Where seats stand, what they target and how much of the map each knows.
ShapeInv ==
  /\ sround \in Nat
  /\ sphase \in {"play", "trail", "incident", "closed"}
  /\ sphase # "closed" => sround > 0
  /\ swhere \in [W!Seats -> WatchNodes]
  /\ fog \in [W!Seats -> [WatchNodes -> W!Hidden .. W!InSight]]
  /\ DOMAIN turn = W!Seats
  /\ \A s \in W!Seats : turn[s].item \in {"decoy", "band"} => turn[s].at \in WatchNodes

\* What was looked at in sight is in the archive as long as the view shows it.
SeenInv ==
  sphase \in {"incident", "closed"} /\ sround > 0 =>
    \A s \in W!Seats, n \in WatchNodes :
      fog[s][n] = W!InSight => <<n, sround>> \in archive[s].sight \cup archive[s].obscured

StandInv == \A s \in W!Seats : fog[s][swhere[s]] >= W!Known

GroundInv == ShapeInv /\ StandInv

\* The last round whose trail was written.
Written == IF sphase \in {"play", "trail"} THEN sround - 1 ELSE sround

\* An archive with the trail log kept up to round last: no round of a node is both in sight
\* and obscured, only a logged one is obscured, and of those in sight the trail
\* tells the logged ones.
Fits(a, log, last) ==
  /\ a.sight \cup a.obscured \cup log \subseteq WatchNodes \X (1 .. last)
  /\ a.sight \cap a.obscured = {}
  /\ a.obscured \subseteq log
  /\ \A e \in a.trail : <<e.node, e.round>> \in a.sight
  /\ \A x \in a.sight : x \in log <=> \E e \in a.trail : x = <<e.node, e.round>>

ArchiveInv == \A s \in W!Seats : Fits(archive[s], logged, Written)

SightInv == GroundInv /\ SeenInv /\ ArchiveInv

-------------------------------------------------------------------------------
\* Learning of nodes forgets none, and brings none into sight.
LEMMA KnownGrows ==
  ASSUME NEW f \in [WatchNodes -> W!Hidden .. W!InSight], NEW S \in SUBSET WatchNodes
  PROVE  /\ W!MadeKnown(f, S) \in [WatchNodes -> W!Hidden .. W!InSight]
         /\ \A n \in WatchNodes : /\ f[n] >= W!Known \/ n \in S => W!MadeKnown(f, S)[n] >= W!Known
                                  /\ W!MadeKnown(f, S)[n] = W!InSight <=> f[n] = W!InSight
  BY DEF W!MadeKnown, W!Hidden, W!Known, W!InSight

\* A new look keeps what was Known, and puts in sight what is looked at alone.
LEMMA LookKeeps ==
  ASSUME NEW f \in [WatchNodes -> W!Hidden .. W!InSight], NEW S \in SUBSET WatchNodes
  PROVE  /\ W!Refogged(f, S) \in [WatchNodes -> W!Hidden .. W!InSight]
         /\ \A n \in WatchNodes : /\ f[n] >= W!Known \/ n \in S => W!Refogged(f, S)[n] >= W!Known
                                  /\ W!Refogged(f, S)[n] = W!InSight <=> n \in S
  BY DEF W!Refogged, W!Hidden, W!Known, W!InSight

\* What a seat looks at is on the map, the node it stands on among it.
LEMMA LooksAround ==
  ASSUME W!Setting, ShapeInv, NEW s \in W!Seats
  PROVE  W!SightOf(s) \in SUBSET WatchNodes /\ swhere[s] \in W!SightOf(s)
<1>1. \A n \in WatchNodes : W!Neighbours(n) \subseteq WatchNodes /\ W!WithinTwo(n) \subseteq WatchNodes
  BY DEF W!Neighbours, W!WithinTwo
<1>2. swhere[s] \in WatchNodes /\ PostsOf[s] \subseteq WatchNodes
  BY DEF W!Setting, ShapeInv
<1>3. turn[s].item = "band" => turn[s].at \in WatchNodes
  BY DEF ShapeInv
<1> QED  BY <1>1, <1>2, <1>3 DEF W!SightOf

\* A walk is of nodes, and ends on one it enters.
LEMMA WalksTheMap ==
  ASSUME W!Setting, NEW s \in W!Seats, NEW path \in W!Walks(s)
  PROVE  /\ {path[i] : i \in 1 .. Len(path)} \in SUBSET WatchNodes
         /\ W!Ending(path) \in {path[i] : i \in 1 .. Len(path)}
<1>1. PICK k \in 1 .. MaxSteps : path \in [1 .. k -> WatchNodes]
  BY DEF W!Walks
<1>2. k \in Nat /\ k >= 1 /\ path \in Seq(WatchNodes) /\ Len(path) = k
  BY <1>1 DEF W!Setting
<1> QED  BY <1>1, <1>2 DEF W!Ending

LEMMA StartsInSight == W!Setting /\ W!Init => SightInv
<1> SUFFICES ASSUME W!Setting, W!Init PROVE SightInv
  OBVIOUS
<1>1. ShapeInv
  <2>1. swhere \in [W!Seats -> WatchNodes]
    BY DEF W!Setting, W!Init
  <2>2. \A s \in W!Seats :
         /\ fog[s] = W!OpeningFog(WatchHomes[s])
         /\ W!OpeningFog(WatchHomes[s]) \in [WatchNodes -> W!Hidden .. W!InSight]
    BY DEF W!Init, W!OpeningFog, W!Hidden, W!Known, W!InSight
  <2>3. fog \in [W!Seats -> [WatchNodes -> W!Hidden .. W!InSight]]
    BY <2>2 DEF W!Init
  <2>4. DOMAIN turn = W!Seats /\ \A s \in W!Seats : turn[s].item = "none"
    BY DEF W!Init, W!NoTurn
  <2> QED  BY <2>1, <2>3, <2>4 DEF W!Init, ShapeInv
<1>2. StandInv
  <2> SUFFICES ASSUME NEW s \in W!Seats PROVE fog[s][swhere[s]] >= W!Known
    BY DEF StandInv
  <2>1. swhere[s] \in WatchNodes /\ fog[s][swhere[s]] = W!InSight
    BY DEF W!Setting, W!Init, W!OpeningFog
  <2> QED  BY <2>1 DEF W!Known, W!InSight
<1>3. SeenInv
  BY DEF W!Init, SeenInv
<1>4. ArchiveInv
  <2> SUFFICES ASSUME NEW s \in W!Seats PROVE Fits(archive[s], logged, Written)
    BY DEF ArchiveInv
  <2>1. archive[s].sight = {} /\ archive[s].obscured = {} /\ archive[s].trail = {} /\ logged = {}
    BY DEF W!Init
  <2> QED  BY <2>1 DEF Fits
<1> QED  BY <1>1, <1>2, <1>3, <1>4 DEF SightInv, GroundInv

\* Nothing that is seen changes while a round opens.
LEMMA OpeningKeeps == SightInv /\ W!OpenRound => SightInv'
<1> SUFFICES ASSUME SightInv, W!OpenRound PROVE SightInv'
  OBVIOUS
<1>1. /\ sphase = "closed" /\ sphase' = "play" /\ sround' = sround + 1
      /\ UNCHANGED <<swhere, fog, turn, archive, logged>>
  BY DEF W!OpenRound
<1>2. ShapeInv' /\ StandInv'
  BY <1>1 DEF SightInv, GroundInv, ShapeInv, StandInv
<1>3. SeenInv'
  BY <1>1 DEF SeenInv
<1>4. Written' = Written
  BY <1>1 DEF Written, SightInv, GroundInv, ShapeInv
<1>5. ArchiveInv'
  BY <1>1, <1>4 DEF SightInv, ArchiveInv, Fits
<1> QED  BY <1>2, <1>3, <1>5 DEF SightInv, GroundInv

\* A seat that walks Knows where it arrives; the trail is not written yet.
LEMMA PlayKeeps ==
  ASSUME W!Setting, SightInv, NEW s \in W!Seats, W!Play(s)
  PROVE  SightInv'
<1>1. PICK path \in W!Walks(s), deed \in Deeds[s] :
        /\ W!Aimed(s, deed)
        /\ turn' = [turn EXCEPT ![s] = [path |-> path, act |-> deed.act,
                                        item |-> deed.item, at |-> deed.at]]
        /\ swhere' = [swhere EXCEPT ![s] = W!Ending(path)]
        /\ fog' = [fog EXCEPT ![s] = W!MadeKnown(@, {path[i] : i \in 1 .. Len(path)})]
  BY DEF W!Play
<1>2. /\ sphase = "play" /\ sphase' \in {"play", "trail"}
      /\ UNCHANGED <<sround, archive, logged>>
  BY DEF W!Play
<1>3. ShapeInv /\ StandInv
  BY DEF SightInv, GroundInv
<1>4. PICK S \in SUBSET WatchNodes : S = {path[i] : i \in 1 .. Len(path)} /\ W!Ending(path) \in S
  BY WalksTheMap
<1>5. /\ W!MadeKnown(fog[s], S) \in [WatchNodes -> W!Hidden .. W!InSight]
      /\ \A n \in S : W!MadeKnown(fog[s], S)[n] >= W!Known
  <2>1. fog[s] \in [WatchNodes -> W!Hidden .. W!InSight]
    BY <1>3 DEF ShapeInv
  <2> QED  BY <2>1, KnownGrows
<1>6. ShapeInv'
  <2>1. /\ swhere' \in [W!Seats -> WatchNodes]
       /\ fog' \in [W!Seats -> [WatchNodes -> W!Hidden .. W!InSight]]
    BY <1>1, <1>3, <1>4, <1>5 DEF ShapeInv
  <2>2. deed.item \in {"decoy", "band"} => deed.at \in WatchNodes
    BY DEF W!Setting
  <2>3. DOMAIN turn' = W!Seats
    BY <1>1, <1>3 DEF ShapeInv
  <2>4. ASSUME NEW t \in W!Seats, turn'[t].item \in {"decoy", "band"}
        PROVE  turn'[t].at \in WatchNodes
    BY <1>1, <1>3, <2>2, <2>4 DEF ShapeInv
  <2> QED  BY <1>2, <1>3, <2>1, <2>3, <2>4 DEF ShapeInv
<1>7. StandInv'
  <2> SUFFICES ASSUME NEW t \in W!Seats PROVE fog'[t][swhere'[t]] >= W!Known
    BY DEF StandInv
  <2>1. CASE t = s
    BY <1>1, <1>3, <1>4, <1>5, <2>1 DEF ShapeInv
  <2>2. CASE t # s
    BY <1>1, <1>3, <2>2 DEF ShapeInv, StandInv
  <2> QED  BY <2>1, <2>2
<1>8. SeenInv'
  BY <1>2 DEF SeenInv
<1>9. ArchiveInv'
  <2>1. Written' = Written
    BY <1>2 DEF Written
  <2> QED  BY <1>2, <2>1 DEF SightInv, ArchiveInv, Fits
<1> QED  BY <1>6, <1>7, <1>8, <1>9 DEF SightInv, GroundInv

-------------------------------------------------------------------------------
(* The trail.                                                                *)

\* Entries that say where something happened.
Placed(E) == \A e \in E : e.node \in WatchNodes /\ "node" \in DOMAIN e

Places(E) == {e.node : e \in E}

\* All a round may leave in the trail, whoever fought.
LEMMA EntriesArePlaced ==
  ASSUME W!Setting, ShapeInv, NEW F \in SUBSET W!Meetings
  PROVE  Placed(W!CargoTakenAndDecoys \cup W!Tracks \cup W!Fights(F) \cup W!Loiterers \cup W!Purchases)
<1>1. \A kind, node, by, names :
        W!Entry(kind, node, by, names).node = node /\ "node" \in DOMAIN W!Entry(kind, node, by, names)
  BY DEF W!Entry
<1>2. \A s \in W!Seats : swhere[s] \in WatchNodes /\ (turn[s].item = "decoy" => turn[s].at \in WatchNodes)
  BY DEF ShapeInv
<1> HIDE DEF W!Seats
<1>3. Placed(W!CargoTakenAndDecoys)
  <2> SUFFICES ASSUME NEW e \in W!CargoTakenAndDecoys PROVE e.node \in WatchNodes /\ "node" \in DOMAIN e
    BY DEF Placed
  <2>1. PICK s \in W!Seats : \/ e = W!CargoEntry(swhere[s], s)
                             \/ turn[s].item = "decoy" /\ e = W!CargoEntry(turn[s].at, s)
    BY DEF W!CargoTakenAndDecoys
  <2>2. \A node : W!CargoEntry(node, s).node = node /\ "node" \in DOMAIN W!CargoEntry(node, s)
    BY <1>1 DEF W!CargoEntry
  <2> QED  BY <1>2, <2>1, <2>2
<1>4. Placed(W!Tracks)
  BY <1>1 DEF Placed, W!Tracks
<1>5. Placed(W!Fights(F))
  <2>1. \A f \in F : f[1] \in WatchNodes
    BY DEF W!Meetings
  <2> QED  BY <1>1, <2>1 DEF Placed, W!Fights
<1>6. Placed(W!Loiterers) /\ Placed(W!Purchases)
  <2> SUFFICES ASSUME NEW e \in W!Loiterers \cup W!Purchases
               PROVE  e.node \in WatchNodes /\ "node" \in DOMAIN e
    BY DEF Placed
  <2>1. PICK s \in W!Seats : \/ e = W!Entry("loiter", swhere[s], {s}, {})
                             \/ e = W!Entry("deal", swhere[s], {s}, W!Named(s, ItemNameFrom))
    BY DEF W!Loiterers, W!Purchases
  <2> QED  BY <1>1, <1>2, <2>1
<1> QED  BY <1>3, <1>4, <1>5, <1>6 DEF Placed

\* A Riot moves entries only to where other entries were.
LEMMA RiotStaysOnSites ==
  ASSUME NEW E, Placed(E), NEW p \in W!Moves(E)
  PROVE  Places(W!Moved(E, p)) \subseteq Places(E) /\ Places(E) \subseteq WatchNodes
<1>1. \A e \in DOMAIN p : e \in E /\ p[e] \in E
  <2>1. CASE sky.incident = "riot"
    <3>1. p \in [W!Sites(E) -> W!Sites(E)] /\ W!Sites(E) \subseteq E
      BY <2>1 DEF W!Moves, W!Sites
    <3> QED  BY <3>1
  <2>2. CASE sky.incident # "riot"
    BY <2>2 DEF W!Moves
  <2> QED  BY <2>1, <2>2
<1>2. ASSUME NEW e \in E
      PROVE  (IF e \in DOMAIN p THEN [e EXCEPT !.node = p[e].node] ELSE e).node \in Places(E)
  <2>1. CASE e \in DOMAIN p
    <3>1. [e EXCEPT !.node = p[e].node].node = p[e].node
      BY DEF Placed
    <3> QED  BY <1>1, <2>1, <3>1 DEF Places
  <2> QED  BY <2>1 DEF Places
<1> QED  BY <1>2 DEF Places, W!Moved, Placed

\* What can be read is part of what was written.
LEMMA LegibleIsThere == ASSUME NEW E PROVE W!Legible(E) \subseteq E
  BY DEF W!Legible

\* Archiving a round keeps an archive fit: where a seat looks, a logged node
\* that has nothing left to read is obscured, and the trail tells the others.
LEMMA ArchivingFits ==
  ASSUME NEW a, NEW log, NEW S \in SUBSET WatchNodes, NEW busy, NEW L, sround \in Nat \ {0},
         Fits(a, log, sround - 1), busy \subseteq WatchNodes, Places(L) \subseteq busy
  PROVE  /\ Fits(W!Archived(a, S, busy, L), log \cup {<<n, sround>> : n \in busy}, sround)
         /\ \A n \in S : <<n, sround>> \in W!Archived(a, S, busy, L).sight
                                           \cup W!Archived(a, S, busy, L).obscured
<1> DEFINE hidden == busy \ Places(L)
           b  == W!Archived(a, S, busy, L)
           log2 == log \cup {<<n, sround>> : n \in busy}
           told == {[kind |-> e.kind, node |-> e.node, names |-> e.names, round |-> sround] :
                      e \in {x \in L : x.node \in S}}
<1>1. /\ b.sight = a.sight \cup {<<n, sround>> : n \in S \ hidden}
      /\ b.obscured = a.obscured \cup {<<n, sround>> : n \in S \cap hidden}
      /\ b.trail = a.trail \cup told
  BY DEF W!Archived, W!Erased, Places
<1>2. \A e \in told : e.round = sround /\ e.node \in Places(L) \cap S
  BY DEF Places
<1>3. ASSUME NEW n \in Places(L) \cap S
      PROVE  \E e \in told : e.node = n /\ e.round = sround
  <2>1. PICK x \in L : x.node = n
    BY DEF Places
  <2>2. [kind |-> x.kind, node |-> x.node, names |-> x.names, round |-> sround] \in told
    BY <2>1
  <2> QED  BY <2>1, <2>2
<1>4. \A x \in a.sight \cup a.obscured \cup log : \E n \in WatchNodes, r \in 1 .. sround - 1 : x = <<n, r>>
  BY DEF Fits
<1>5. \A n : <<n, sround>> \notin a.sight \cup a.obscured \cup log
  BY <1>4
<1> HIDE DEF b, told
<1>6. b.sight \cup b.obscured \cup log2 \subseteq WatchNodes \X (1 .. sround)
  BY <1>1, <1>4
<1>7. b.sight \cap b.obscured = {}
  BY <1>1, <1>5 DEF Fits
<1>8. b.obscured \subseteq log2
  BY <1>1 DEF Fits
<1>9. \A e \in b.trail : <<e.node, e.round>> \in b.sight
  BY <1>1, <1>2 DEF Fits
<1>10. ASSUME NEW x \in b.sight
       PROVE  x \in log2 <=> \E e \in b.trail : x = <<e.node, e.round>>
  <2>1. CASE x \in a.sight
    <3>1. x \in log2 <=> x \in log
      BY <1>5, <2>1
    <3>2. \A e \in told : x # <<e.node, e.round>>
      BY <1>2, <1>5, <2>1
    <3> QED  BY <1>1, <2>1, <3>1, <3>2 DEF Fits
  <2>2. CASE x \notin a.sight
    <3>1. PICK n \in S \ hidden : x = <<n, sround>>
      BY <1>1, <2>2
    <3>2. x \in log2 <=> n \in busy
      BY <1>5, <3>1
    <3>3. \A e \in a.trail : x # <<e.node, e.round>>
      BY <2>2 DEF Fits
    <3>4. n \in busy <=> n \in Places(L)
      BY <3>1
    <3> QED  BY <1>1, <1>2, <1>3, <3>1, <3>2, <3>3, <3>4
  <2> QED  BY <2>1, <2>2
<1>11. \A n \in S : <<n, sround>> \in b.sight \cup b.obscured
  BY <1>1
<1>12. Fits(b, log2, sround)
  BY <1>6, <1>7, <1>8, <1>9, <1>10 DEF Fits
<1> QED  BY <1>11, <1>12 DEF b

\* The pass over a round's trail: what each seat sees, and what its archive keeps.
LEMMA TrailKeeps == W!Setting /\ SightInv /\ W!WriteTrail => SightInv'
<1> SUFFICES ASSUME W!Setting, SightInv, W!WriteTrail PROVE SightInv'
  OBVIOUS
<1>0. ShapeInv /\ StandInv
  BY DEF SightInv, GroundInv
<1>1. /\ sphase = "trail" /\ sphase' = "incident" /\ UNCHANGED <<sround, swhere, turn>>
      /\ fog' = [s \in W!Seats |-> W!Refogged(fog[s], W!SightOf(s))]
  BY DEF W!WriteTrail
<1>2. PICK F \in SUBSET W!Meetings :
        LET E == W!CargoTakenAndDecoys \cup W!Tracks \cup W!Fights(F) \cup W!Loiterers \cup W!Purchases
        IN \E p \in W!Moves(E) :
             LET after == W!Moved(E, p)
                 busy  == {e.node : e \in E} \cup {e.node : e \in after}
             IN /\ archive' = [s \in W!Seats |->
                                 W!Archived(archive[s], W!SightOf(s), busy, W!Legible(after))]
                /\ logged' = logged \cup {<<e.node, sround>> : e \in E}
  BY DEF W!WriteTrail
<1>3. PICK E : E = W!CargoTakenAndDecoys \cup W!Tracks \cup W!Fights(F) \cup W!Loiterers \cup W!Purchases
  OBVIOUS
<1>4. PICK p \in W!Moves(E) :
        /\ archive' = [s \in W!Seats |-> W!Archived(archive[s], W!SightOf(s),
                                                    Places(E) \cup Places(W!Moved(E, p)),
                                                    W!Legible(W!Moved(E, p)))]
        /\ logged' = logged \cup {<<e.node, sround>> : e \in E}
  BY <1>2, <1>3 DEF Places
<1>5. Placed(E)
  BY <1>0, <1>3, EntriesArePlaced
<1>6. PICK busy : busy = Places(E)
  OBVIOUS
<1>7. PICK L : L = W!Legible(W!Moved(E, p))
  OBVIOUS
<1>8. busy \subseteq WatchNodes /\ Places(E) \cup Places(W!Moved(E, p)) = busy /\ Places(L) \subseteq busy
  <2>1. Places(W!Moved(E, p)) \subseteq busy /\ busy \subseteq WatchNodes
    BY <1>5, <1>6, RiotStaysOnSites
  <2>2. L \subseteq W!Moved(E, p)
    BY <1>7, LegibleIsThere
  <2> QED  BY <1>6, <2>1, <2>2 DEF Places
<1>9. /\ archive' = [s \in W!Seats |-> W!Archived(archive[s], W!SightOf(s), busy, L)]
      /\ logged' = logged \cup {<<n, sround>> : n \in busy}
  <2>1. {<<e.node, sround>> : e \in E} = {<<n, sround>> : n \in busy}
    BY <1>6 DEF Places
  <2> QED  BY <1>4, <1>7, <1>8, <2>1
<1>10. \A s \in W!Seats : /\ fog[s] \in [WatchNodes -> W!Hidden .. W!InSight]
                          /\ W!SightOf(s) \in SUBSET WatchNodes /\ swhere[s] \in W!SightOf(s)
  BY <1>0, LooksAround DEF ShapeInv
<1>11. \A s \in W!Seats :
         /\ fog'[s] \in [WatchNodes -> W!Hidden .. W!InSight]
         /\ \A n \in WatchNodes : /\ fog[s][n] >= W!Known \/ n \in W!SightOf(s) => fog'[s][n] >= W!Known
                                  /\ fog'[s][n] = W!InSight <=> n \in W!SightOf(s)
  <2> SUFFICES ASSUME NEW s \in W!Seats
               PROVE  /\ fog'[s] \in [WatchNodes -> W!Hidden .. W!InSight]
                      /\ \A n \in WatchNodes :
                           /\ fog[s][n] >= W!Known \/ n \in W!SightOf(s) => fog'[s][n] >= W!Known
                           /\ fog'[s][n] = W!InSight <=> n \in W!SightOf(s)
    OBVIOUS
  <2>1. fog'[s] = W!Refogged(fog[s], W!SightOf(s))
    BY <1>1
  <2> QED  BY <1>10, <2>1, LookKeeps
<1>12. ShapeInv' /\ StandInv'
  <2>1. fog' \in [W!Seats -> [WatchNodes -> W!Hidden .. W!InSight]]
    BY <1>1, <1>11
  <2>2. ShapeInv'
    BY <1>0, <1>1, <2>1 DEF ShapeInv
  <2>3. ASSUME NEW s \in W!Seats PROVE fog'[s][swhere'[s]] >= W!Known
    BY <1>0, <1>1, <1>10, <1>11, <2>3 DEF ShapeInv
  <2> QED  BY <2>2, <2>3 DEF StandInv
<1>13. \A s \in W!Seats :
         /\ Fits(archive'[s], logged', sround)
         /\ \A n \in W!SightOf(s) : <<n, sround>> \in archive'[s].sight \cup archive'[s].obscured
  <2> SUFFICES ASSUME NEW s \in W!Seats
               PROVE  /\ Fits(archive'[s], logged', sround)
                      /\ \A n \in W!SightOf(s) :
                           <<n, sround>> \in archive'[s].sight \cup archive'[s].obscured
    OBVIOUS
  <2>1. sround \in Nat \ {0} /\ Fits(archive[s], logged, sround - 1)
    BY <1>0, <1>1 DEF SightInv, ArchiveInv, Written, ShapeInv
  <2>2. PICK S \in SUBSET WatchNodes : S = W!SightOf(s)
    BY <1>10
  <2>3. PICK a, log : a = archive[s] /\ log = logged
    OBVIOUS
  <2>4. archive'[s] = W!Archived(a, S, busy, L)
    BY <1>9, <2>2, <2>3
  <2>5. /\ Fits(W!Archived(a, S, busy, L), log \cup {<<n, sround>> : n \in busy}, sround)
        /\ \A n \in S : <<n, sround>> \in W!Archived(a, S, busy, L).sight
                                          \cup W!Archived(a, S, busy, L).obscured
    BY <1>8, <2>1, <2>3, ArchivingFits
  <2> QED  BY <1>9, <2>2, <2>3, <2>4, <2>5
<1>14. SeenInv'
  BY <1>1, <1>11, <1>13 DEF SeenInv
<1>15. ArchiveInv'
  <2>1. Written' = sround
    BY <1>1 DEF Written
  <2> QED  BY <1>13, <2>1 DEF ArchiveInv, Fits
<1> QED  BY <1>12, <1>14, <1>15 DEF SightInv, GroundInv

-------------------------------------------------------------------------------
(* The incident.                                                             *)

\* A seat that is moved Knows where it is put, and nobody sees more than before.
LEMMA DisplacedIsKnown ==
  ASSUME ShapeInv, StandInv, NEW to, DOMAIN to \subseteq W!Seats,
         \A s \in DOMAIN to : to[s] \in WatchNodes, W!Displace(to)
  PROVE  /\ swhere' \in [W!Seats -> WatchNodes]
         /\ fog' \in [W!Seats -> [WatchNodes -> W!Hidden .. W!InSight]]
         /\ \A s \in W!Seats : /\ fog'[s][swhere'[s]] >= W!Known
                               /\ \A n \in WatchNodes : fog'[s][n] = W!InSight <=> fog[s][n] = W!InSight
<1>1. /\ swhere' = [s \in W!Seats |-> IF s \in DOMAIN to THEN to[s] ELSE swhere[s]]
      /\ fog' = [s \in W!Seats |-> IF s \in DOMAIN to THEN W!MadeKnown(fog[s], {to[s]}) ELSE fog[s]]
  BY DEF W!Displace, W!Discovered
<1>2. swhere' \in [W!Seats -> WatchNodes]
  BY <1>1 DEF ShapeInv
<1>3. ASSUME NEW s \in W!Seats
      PROVE  /\ fog'[s] \in [WatchNodes -> W!Hidden .. W!InSight]
             /\ fog'[s][swhere'[s]] >= W!Known
             /\ \A n \in WatchNodes : fog'[s][n] = W!InSight <=> fog[s][n] = W!InSight
  <2>1. CASE s \in DOMAIN to
    <3>1. fog[s] \in [WatchNodes -> W!Hidden .. W!InSight]
      BY DEF ShapeInv
    <3>2. PICK S \in SUBSET WatchNodes : S = {to[s]}
      BY <2>1
    <3>3. /\ W!MadeKnown(fog[s], S) \in [WatchNodes -> W!Hidden .. W!InSight]
          /\ \A n \in WatchNodes : /\ n \in S => W!MadeKnown(fog[s], S)[n] >= W!Known
                                   /\ W!MadeKnown(fog[s], S)[n] = W!InSight <=> fog[s][n] = W!InSight
      BY <3>1, KnownGrows
    <3>4. fog'[s] = W!MadeKnown(fog[s], S) /\ swhere'[s] = to[s]
      BY <1>1, <2>1, <3>2
    <3> QED  BY <2>1, <3>2, <3>3, <3>4
  <2>2. CASE s \notin DOMAIN to
    BY <1>1, <2>2 DEF ShapeInv, StandInv
  <2> QED  BY <2>1, <2>2
<1>4. fog' = [s \in W!Seats |-> fog'[s]]
  BY <1>1
<1> QED  BY <1>2, <1>3, <1>4

\* An incident moves seats onto Known ground and shows nobody anything.
LEMMA WatchIncidentKeeps == W!Setting /\ SightInv /\ W!Incident => SightInv'
<1> SUFFICES ASSUME W!Setting, SightInv, W!Incident PROVE SightInv'
  OBVIOUS
<1>0. ShapeInv /\ StandInv
  BY DEF SightInv, GroundInv
<1>1. /\ sphase = "incident" /\ sphase' = "closed" /\ turn' = [s \in W!Seats |-> W!NoTurn]
      /\ UNCHANGED <<sround, archive, logged>>
  BY DEF W!Incident
<1>2. W!Struck \subseteq W!Seats
  BY DEF W!Struck
<1>3. /\ swhere' \in [W!Seats -> WatchNodes]
      /\ fog' \in [W!Seats -> [WatchNodes -> W!Hidden .. W!InSight]]
      /\ \A s \in W!Seats : /\ fog'[s][swhere'[s]] >= W!Known
                            /\ \A n \in WatchNodes : fog'[s][n] = W!InSight <=> fog[s][n] = W!InSight
  <2>1. CASE W!SnatchJob
    <3>1. PICK to \in [W!Struck -> {n \in WatchNodes : WatchSectorOf[n] # sky.sector}] : W!Displace(to)
      BY <2>1 DEF W!SnatchJob
    <3>2. DOMAIN to \subseteq W!Seats /\ \A s \in DOMAIN to : to[s] \in WatchNodes
      BY <1>2, <3>1
    <3> QED  BY <1>0, <3>1, <3>2, DisplacedIsKnown
  <2>2. ASSUME NEW S \in SUBSET W!Struck, W!Displace([s \in S |-> W!Retreat(swhere[s])])
        PROVE  /\ swhere' \in [W!Seats -> WatchNodes]
               /\ fog' \in [W!Seats -> [WatchNodes -> W!Hidden .. W!InSight]]
               /\ \A s \in W!Seats : /\ fog'[s][swhere'[s]] >= W!Known
                                     /\ \A n \in WatchNodes : fog'[s][n] = W!InSight <=> fog[s][n] = W!InSight
    <3>1. \A s \in W!Seats : W!Retreat(swhere[s]) \in WatchNodes
      <4>1. \A s \in W!Seats : swhere[s] \in WatchNodes
        BY <1>0 DEF ShapeInv
      <4> QED  BY <4>1, RetreatsOnTheMap
    <3>2. PICK to : to = [s \in S |-> W!Retreat(swhere[s])]
      OBVIOUS
    <3>3. DOMAIN to \subseteq W!Seats /\ \A s \in DOMAIN to : to[s] \in WatchNodes
      BY <1>2, <3>1, <3>2
    <3>4. W!Displace(to)
      BY <2>2, <3>2
    <3> QED  BY <1>0, <3>3, <3>4, DisplacedIsKnown
  <2>3. CASE W!Flood
    BY <2>2, <2>3 DEF W!Flood
  <2>4. CASE W!TurfWar
    BY <2>2, <2>4 DEF W!TurfWar
  <2>5. CASE W!LocalInformant \/ W!Elsewhere
    BY <1>0, <2>5 DEF W!LocalInformant, W!Elsewhere, ShapeInv, StandInv
  <2> QED  BY <2>1, <2>3, <2>4, <2>5 DEF W!Incident
<1>4. ShapeInv' /\ StandInv'
  <2>1. DOMAIN turn' = W!Seats /\ \A s \in W!Seats : turn'[s].item = "none"
    BY <1>1 DEF W!NoTurn
  <2> QED  BY <1>0, <1>1, <1>3, <2>1 DEF ShapeInv, StandInv
<1>5. SeenInv'
  BY <1>1, <1>3 DEF SightInv, SeenInv
<1>6. ArchiveInv'
  <2>1. Written' = Written
    BY <1>1 DEF Written
  <2> QED  BY <1>1, <2>1 DEF SightInv, ArchiveInv, Fits
<1> QED  BY <1>4, <1>5, <1>6 DEF SightInv, GroundInv

-------------------------------------------------------------------------------
\* Nothing that is seen changes while the city or the bot runs.
LEMMA WatchNextKeeps == W!Setting /\ SightInv /\ [TableNext]_tableVars => SightInv'
<1> SUFFICES ASSUME W!Setting, SightInv, [TableNext]_tableVars PROVE SightInv'
  OBVIOUS
<1>1. CASE W!OpenRound
  BY <1>1, OpeningKeeps
<1>2. CASE W!WriteTrail
  BY <1>2, TrailKeeps
<1>3. CASE W!Incident
  BY <1>3, WatchIncidentKeeps
<1>4. ASSUME NEW s \in W!Seats, W!Play(s) PROVE SightInv'
  BY <1>4, PlayKeeps
<1>5. CASE UNCHANGED sightVars
  BY <1>5 DEF sightVars, SightInv, GroundInv, ShapeInv, StandInv, SeenInv, ArchiveInv, Written, Fits
<1> QED  BY <1>1, <1>2, <1>3, <1>4, <1>5 DEF W!Next, TableNext, tableVars

LEMMA AlwaysFits == ASSUME W!Setting PROVE TableSpec => []SightInv
<1>1. TableInit => SightInv
  BY StartsInSight DEF TableInit
<1>2. SightInv /\ [TableNext]_tableVars => SightInv'
  BY WatchNextKeeps
<1> QED  BY <1>1, <1>2, PTL DEF TableSpec

\* However a seat was brought where it stands, it Knows that node and its edges
\* (movement.go, markNodeKnown).
THEOREM GroundIsKnown == ASSUME W!Setting PROVE TableSpec => []StandsOnKnownGround
<1>1. SightInv => StandsOnKnownGround
  <2> SUFFICES ASSUME SightInv, NEW s \in W!Seats
               PROVE  W!NodeView(s, swhere[s]).edges = W!Neighbours(swhere[s])
    BY DEF StandsOnKnownGround, W!StandsOnKnownGround
  <2>1. fog[s][swhere[s]] >= W!Known
    BY DEF SightInv, GroundInv, StandInv
  <2> QED  BY <2>1 DEF W!NodeView
<1> QED  BY <1>1, AlwaysFits, PTL

\* A view shows the market, and reads the trail, of a node its owner looked at
\* in that very round (fog.go, projectNodes and projectTrail).
THEOREM ViewsAreEarned == ASSUME W!Setting PROVE TableSpec => []ShowsOnlyWhatIsInSight
<1>1. SightInv => ShowsOnlyWhatIsInSight
  <2> SUFFICES ASSUME SightInv, sphase = "closed", sround > 0, NEW s \in W!Seats,
                      NEW seen, seen = {n \in WatchNodes : <<n, sround>> \in archive[s].sight \cup archive[s].obscured}
               PROVE  /\ \A n \in WatchNodes : W!NodeView(s, n).market => n \in seen
                      /\ \A e \in W!ReadNow(s) : e.node \in seen
    BY DEF ShowsOnlyWhatIsInSight, W!ShowsOnlyWhatIsInSight
  <2>1. ASSUME NEW n \in WatchNodes, W!NodeView(s, n).market
        PROVE  n \in seen
    <3>1. fog[s][n] >= W!InSight /\ fog[s][n] \in W!Hidden .. W!InSight
      BY <2>1 DEF W!NodeView, SightInv, GroundInv, ShapeInv
    <3>2. fog[s][n] = W!InSight
      BY <3>1 DEF W!Hidden, W!InSight
    <3> QED  BY <3>2 DEF SightInv, SeenInv
  <2>2. ASSUME NEW e \in W!ReadNow(s)
        PROVE  e.node \in seen
    <3>1. Fits(archive[s], logged, Written) /\ e \in archive[s].trail /\ e.round = sround
      BY DEF W!ReadNow, SightInv, ArchiveInv
    <3>2. <<e.node, sround>> \in archive[s].sight /\ archive[s].sight \subseteq WatchNodes \X (1 .. Written)
      BY <3>1 DEF Fits
    <3> QED  BY <3>2
  <2> QED  BY <2>1, <2>2
<1> QED  BY <1>1, AlwaysFits, PTL

\* Of the rounds in which a seat observed a node, its Heat Map counts as traffic
\* those in which something was logged there, no more and no fewer, and what
\* was lost to weather or to a Riot is called obscured, never quiet (trail.go,
\* distributeTrail; fog.go, deriveNodeStats).
THEOREM HeatMapCounts == ASSUME W!Setting PROVE TableSpec => []HeatMapIsTrue
<1>1. SightInv => HeatMapIsTrue
  <2> SUFFICES ASSUME SightInv, NEW s \in W!Seats
               PROVE  /\ archive[s].obscured \cap archive[s].sight = {}
                      /\ archive[s].obscured \subseteq logged
                      /\ \A n \in WatchNodes :
                           W!NodeStats(s, n).traffic = W!Cardinality(W!RoundsAt(n, archive[s].sight \cap logged))
    BY DEF HeatMapIsTrue, W!HeatMapIsTrue
  <2>1. Fits(archive[s], logged, Written)
    BY DEF SightInv, ArchiveInv
  <2>2. ASSUME NEW n \in WatchNodes
        PROVE  W!NodeStats(s, n).traffic = W!Cardinality(W!RoundsAt(n, archive[s].sight \cap logged))
    <3>1. ASSUME NEW r \in 1 .. sround, <<n, r>> \in archive[s].sight
          PROVE  <<n, r>> \in logged <=> r \in W!TrailAt(s, n)
      <4>1. <<n, r>> \in logged <=> \E e \in archive[s].trail : <<n, r>> = <<e.node, e.round>>
        BY <2>1, <3>1 DEF Fits
      <4> QED  BY <4>1 DEF W!TrailAt
    <3>2. W!RoundsAt(n, archive[s].sight) \cap W!TrailAt(s, n) = W!RoundsAt(n, archive[s].sight \cap logged)
      BY <3>1 DEF W!RoundsAt
    <3> QED  BY <3>2 DEF W!NodeStats
  <2> QED  BY <2>1, <2>2 DEF Fits
<1> QED  BY <1>1, AlwaysFits, PTL

-------------------------------------------------------------------------------
(* The bot: what BotsProofs shows of it by itself holds at this table.       *)

\* A table plays its bot as Bots does, or leaves it alone.
LEMMA TablePlaysTheBot == TableSpec => B!Spec
<1>1. TableInit => B!Init
  BY DEF TableInit
<1>2. [TableNext]_tableVars => [B!Next]_B!vars
  BY DEF TableNext, tableVars, botVars, B!vars
<1> QED  BY <1>1, <1>2, PTL DEF TableSpec, B!Spec

\* Whatever the tier and the map, what Decide returns is legal for the view it was
\* given (bot.go, Bot).
THEOREM BotsAreLegal == ASSUME B!Setting PROVE TableSpec => []DecidesLegally
<1>1. B!Spec => []B!DecidesLegally
  BY B!BotsAreLegal
<1> QED  BY <1>1, TablePlaysTheBot, PTL DEF DecidesLegally

\* Where half of what any crate pays covers the gate, what a Runner or an Operator
\* adds on does not put it in debt, though a shakedown be paid in between (runner.go,
\* runnerReserve; operator.go, chooseAddOns).
THEOREM ReservesCover == ASSUME B!Setting, B!Pays PROVE TableSpec => AddOnsAreCovered
<1>1. B!Spec => B!AddOnsAreCovered
  BY B!ReservesCover
<1> QED  BY <1>1, TablePlaysTheBot, PTL DEF AddOnsAreCovered

\* Where a block lasts a round or more and at least two may be bought, a lease that
\* is not torched runs out only in sight of the bot and for want of the reserve, or
\* behind one as urgent, however the seat fares on its way (runner.go,
\* maybeRenewLease).
THEOREM LeasesAreRenewed == ASSUME B!Setting, B!Lasts PROVE TableSpec => RenewsInTime
<1>1. B!Spec => B!RenewsInTime
  BY B!LeasesAreRenewed
<1> QED  BY <1>1, TablePlaysTheBot, PTL DEF RenewsInTime

\* A Runner plans to come as near to what it can reach as its steps allow, on any
\* map (runner.go, nearestRoute).
THEOREM RunnersGoStraight == ASSUME B!Setting PROVE TableSpec => []GoesStraight
<1>1. B!Spec => []B!GoesStraight
  BY B!RunnersGoStraight
<1> QED  BY <1>1, TablePlaysTheBot, PTL DEF GoesStraight
===============================================================================
