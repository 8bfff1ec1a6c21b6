--------------------------------- MODULE MCCity --------------------------------
(***************************************************************************)
(* A small city for two players: Borders 1, 2 and 3, a market 4 and an     *)
(* alley 5, in two sectors; a ring 1-4-2-5-3-1 and a chord 4-5.            *)
(***************************************************************************)
EXTENDS City, TLC

MCNodes    == 1 .. 5
MCTypeOf   == 1 :> "border" @@ 2 :> "border" @@ 3 :> "border" @@ 4 :> "market" @@ 5 :> "alley"
MCSectorOf == 1 :> 1 @@ 2 :> 2 @@ 3 :> 2 @@ 4 :> 1 @@ 5 :> 2
MCPaths    == {{1, 4}, {4, 2}, {2, 5}, {5, 3}, {3, 1}, {4, 5}}
MCHomes    == {0 :> 4 @@ 1 :> 5}

\* Decks of two events and two incidents, dealt from any one pool of each.
MCEventPools ==
  {{"dragnet", "retainer"}, {"curfew", "blackout"}, {"runner", "windfall"},
   {"dragnet", "scaffolding"}, {"curfew", "bridge"}, {"runner", "strike"}}
MCIncidentPools ==
  {{"flood", "spill"}, {"snatch", "guard"}, {"sinkhole", "spill"},
   {"streets", "guard"}, {"turf", "spill"}}
MCCategoryOf ==
  [c \in {"dragnet", "curfew", "runner"} |-> "dark"]
  @@ [c \in {"retainer", "scaffolding", "windfall", "blackout", "strike", "bridge"} |-> "light"]
  @@ [c \in {"flood", "snatch", "sinkhole", "streets", "turf"} |-> "hazard"]
  @@ [c \in {"spill", "guard"} |-> "boon"]
MCEventQuota    == "dark" :> 1 @@ "light" :> 1
MCIncidentQuota == "hazard" :> 1 @@ "boon" :> 1
MCSetbacks      == {{"flagged"}}
===============================================================================
