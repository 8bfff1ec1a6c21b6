--------------------------------- MODULE MCSight -------------------------------
(***************************************************************************)
(* Two seats on five nodes in a line stand about for three rounds; then a   *)
(* Snatch Job.  For the two cfgs that show where Sight and a document part.  *)
(***************************************************************************)
EXTENDS Sight, TLC

MCNodes    == 1 .. 5
MCTypeOf   == 1 :> "alley" @@ 2 :> "market" @@ 3 :> "warehouse" @@ 4 :> "alley" @@ 5 :> "border"
MCSectorOf == 1 :> 1 @@ 2 :> 1 @@ 3 :> 2 @@ 4 :> 2 @@ 5 :> 2
MCPaths    == {{1, 2}, {2, 3}, {3, 4}, {4, 5}}
MCHomes    == 0 :> 1 @@ 1 :> 2
MCPostsOf  == 0 :> {4} @@ 1 :> {}
MCInfamyOf == 0 :> 6 @@ 1 :> 0

Sky(event, fair, incident, sector) ==
  [event |-> event, fair |-> fair, incident |-> incident, sector |-> sector]
SnatchSkies == <<{Sky("none", NoNode, "none", 0)}, {Sky("none", NoNode, "none", 0)},
                 {Sky("none", NoNode, "snatch", 1)}>>
IdleDeeds   == [s \in Seats |-> {[act |-> "surveil", item |-> "none", at |-> NoNode]}]
===============================================================================
