------------------------------- MODULE MCServices ------------------------------
(***************************************************************************)
(* What Services is given to run: two connection strings, four             *)
(* configurations of which one is legal, and two sweeps of two fields.     *)
(***************************************************************************)
EXTENDS Services

Url(host, service) == [form |-> "url", host |-> host, service |-> service]
MCAnyDsn == Url(TRUE, FALSE)
MCDsns == {Url(TRUE, FALSE), Url(FALSE, FALSE)}

Config(rounds, caps, weights) ==
  [rounds |-> rounds, caps |-> caps, maps |-> 2 .. 5, attempts |-> 1, balance |-> 0,
   weights |-> weights]
MCConfigs == {Config(15, 2 .. 5, <<1, 1, 1, 1>>), Config(16, 2 .. 5, <<1, 1, 1, 1>>),
              Config(15, 2 .. 3, <<1, 1, 1, 1>>), Config(15, 2 .. 5, <<2, 2, 2, 2>>)}
MCRosters == {<<>>, <<"human">>, <<"human", "bot">>, <<"bot", "bot", "human">>}

MCDims == << <<1, 2>>, <<3, 4>> >>
Sweeping(sha, breakdown) == [sha |-> sha, breakdown |-> breakdown]
MCAnySweep == Sweeping("a", FALSE)
MCSweeps == {Sweeping("a", FALSE), Sweeping("a", TRUE), Sweeping("b", FALSE)}
===============================================================================
