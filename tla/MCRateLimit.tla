---------------------------- MODULE MCRateLimit ----------------------------
(* Two callers at once; customer A on IPv4, in two notations, customer B    *)
(* on one IPv6 network with two hosts.                                      *)
EXTENDS RateLimit, TLC

A4 == [family |-> "v4", net |-> 1, host |-> 1]
AMapped == [family |-> "mapped", net |-> 1, host |-> 1]
B1 == [family |-> "v6", net |-> 2, host |-> 1]
B2 == [family |-> "v6", net |-> 2, host |-> 2]
Blank == [family |-> "blank", net |-> 0, host |-> 0]
Malformed == [family |-> "malformed", net |-> 0, host |-> 0]

Request(scopes, customer, xff, remote, capacity) ==
  [scopes |-> scopes, email |-> "e", customer |-> customer, xff |-> xff,
   remote |-> remote, capacity |-> capacity]
Ip == <<"auth_ip">>
Both == <<"auth_email", "auth_ip">>

MCRequests ==
  {Request(Ip, "A", <<Malformed, A4>>, B1, 2),
   Request(Ip, "A", <<B2, AMapped, Blank>>, B1, 2),
   Request(Ip, "A", <<A4>>, A4, 0),
   Request(Ip, "B", <<>>, B1, 2),
   Request(Both, "B", <<B2>>, A4, 2),
   Request(Ip, "B", <<Malformed>>, B1, 2)}

ASSUME RequestsAssumption == KeysFollowCustomers

\* Bound: one behaviour serves one customer; accounts do not touch each other.
Seen(a) == \/ \E t \in 0 .. MaxTime : paid[a][t] > 0
           \/ \E c \in Callers : \E i \in 1 .. Len(req[c].scopes) : AccountsOf(req[c])[i] = a
OneCustomer == ~ (Seen(<<"auth_ip", "A">>) /\ Seen(<<"auth_ip", "B">>))
Same == Permutations(Callers)
=============================================================================
