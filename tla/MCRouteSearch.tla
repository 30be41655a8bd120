---------------------------- MODULE MCRouteSearch ----------------------------
(* Flight tables between three cities: MaxFlights flights of any of the      *)
(* Distances, and one more flight when all are equally long.                *)
EXTENDS RouteSearch

CONSTANTS Distances, MaxFlights

Flights(lengths) == {f \in [from : City, to : City, distance : lengths] : f.from # f.to}
Tables(n, lengths) == UNION {[1..m -> Flights(lengths)] : m \in 0..n}
MCTable == Tables(MaxFlights, Distances) \cup Tables(MaxFlights + 1, {1})
=============================================================================
