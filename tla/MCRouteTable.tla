---------------------------- MODULE MCRouteTable ----------------------------
(* RouteTable on small instances. *)
EXTENDS RouteTable, TLC

Symm == Permutations(Tbl) \cup Permutations(Rte) \cup Permutations(Senders)
=============================================================================
