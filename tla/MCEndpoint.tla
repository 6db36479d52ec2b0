----------------------------- MODULE MCEndpoint -----------------------------
(* Two endpoints, two application threads and the thread in SIwait.        *)
EXTENDS Endpoint

MCBlocks == 1 .. 3
MCFDs == 1 .. 2
U(e, w) == [e |-> e, way |-> w]
MCUses == [s1 |-> {U("e1", "rr"), U("e1", "wh"), U("e2", "name")},
           s2 |-> {U("e1", "meid")}]
MCTarget == [e1 |-> [form |-> "name", first |-> 4560],
             e2 |-> [form |-> "name", first |-> 34560]]
MCActors == {"s1", "s2", "rcv"}
=============================================================================
