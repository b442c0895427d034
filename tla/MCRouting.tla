----------------------------- MODULE MCRouting -----------------------------
(* A small instance of Routing for TLC: three models on two endpoints, the    *)
(* first and the last sharing one.                                            *)
EXTENDS Routing

MCModels == {"m1", "m2", "m3"}
MCEndpoints == {"v1", "v2"}
MCEndpointOf == [m1 |-> "v1", m2 |-> "v2", m3 |-> "v1"]
MCKeysOf == [v1 |-> {1, 2, 3}, v2 |-> {4}]
MCRetriesOf == [v1 |-> 0, v2 |-> 1]
=============================================================================
