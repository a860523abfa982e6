----------------------------- MODULE MCBalancer -----------------------------
(* Model values for Balancer: three dispatchers, two sockets, one or two   *)
(* balancing threads.                                                       *)
EXTENDS Balancer

CONSTANTS d1, d2, d3, c1, c2, b1, b2

MCDispatchers == {d1, d2, d3}
MCConns       == {c1, c2}
MCBalancersOne == {b1}
MCBalancersTwo == {b1, b2}
=============================================================================
