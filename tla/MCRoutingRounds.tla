--------------------------- MODULE MCRoutingRounds ---------------------------
(* Four peers in a chain; the host of the first one was started one interval  *)
(* before the others.                                                         *)
EXTENDS RoutingRounds

CONSTANTS a, b, c, d

Chain == {<<a, b>>, <<b, c>>, <<c, d>>, <<b, a>>, <<c, b>>, <<d, c>>}

MCUptime == [n \in Peers |-> IF n = a THEN 1 ELSE 0]
=============================================================================
