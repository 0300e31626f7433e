---------------------------- MODULE MCPeerRouting ----------------------------
(* Three peers in a line; the host of the first one was started one tick      *)
(* before the others, so to it what it hears is older than it is.             *)
EXTENDS PeerRouting

CONSTANTS a, b, c

Both(S) == S \cup {<<l[2], l[1]>> : l \in S}

Line == Both({<<a, b>>, <<b, c>>})

MCUptime == [n \in Peers |-> IF n = a THEN 1 ELSE 0]
=============================================================================
