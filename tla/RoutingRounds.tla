---------------------------- MODULE RoutingRounds ----------------------------
(***************************************************************************)
(* The routers of PeerRouting with their maintenance threads               *)
(* (routing_maintenance_loop) on a topology at rest: connections are       *)
(* neither made nor lost.  The tick of the clock is one                    *)
(* TOPOLOGY_UPDATE_INTERVAL.  In every interval each thread cleans up,     *)
(* sends its routes and, in every fifth turn of all the threads of the     *)
(* process, asks for topologies; what was sent is handled within it.       *)
(***************************************************************************)
EXTENDS PeerRouting

VARIABLE loop       \* peer -> where its maintenance thread is

roundVars == <<vars, loop>>

RoundInit == Init /\ loop = [n \in Peers |-> "cleanup"]

At(n, from, to) == loop[n] = from /\ loop' = [loop EXCEPT ![n] = to]

\* with no known peer nothing is sent
Maintain(n) ==
    \/ /\ At(n, "cleanup", "send")
       /\ cleanup_expired_entries(n)
    \/ /\ At(n, "send", "sync") \/ At(n, "send", "sleep")
       /\ IF known[n] = <<>> THEN UNCHANGED vars ELSE send_route_updates(n)
    \/ /\ At(n, "sync", "sleep")
       /\ IF known[n] = <<>> THEN UNCHANGED vars ELSE send_topology_sync(n)

HandleMessage(n, p) ==
    (handle_route_update(n, p) \/ handle_topology_sync(n, p)) /\ UNCHANGED loop

\* every thread sleeps and nothing is under way
IntervalOver ==
    /\ \A n \in Peers : loop[n] = "sleep"
    /\ \A n, p \in Peers : channel[n][p] = <<>>
    /\ ClockTick
    /\ loop' = [n \in Peers |-> "cleanup"]

RoundNext ==
    \/ \E n \in Peers : Maintain(n)
    \/ \E n, p \in Peers : HandleMessage(n, p)
    \/ IntervalOver

RoundSpec == RoundInit /\ [][RoundNext]_roundVars

-----------------------------------------------------------------------------
\* the peers within k links of n
Within[k \in Nat] ==
    [n \in Peers |->
        IF k = 0 THEN {n}
        ELSE Within[k - 1][n] \cup UNION {Neighbours(p) : p \in Within[k - 1][n]}]

\* by how much the clocks of two hosts differ at most
Skew == Max({Uptime[n] : n \in Peers}) - Min({Uptime[n] : n \in Peers})

(***************************************************************************)
(* Routes travel one link per interval, and stay until they expire: from   *)
(* k - 1 intervals after the links came up every router has a shortest     *)
(* route to every peer k links away, whatever the order in which the       *)
(* threads run and the updates arrive.  This ends with ROUTE_TIMEOUT, less *)
(* the difference of the clocks: no handler and no loop ever refreshes the *)
(* last_seen of a direct peer, so then live peers are dropped.             *)
(***************************************************************************)
RoutesInTime ==
    \A n \in Peers : \A k \in 1 .. MAX_HOP_COUNT - 1 :
        k - 1 <= now /\ now + Skew <= ROUTE_TIMEOUT =>
            \A d \in Within[k][n] \ Within[k - 1][n] :
                d \in DOMAIN route[n] /\ route[n][d].hops = k
=============================================================================
