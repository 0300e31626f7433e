----------------------------- MODULE PeerRouting -----------------------------
(***************************************************************************)
(* A network of PeerRouter objects (peer_router.cpp): distance-vector      *)
(* routes learned from direct peers.  Every action is one critical section *)
(* of routing_mutex_ in one peer.  Updates carry known_peers_ with its     *)
(* absolute last_seen, read on the steady_clock of whichever peer set it.  *)
(* Statistics and update sequence numbers are written and never read, so   *)
(* they are left out; of the metric only the outcome of a tie is kept.     *)
(***************************************************************************)
EXTENDS Naturals, Sequences, Functions, FiniteSetsExt

CONSTANTS
    Peers,          \* peer ids
    Links,          \* pairs <<n, p>>: n can have a connection to p
    Uptime,         \* peer -> how long its host has been up (epoch of steady_clock)
    MAX_HOP_COUNT,
    ROUTE_TIMEOUT,
    MaxTime,        \* bound: ticks of the clock
    MaxQueue,       \* bound: messages waiting on one connection
    MaxEvents       \* bound: connections made and lost, topology syncs, ticks

ASSUME PeersAssumption == IsFiniteSet(Peers)
ASSUME LinksAssumption == \A l \in Links : l \in Peers \X Peers /\ l[1] # l[2]
ASSUME NumbersAssumption ==
    /\ {ROUTE_TIMEOUT, MaxTime, MaxQueue, MaxEvents} \subseteq Nat
    /\ MAX_HOP_COUNT \in Nat \ {0, 1}
    /\ Uptime \in [Peers -> Nat]

VARIABLES
    direct,     \* peer -> keys of direct_connections_
    known,      \* peer -> known_peers_: peer id -> hop count, next hop, last_seen
    route,      \* peer -> routing_table_: peer id -> hop count, next hop, last_updated
    channel,    \* sender -> receiver -> messages under way, oldest first
    now,        \* time
    last_add,   \* history: peer -> the latest last_seen any add_direct_peer gave it
    events       \* bookkeeping for the bound MaxEvents

vars == <<direct, known, route, channel, now, last_add, events>>

Entry == [hops: Nat, next: Peers, time: Nat]
Message ==
    [type: {"sync"}] \cup
    [type: {"update"}, peers: UNION {[D -> [hops: Nat, time: Nat]] : D \in SUBSET Peers}]
TypeOK ==
    /\ direct \in [Peers -> SUBSET Peers]
    /\ DOMAIN known = Peers /\ DOMAIN route = Peers
    /\ \A n \in Peers : \A table \in {known[n], route[n]} :
          /\ DOMAIN table \subseteq Peers \ {n}
          /\ \A d \in DOMAIN table : table[d] \in Entry
    /\ channel \in [Peers -> [Peers -> Seq(Message)]]
    /\ now \in 0 .. MaxTime
    /\ last_add \in [Peers -> Nat]
    /\ events \in 0 .. MaxEvents

steady_clock(n) == now + Uptime[n]

is_expired(n, entry) ==
    steady_clock(n) > entry.time /\ steady_clock(n) - entry.time > ROUTE_TIMEOUT

\* a table with the entries of another one written over it
Overwrite(table, entries) ==
    [d \in DOMAIN table \cup DOMAIN entries |->
        IF d \in DOMAIN entries THEN entries[d] ELSE table[d]]

DirectEntry(n, p) == [d \in {p} |-> [hops |-> 1, next |-> p, time |-> steady_clock(n)]]

Neighbours(n) == {p \in Peers : <<n, p>> \in Links}

LinkedTable == [n \in Peers |-> [p \in Neighbours(n) |-> DirectEntry(n, p)[p]]]

\* every link is up, every peer has been through add_direct_peer and nothing was sent
Init ==
    /\ now = 0
    /\ direct = [n \in Peers |-> Neighbours(n)]
    /\ known = LinkedTable
    /\ route = LinkedTable
    /\ channel = [n \in Peers |-> [p \in Peers |-> <<>>]]
    /\ last_add = [p \in Peers |->
          Max({0} \cup {steady_clock(n) : n \in {m \in Peers : p \in Neighbours(m)}})]
    /\ events = 0

-----------------------------------------------------------------------------
Event == events < MaxEvents /\ events' = events + 1

\* also called for a peer that is direct already, when it shakes hands again
add_direct_peer(n, p) ==
    /\ <<n, p>> \in Links
    /\ Event
    /\ direct' = [direct EXCEPT ![n] = @ \cup {p}]
    /\ known' = [known EXCEPT ![n] = Overwrite(@, DirectEntry(n, p))]
    /\ route' = [route EXCEPT ![n] = Overwrite(@, DirectEntry(n, p))]
    /\ last_add' = [last_add EXCEPT ![p] = Max({@, steady_clock(n)})]
    /\ UNCHANGED <<channel, now>>

remove_peer(n, p) ==
    /\ p \in direct[n]
    /\ Event
    /\ direct' = [direct EXCEPT ![n] = @ \ {p}]
    /\ known' = [known EXCEPT ![n] = Restrict(@, DOMAIN @ \ {p})]
    /\ route' = [route EXCEPT ![n] =
                    Restrict(@, {d \in DOMAIN @ \ {p} : @[d].next # p})]
    /\ UNCHANGED <<channel, now, last_add>>

Room(n, p) == Len(channel[n][p]) < MaxQueue

\* broadcast_sender_: to every connection whose handshake is completed
Broadcast(n, m) ==
    /\ \A p \in direct[n] : Room(n, p)
    /\ channel' = [channel EXCEPT ![n] =
                      [p \in Peers |-> IF p \in direct[n] THEN Append(@[p], m) ELSE @[p]]]

\* what the receiver uses of known_peers_
RouteUpdate(n, D) ==
    [type |-> "update",
     peers |-> [d \in D |-> [hops |-> known[n][d].hops, time |-> known[n][d].time]]]

send_route_updates(n) ==
    /\ known[n] # <<>>
    /\ Broadcast(n, RouteUpdate(n, DOMAIN known[n]))
    /\ UNCHANGED <<direct, known, route, now, last_add, events>>

send_topology_sync(n) ==
    /\ known[n] # <<>>
    /\ Event
    /\ Broadcast(n, [type |-> "sync"])
    /\ UNCHANGED <<direct, known, route, now, last_add>>

Receives(n, p, type) == channel[p][n] # <<>> /\ Head(channel[p][n]).type = type

\* message_sender_ sends only over a connection whose handshake is completed
handle_topology_sync(n, p) ==
    /\ Receives(n, p, "sync")
    /\ Room(n, p)
    /\ LET rest == [channel EXCEPT ![p][n] = Tail(@)]
       IN  channel' = IF p \in direct[n]
                      THEN [rest EXCEPT ![n][p] =
                               Append(@, RouteUpdate(n, DOMAIN known[n] \ {p}))]
                      ELSE rest
    /\ UNCHANGED <<direct, known, route, now, last_add, events>>

\* the hop count of the update itself: both functions that build one set it to 0
message_hop_count == 0

\* mutant: off by one
Bug_OfferedHops(n, peers) == {d \in DOMAIN peers \ {n} : peers[d].hops + 1 <= MAX_HOP_COUNT}

\* the advertised peers that handle_route_update looks at
Offered(n, peers) ==
    {d \in DOMAIN peers \ {n} :
        message_hop_count < MAX_HOP_COUNT /\ peers[d].hops + 1 < MAX_HOP_COUNT}

\* mutants: any change of length is taken for an improvement; new peers are passed over
Bug_ImprovedChanged(n, peers) ==
    {d \in Offered(n, peers) :
        IF d \in DOMAIN known[n]
        THEN d \in DOMAIN route[n] /\ peers[d].hops + 1 # route[n][d].hops
        ELSE TRUE}
Bug_ImprovedKnown(n, peers) ==
    {d \in Offered(n, peers) : d \in DOMAIN route[n] /\ peers[d].hops + 1 < route[n][d].hops}

\* unknown, or with a route that the offer shortens; known without a route: never
Improved(n, peers) ==
    {d \in Offered(n, peers) :
        IF d \in DOMAIN known[n]
        THEN d \in DOMAIN route[n] /\ peers[d].hops + 1 < route[n][d].hops
        ELSE TRUE}

\* as long as the present route: the metric decides
Tied(n, peers) ==
    {d \in Offered(n, peers) \cap DOMAIN known[n] \cap DOMAIN route[n] :
        peers[d].hops + 1 = route[n][d].hops}

Via(p, peers, times) ==
    [d \in DOMAIN times |-> [hops |-> peers[d].hops + 1, next |-> p, time |-> times[d]]]

\* mutant: an update refreshes last_seen
Bug_handle_route_update(n, p) ==
    /\ Receives(n, p, "update")
    /\ LET peers == Head(channel[p][n]).peers
           learned == Via(p, peers, [d \in Improved(n, peers) |-> steady_clock(n)])
       IN  /\ known' = [known EXCEPT ![n] = Overwrite(@, learned)]
           /\ route' = [route EXCEPT ![n] = Overwrite(@, learned)]
    /\ channel' = [channel EXCEPT ![p][n] = Tail(@)]
    /\ UNCHANGED <<direct, now, last_add, events>>

handle_route_update(n, p) ==
    /\ Receives(n, p, "update")
    /\ LET peers == Head(channel[p][n]).peers
       IN  \E won \in SUBSET Tied(n, peers) :
              LET adopted == Improved(n, peers) \cup won
              IN  /\ known' = [known EXCEPT ![n] = Overwrite(@,
                                  Via(p, peers, [d \in adopted |-> peers[d].time]))]
                  /\ route' = [route EXCEPT ![n] = Overwrite(@,
                                  Via(p, peers, [d \in adopted |-> steady_clock(n)]))]
    /\ channel' = [channel EXCEPT ![p][n] = Tail(@)]
    /\ UNCHANGED <<direct, now, last_add, events>>

Alive(n, table) == {d \in DOMAIN table : ~is_expired(n, table[d])}

\* mutant: the route of an expired peer stays
Bug_cleanup_expired_entries(n) ==
    /\ known' = [known EXCEPT ![n] = Restrict(@, Alive(n, @))]
    /\ route' = [route EXCEPT ![n] = Restrict(@, Alive(n, @))]
    /\ UNCHANGED <<direct, channel, now, last_add, events>>

cleanup_expired_entries(n) ==
    /\ known' = [known EXCEPT ![n] = Restrict(@, Alive(n, @))]
    /\ route' = [route EXCEPT ![n] =
                    Restrict(@, Alive(n, @) \ (DOMAIN known[n] \ Alive(n, known[n])))]
    /\ UNCHANGED <<direct, channel, now, last_add, events>>

\* a closed connection drops what it still held
Lose(n, p) ==
    /\ p \notin direct[n] \/ n \notin direct[p]
    /\ channel[n][p] # <<>>
    /\ channel' = [channel EXCEPT ![n][p] = <<>>]
    /\ UNCHANGED <<direct, known, route, now, last_add, events>>

ClockTick ==
    /\ now < MaxTime
    /\ Event
    /\ now' = now + 1
    /\ UNCHANGED <<direct, known, route, channel, last_add>>

Next ==
    \/ \E n \in Peers : \/ send_route_updates(n) \/ send_topology_sync(n)
                       \/ cleanup_expired_entries(n)
    \/ \E n, p \in Peers : \/ handle_route_update(n, p) \/ handle_topology_sync(n, p)
                          \/ add_direct_peer(n, p) \/ remove_peer(n, p) \/ Lose(n, p)
    \/ ClockTick

Spec == Init /\ [][Next]_vars

-----------------------------------------------------------------------------
(***************************************************************************)
(* routing_table_ and known_peers_ agree: a route leads to a known peer,   *)
(* over the same next hop and with the same hop count, whatever removals   *)
(* and expiries came between the two halves of an update.                  *)
(***************************************************************************)
TablesAgree ==
    \A n \in Peers : \A d \in DOMAIN route[n] :
        /\ d \in DOMAIN known[n]
        /\ route[n][d].next = known[n][d].next
        /\ route[n][d].hops = known[n][d].hops

(***************************************************************************)
(* Counting to infinity ends: known_peers_ never holds a hop count of      *)
(* MAX_HOP_COUNT or more, and only a peer that is its own next hop is one  *)
(* hop away.                                                               *)
(***************************************************************************)
HopsBounded ==
    \A n \in Peers : \A d \in DOMAIN known[n] :
        /\ known[n][d].hops \in 1 .. MAX_HOP_COUNT - 1
        /\ known[n][d].hops = 1 <=> known[n][d].next = d

(***************************************************************************)
(* Relaying does not rejuvenate: what a peer believes of the last time a   *)
(* peer was seen is not later than the last time anybody connected to it,  *)
(* so a peer that is gone is forgotten by all once it has expired, even if *)
(* they go on telling one another about it.                                *)
(***************************************************************************)
LastSeenGenuine ==
    \A n \in Peers : \A d \in DOMAIN known[n] : known[n][d].time <= last_add[d]

(***************************************************************************)
(* A route is never replaced by a longer one: it has to be removed or to   *)
(* expire first.                                                           *)
(***************************************************************************)
RouteNeverGrows ==
    [][\A n \in Peers : \A d \in DOMAIN route[n] :
          d \in DOMAIN route'[n] => route'[n][d].hops <= route[n][d].hops]_vars

get_next_hop(n, d) ==
    IF d \in DOMAIN route[n] /\ ~is_expired(n, route[n][d]) THEN {route[n][d].next} ELSE {}

(***************************************************************************)
(* No two peers send what is for a third one to each other ("Prevent       *)
(* routing loops by checking hop count", handle_route_update).             *)
(***************************************************************************)
NoRoutingLoop ==
    \A n, p \in Peers : \A d \in Peers \ {n, p} :
        p \in get_next_hop(n, d) => n \notin get_next_hop(p, d)
=============================================================================
