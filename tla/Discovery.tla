----------------------------- MODULE Discovery -----------------------------
(***************************************************************************)
(* UdpDiscovery (udp_discovery.cpp) on the nodes of a local network, and   *)
(* what ConnectionManager::handle_peer_discovered does on its io thread.   *)
(*                                                                         *)
(* A node has an address, which it keeps, and draws a new peer id whenever *)
(* its daemon starts.  Datagrams can be lost.  Time advances in periods: a *)
(* step that only waits for the processor happens before the period ends.  *)
(* The discovery thread looks at the clock once in Poll only, so whatever  *)
(* is due may wait that long.  What takes time, too, is the connection     *)
(* attempt that the io thread makes for a new peer: it holds peers_mutex_  *)
(* for the whole of NetworkManager's connection_timeout_, because nobody   *)
(* runs the io_context of the new TcpClient.  A cleanup in the discovery   *)
(* thread waits for that mutex, and the thread announces nothing till then.*)
(***************************************************************************)
EXTENDS Naturals, FiniteSets, Functions

CONSTANTS
    Nodes,              \* addresses
    AnnounceInterval,   \* announcement_interval_, in periods
    CleanupInterval,    \* the interval of cleanup_expired_peers, in periods
    PeerTimeout,        \* peer_timeout_, in periods
    ConnectTimeout,     \* connection_timeout_ of NetworkManager, in periods
    Poll,               \* how long discovery_loop sleeps between two passes, in periods
    MaxStarts,          \* bound on the starts of a daemon
    MaxLost,            \* bound on the datagrams lost
    MaxQueries          \* bound on the calls of query_peers

ASSUME DiscoveryAssumption ==
    /\ IsFiniteSet(Nodes)
    /\ {AnnounceInterval, CleanupInterval, PeerTimeout, ConnectTimeout, Poll} \subseteq Nat
    /\ ConnectTimeout <= AnnounceInterval
    /\ {MaxStarts, MaxLost, MaxQueries} \subseteq Nat

VARIABLES
    mode,       \* node -> "off", "starting" (announce_self has not been called) or "on"
    starts,     \* node -> how often its daemon was started; with the node, its peer id
    seen,       \* node -> discovered_peers_: peer id -> periods since last_seen
    announced,  \* node -> periods since last_announcement_
    cleaned,    \* node -> periods since last_cleanup_
    loop,       \* node -> the discovery thread: "idle", or "cleanup" (it wants peers_mutex_)
    late,       \* node -> periods for which its discovery thread sleeps with work due
    wait,       \* node -> 0, or 1 + the periods the io thread still waits for a connection
    endpoints,  \* node -> connecting_endpoints_
    net,        \* datagrams on their way, or in the buffer of a socket
    lost,       \* datagrams lost so far
    queries     \* calls of query_peers so far

local == <<mode, starts, seen, announced, cleaned, loop, late, wait, endpoints>>
vars == <<mode, starts, seen, announced, cleaned, loop, late, wait, endpoints, net, lost, queries>>

PeerIds == Nodes \X (1..MaxStarts)
peer_id(n) == <<n, starts[n]>>
address(id) == id[1]
Listens(n) == mode[n] # "off"
Empty == [id \in {} |-> 0]

Datagrams == [to: Nodes, from: Nodes, type: {"announce", "query", "response"}, id: PeerIds]

\* an announcement is at most this old when it is forgotten
MaxAge == PeerTimeout + CleanupInterval + Poll + ConnectTimeout * (Cardinality(Nodes) - 1)

TypeOK ==
    /\ mode \in [Nodes -> {"off", "starting", "on"}]
    /\ starts \in [Nodes -> 0..MaxStarts]
    /\ seen = [n \in Nodes |-> seen[n]]
    /\ \A n \in Nodes : /\ seen[n] \in [DOMAIN seen[n] -> Nat]
                         /\ DOMAIN seen[n] \subseteq PeerIds \ {peer_id(n)}
    /\ announced \in [Nodes -> Nat] /\ cleaned \in [Nodes -> Nat]
    /\ loop \in [Nodes -> {"idle", "cleanup"}] /\ late \in [Nodes -> 0..Poll]
    /\ wait \in [Nodes -> 0..ConnectTimeout + 1]
    /\ endpoints \in [Nodes -> SUBSET Nodes]
    /\ net \subseteq Datagrams
    /\ lost \in 0..MaxLost /\ queries \in 0..MaxQueries

Init ==
    /\ mode = [n \in Nodes |-> "off"] /\ starts = [n \in Nodes |-> 0]
    /\ seen = [n \in Nodes |-> Empty]
    /\ announced = [n \in Nodes |-> 0] /\ cleaned = [n \in Nodes |-> 0]
    /\ loop = [n \in Nodes |-> "idle"] /\ late = [n \in Nodes |-> 0]
    /\ wait = [n \in Nodes |-> 0]
    /\ endpoints = [n \in Nodes |-> {}]
    /\ net = {} /\ lost = 0 /\ queries = 0

-----------------------------------------------------------------------------
(* Starting and stopping. *)

\* the constructors, and UdpDiscovery::start: both threads run
start(n) ==
    /\ mode[n] = "off" /\ starts[n] < MaxStarts
    /\ mode' = [mode EXCEPT ![n] = "starting"]
    /\ starts' = [starts EXCEPT ![n] = @ + 1]
    /\ UNCHANGED <<seen, announced, cleaned, loop, late, wait, endpoints, net, lost, queries>>

\* the datagrams of a multicast from n; loopback is disabled
Multicast(n, type) ==
    {[to |-> m, from |-> n, type |-> type, id |-> peer_id(n)] :
        m \in {m \in Nodes \ {n} : Listens(m)}}

announce_self(n) ==
    /\ mode[n] = "starting"
    /\ mode' = [mode EXCEPT ![n] = "on"]
    /\ net' = net \cup Multicast(n, "announce")
    /\ announced' = [announced EXCEPT ![n] = 0]
    /\ UNCHANGED <<starts, seen, cleaned, loop, late, wait, endpoints, lost, queries>>

\* the daemon is killed: what it knew is gone, and what waits in its socket
Killed(n) ==
    /\ Listens(n)
    /\ mode' = [mode EXCEPT ![n] = "off"]
    /\ seen' = [seen EXCEPT ![n] = Empty]
    /\ announced' = [announced EXCEPT ![n] = 0] /\ cleaned' = [cleaned EXCEPT ![n] = 0]
    /\ loop' = [loop EXCEPT ![n] = "idle"] /\ late' = [late EXCEPT ![n] = 0]
    /\ wait' = [wait EXCEPT ![n] = 0]
    /\ endpoints' = [endpoints EXCEPT ![n] = {}]
    /\ net' = {d \in net : d.to # n}
    /\ UNCHANGED <<starts, lost, queries>>

-----------------------------------------------------------------------------
(* The discovery thread. *)

Due(n) == announced[n] >= AnnounceInterval \/ cleaned[n] >= CleanupInterval

\* mutant: a node announces itself only when it starts
Bug_discovery_loop(n) ==
    /\ Listens(n) /\ loop[n] = "idle" /\ Due(n)
    /\ announced' = [announced EXCEPT ![n] = 0] /\ late' = [late EXCEPT ![n] = 0]
    /\ loop' = IF cleaned[n] >= CleanupInterval THEN [loop EXCEPT ![n] = "cleanup"] ELSE loop
    /\ UNCHANGED <<mode, starts, seen, cleaned, wait, endpoints, net, lost, queries>>

\* one pass that finds something to do: send_announcement, then the call of the cleanup.
\* It comes up to Poll after there is something to do, or after the last cleanup returned.
discovery_loop(n) ==
    /\ Listens(n) /\ loop[n] = "idle" /\ Due(n)
    /\ IF announced[n] >= AnnounceInterval /\ mode[n] = "on"
       THEN /\ net' = net \cup Multicast(n, "announce")
            /\ announced' = [announced EXCEPT ![n] = 0]
       ELSE UNCHANGED <<net, announced>>
    /\ late' = [late EXCEPT ![n] = 0]
    /\ loop' = IF cleaned[n] >= CleanupInterval THEN [loop EXCEPT ![n] = "cleanup"] ELSE loop
    /\ UNCHANGED <<mode, starts, seen, cleaned, wait, endpoints, lost, queries>>

Expired(n) == {id \in DOMAIN seen[n] : seen[n][id] > PeerTimeout}

\* mutant: the iterator is advanced after an erase, too, and passes over the next peer
Bug_cleanup_expired_peers(n) ==
    /\ loop[n] = "cleanup" /\ wait[n] = 0
    /\ \E gone \in SUBSET Expired(n) :
          /\ Expired(n) # {} => gone # {}
          /\ seen' = [seen EXCEPT ![n] = Restrict(@, DOMAIN @ \ gone)]
    /\ cleaned' = [cleaned EXCEPT ![n] = 0]
    /\ loop' = [loop EXCEPT ![n] = "idle"]
    /\ UNCHANGED <<mode, starts, announced, late, wait, endpoints, net, lost, queries>>

\* with peers_mutex_; handle_peer_lost only logs
cleanup_expired_peers(n) ==
    /\ loop[n] = "cleanup" /\ wait[n] = 0
    /\ seen' = [seen EXCEPT ![n] = Restrict(@, DOMAIN @ \ Expired(n))]
    /\ cleaned' = [cleaned EXCEPT ![n] = 0]
    /\ loop' = [loop EXCEPT ![n] = "idle"]
    /\ UNCHANGED <<mode, starts, announced, late, wait, endpoints, net, lost, queries>>

-----------------------------------------------------------------------------
(* The io thread: do_receive and handle_discovery_message. *)

Receives(n, d) == d \in net /\ d.to = n /\ wait[n] = 0

\* ConnectionManager::connect_to_peer, for an endpoint that was not tried yet: the
\* endpoint is never removed again, and the thread waits for the whole timeout
connect_to_peer(n, endpoint) ==
    IF endpoint \in endpoints[n] THEN UNCHANGED <<endpoints, wait>>
    ELSE /\ endpoints' = [endpoints EXCEPT ![n] = @ \cup {endpoint}]
         /\ wait' = [wait EXCEPT ![n] = ConnectTimeout + 1]

\* our own announcements are ignored; the sender's address replaces the one in the message
Own(n, d) == d.id = peer_id(n)
Is_new(n, d) == ~Own(n, d) /\ d.id \notin DOMAIN seen[n]

\* last_seen of a peer that is new or known already
Heard(peers, id) == [p \in DOMAIN peers \cup {id} |-> IF p = id THEN 0 ELSE peers[p]]

\* mutant: what is known of a peer is not refreshed
Bug_handle_peer_announce(n, d) ==
    /\ Receives(n, d) /\ d.type \in {"announce", "response"}
    /\ seen' = [seen EXCEPT ![n] = IF Is_new(n, d) THEN Heard(@, d.id) ELSE @]
    /\ IF Is_new(n, d) THEN connect_to_peer(n, address(d.id)) ELSE UNCHANGED <<endpoints, wait>>
    /\ net' = net \ {d}
    /\ UNCHANGED <<mode, starts, announced, cleaned, loop, late, lost, queries>>

\* handle_peer_response does the same
handle_peer_announce(n, d) ==
    /\ Receives(n, d) /\ d.type \in {"announce", "response"}
    /\ seen' = IF Own(n, d) THEN seen ELSE [seen EXCEPT ![n] = Heard(@, d.id)]
    /\ IF Is_new(n, d) THEN connect_to_peer(n, address(d.id)) ELSE UNCHANGED <<endpoints, wait>>
    /\ net' = net \ {d}
    /\ UNCHANGED <<mode, starts, announced, cleaned, loop, late, lost, queries>>

\* no answer while local_peer_id_ is 0
handle_peer_query(n, d) ==
    /\ Receives(n, d) /\ d.type = "query"
    /\ net' = (net \ {d}) \cup
              {r \in Multicast(n, "response") : mode[n] = "on" /\ r.to = d.from}
    /\ UNCHANGED <<local, lost, queries>>

\* NetworkManager::connect_to_peer gives up waiting, and releases the mutexes
ConnectReturns(n) ==
    /\ wait[n] = 1
    /\ wait' = [wait EXCEPT ![n] = 0]
    /\ UNCHANGED <<mode, starts, seen, announced, cleaned, loop, late, endpoints, net, lost, queries>>

\* a user of the class asks who is there
query_peers(n) ==
    /\ Listens(n) /\ queries < MaxQueries
    /\ queries' = queries + 1
    /\ net' = net \cup Multicast(n, "query")
    /\ UNCHANGED <<local, lost>>

-----------------------------------------------------------------------------
(* The network, and time. *)

Lose(d) ==
    /\ lost < MaxLost
    /\ lost' = lost + 1
    /\ net' = net \ {d}
    /\ UNCHANGED <<local, queries>>

\* the discovery thread sleeps although there is something to do
Sleeps(n) == Listens(n) /\ loop[n] = "idle" /\ Due(n)

Urgent(n) ==
    \/ mode[n] = "starting"
    \/ Sleeps(n) /\ late[n] = Poll
    \/ loop[n] = "cleanup" /\ wait[n] = 0
    \/ wait[n] = 1
    \/ \E d \in net : Receives(n, d)

Tick ==
    /\ \A n \in Nodes : ~Urgent(n)
    /\ seen' = [n \in Nodes |-> [id \in DOMAIN seen[n] |-> seen[n][id] + 1]]
    /\ announced' = [n \in Nodes |-> IF Listens(n) THEN announced[n] + 1 ELSE 0]
    /\ cleaned' = [n \in Nodes |-> IF Listens(n) THEN cleaned[n] + 1 ELSE 0]
    /\ late' = [n \in Nodes |-> IF Sleeps(n) THEN late[n] + 1 ELSE late[n]]
    /\ wait' = [n \in Nodes |-> IF wait[n] > 1 THEN wait[n] - 1 ELSE wait[n]]
    /\ UNCHANGED <<mode, starts, loop, endpoints, net, lost, queries>>

Steps(n) ==
    \/ announce_self(n) \/ discovery_loop(n) \/ cleanup_expired_peers(n) \/ ConnectReturns(n)
    \/ \E d \in net : handle_peer_announce(n, d) \/ handle_peer_query(n, d)

Next ==
    \/ Tick
    \/ \E n \in Nodes : Steps(n) \/ start(n) \/ Killed(n) \/ query_peers(n)
    \/ \E d \in net : Lose(d)

Spec == Init /\ [][Next]_vars

(* The threads run and time passes; nobody has to start, kill, query or lose. *)
FairSpec == Spec /\ WF_vars(Tick \/ \E n \in Nodes : Steps(n))

-----------------------------------------------------------------------------
\* between two announcements, unless a connection attempt delays the second
Longest == AnnounceInterval + Poll

\* what the losses so far, and the connection attempts of two nodes but for one, can add to
\* the time between two announcements that arrive
Excuse ==
    Longest * (1 + lost) + ConnectTimeout * (2 * Cardinality(Nodes) - 3)

(***************************************************************************)
(* cleanup_expired_peers drops a peer that is alive only when the losses   *)
(* so far and the connection attempts that stop announcements and receipts *)
(* excuse it: for every loss a whole interval and a sleep of the discovery *)
(* thread, for every attempt its timeout.  With the intervals of the code  *)
(* (30, 1, 30 and 120 seconds) no live peer is dropped on a network of two *)
(* nodes before the second loss (31 * 2 + 30 <= 120); the second loss      *)
(* (31 * 3 + 30), or a third node (31 + 90), is an excuse.                 *)
(***************************************************************************)
LivePeerKept ==
    [][\A n, p \in Nodes :
          /\ mode[n] = "on" /\ mode'[n] = "on" /\ mode[p] = "on"
          /\ peer_id(p) \in DOMAIN seen[n] /\ peer_id(p) \notin DOMAIN seen'[n]
          => Excuse > PeerTimeout]_vars

(***************************************************************************)
(* A peer that is shown as discovered was heard of not long ago: within    *)
(* peer_timeout_, the interval of the cleanup, one sleep of the discovery  *)
(* thread and one connection attempt for every other node.                 *)
(***************************************************************************)
KnownIsRecent == \A n \in Nodes : \A id \in DOMAIN seen[n] : seen[n][id] <= MaxAge

(***************************************************************************)
(* Two nodes that stay on come to know each other for good, whichever      *)
(* started first and whatever was lost before.                             *)
(***************************************************************************)
EventuallyKnown ==
    \A n, p \in Nodes :
        n # p /\ <>[](mode[n] = "on" /\ mode[p] = "on") => <>[](peer_id(p) \in DOMAIN seen[n])
=============================================================================
