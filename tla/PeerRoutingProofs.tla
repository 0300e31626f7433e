-------------------------- MODULE PeerRoutingProofs --------------------------
(***************************************************************************)
(* Safety of the routing tables for every finite network, every assignment *)
(* of uptimes, every MAX_HOP_COUNT and every ROUTE_TIMEOUT.                *)
(***************************************************************************)
EXTENDS PeerRouting, FiniteSetTheorems, WellFoundedInduction, SequenceTheorems, TLAPS

(***************************************************************************)
(* What is under way was true of its sender: a peer advertises neither     *)
(* itself nor a hop count that it would not have accepted, and no last_seen*)
(* that is later than the peer's last connection.  Without this the        *)
(* invariants on the tables are not inductive.                             *)
(***************************************************************************)
Advertised(p, peers) ==
    \A d \in DOMAIN peers :
        /\ d \in Peers \ {p}
        /\ peers[d].hops \in 1 .. MAX_HOP_COUNT - 1
        /\ peers[d].time \in Nat /\ peers[d].time <= last_add[d]

ChannelsGenuine ==
    \A p, n \in Peers : \A i \in 1 .. Len(channel[p][n]) :
        channel[p][n][i].type = "update" => Advertised(p, channel[p][n][i].peers)

\* what the invariants say of the two tables of one peer, readings bounded by last
TablesGood(n, knows, routes, last) ==
    /\ DOMAIN knows \subseteq Peers \ {n} /\ DOMAIN routes \subseteq DOMAIN knows
    /\ \A d \in DOMAIN knows :
          /\ knows[d] \in Entry
          /\ knows[d].hops \in 1 .. MAX_HOP_COUNT - 1
          /\ knows[d].hops = 1 <=> knows[d].next = d
          /\ knows[d].time <= last[d]
    /\ \A d \in DOMAIN routes :
          /\ routes[d] \in Entry
          /\ routes[d].next = knows[d].next
          /\ routes[d].hops = knows[d].hops

IInv ==
    /\ TypeOK
    /\ TablesAgree
    /\ HopsBounded
    /\ LastSeenGenuine
    /\ ChannelsGenuine

-----------------------------------------------------------------------------
\* A non-empty set of naturals has a least element.
LEMMA LeastNatural ==
    ASSUME NEW T \in SUBSET Nat, T # {}
    PROVE  \E x \in T : \A y \in T : x <= y
<1>1. \E x \in T : \A y \in T : ~ (<<y, x>> \in OpToRel(<, Nat))
  BY NatLessThanWellFounded, WFMin
<1>2. OpToRel(<, Nat) = {ss \in Nat \X Nat : ss[1] < ss[2]}
  BY DEF OpToRel
<1>3. PICK x \in T : \A y \in T : ~ (<<y, x>> \in OpToRel(<, Nat))
  BY <1>1
<1>4. ASSUME NEW y \in T, y < x
      PROVE  FALSE
  <2>1. <<y, x>> \in {ss \in Nat \X Nat : ss[1] < ss[2]}
    BY <1>4
  <2>2. QED
    BY <1>2, <1>3, <2>1
<1>5. QED
  BY <1>4

\* A set of naturals that contains 0 and has an upper bound has a largest element.
LEMMA MaxOfBounded ==
    ASSUME NEW S \in SUBSET Nat, 0 \in S, NEW b \in Nat, \A x \in S : x <= b
    PROVE  Max(S) \in S /\ \A x \in S : x <= Max(S)
<1> DEFINE T == {u \in Nat : \A x \in S : x <= u}
<1>1. b \in T /\ T \in SUBSET Nat
  OBVIOUS
<1>2. PICK m \in T : \A u \in T : m <= u
  BY <1>1, LeastNatural
<1>3. m \in S
  <2>1. CASE m = 0
    BY <2>1
  <2>2. CASE m # 0
    <3>1. m - 1 \in Nat /\ m - 1 \notin T
      BY <1>2, <2>2
    <3>2. PICK x \in S : ~(x <= m - 1)
      BY <3>1
    <3>3. x = m
      BY <1>2, <3>1, <3>2
    <3>4. QED
      BY <3>3
  <2>3. QED
    BY <2>1, <2>2
<1>4. \A x \in S : m >= x
  BY <1>2
<1>5. QED
  BY <1>3, <1>4 DEF Max

\* The uptimes of finitely many hosts are bounded.
LEMMA UptimesBounded ==
    \E b \in Nat : \A p \in Peers : Uptime[p] <= b
<1>1. PICK N \in Nat : ExistsSurjection(1 .. N, Peers)
  BY PeersAssumption, FS_NatSurjection
<1>2. PICK f \in [1 .. N -> Peers] : \A p \in Peers : \E i \in 1 .. N : f[i] = p
  BY <1>1 DEF ExistsSurjection, Surjection
<1> DEFINE Bounds(b, k) == \A i \in 1 .. k : Uptime[f[i]] <= b
           T == {k \in 0 .. N : \A b \in Nat : ~Bounds(b, k)}
<1>3. T = {}
  <2>1. SUFFICES ASSUME T # {} PROVE FALSE
    OBVIOUS
  <2>2. PICK k \in T : \A j \in T : k <= j
    <3>1. T \in SUBSET Nat
      OBVIOUS
    <3>2. QED
      BY <2>1, <3>1, LeastNatural
  <2>3. k \in 0 .. N /\ k # 0
    BY <2>2
  <2>4. k - 1 \in 0 .. N /\ k - 1 \notin T
    <3> HIDE DEF T
    <3>1. k - 1 \in 0 .. N /\ ~(k <= k - 1)
      BY <2>3
    <3>2. QED
      BY <2>2, <3>1
  <2>5. PICK b \in Nat : Bounds(b, k - 1)
    BY <2>4
  <2>6. f[k] \in Peers
    BY <1>1, <1>2, <2>2, <2>3 
  <2>7. Uptime[f[k]] \in Nat
    BY <2>6, NumbersAssumption
  <2>8. PICK c \in Nat : b <= c /\ Uptime[f[k]] <= c
    BY <2>7
  <2>9. ASSUME NEW i \in 1 .. k - 1 PROVE Uptime[f[i]] \in Nat
    <3>1. i \in 1 .. N
      BY <1>1, <2>3
    <3>2. f[i] \in Peers
      BY <3>1, Zenon
    <3>3. QED
      BY <3>2, NumbersAssumption
  <2>10. Bounds(c, k)
    BY <1>2, <2>2, <2>5, <2>8, <2>9
  <2>11. QED
    BY <2>2, <2>10
<1>4. PICK b \in Nat : Bounds(b, N)
  <2>1. N \in 0 .. N
    OBVIOUS
  <2>2. QED
    BY <1>3, <2>1
<1>5. QED
  BY <1>2, <1>4

\* The latest of the readings that Init takes is a number, and none is later.
LEMMA LatestReading ==
    ASSUME NEW R \in SUBSET Peers
    PROVE  LET S == {0} \cup {0 + Uptime[n] : n \in R}
           IN  Max(S) \in Nat /\ \A n \in R : Uptime[n] <= Max(S)
<1> DEFINE S == {0} \cup {0 + Uptime[n] : n \in R}
<1>1. \A n \in R : n \in Peers /\ Uptime[n] \in Nat
  BY NumbersAssumption
<1>2. S \in SUBSET Nat
  BY <1>1
<1>3. PICK b \in Nat : \A q \in Peers : Uptime[q] <= b
  BY UptimesBounded
<1>4. \A x \in S : x <= b
  BY <1>1, <1>3
<1> HIDE DEF S
<1>5. Max(S) \in S /\ \A x \in S : x <= Max(S)
  BY <1>2, <1>4, MaxOfBounded DEF S
<1>6. QED
  BY <1>1, <1>2, <1>5 DEF S

LEMMA MaxOfTwo ==
    ASSUME NEW x \in Nat, NEW y \in Nat
    PROVE  Max({x, y}) \in Nat /\ x <= Max({x, y}) /\ y <= Max({x, y})
<1>1. \E z \in {x, y} : \A w \in {x, y} : z >= w
  OBVIOUS
<1>2. QED
  BY <1>1 DEF Max

-----------------------------------------------------------------------------
\* What is left of TypeOK once the tables are taken peer by peer.
Frame ==
    /\ direct \in [Peers -> SUBSET Peers]
    /\ DOMAIN known = Peers /\ DOMAIN route = Peers
    /\ channel \in [Peers -> [Peers -> Seq(Message)]]
    /\ now \in 0 .. MaxTime
    /\ last_add \in [Peers -> Nat]
    /\ events \in 0 .. MaxEvents

\* The inductive invariant, peer by peer.
LEMMA PeerByPeer ==
    IInv <=> /\ Frame
             /\ \A n \in Peers : TablesGood(n, known[n], route[n], last_add)
             /\ ChannelsGenuine
<1>1. ASSUME IInv, NEW n \in Peers
      PROVE  TablesGood(n, known[n], route[n], last_add)
  <2>1. /\ DOMAIN known[n] \subseteq Peers \ {n}
        /\ \A d \in DOMAIN known[n] : known[n][d] \in Entry
        /\ \A d \in DOMAIN route[n] : route[n][d] \in Entry
    BY <1>1 DEF IInv, TypeOK
  <2>2. QED
    BY <1>1, <2>1 DEF IInv, TablesAgree, HopsBounded, LastSeenGenuine, TablesGood
<1>2. ASSUME Frame, ChannelsGenuine,
             \A n \in Peers : TablesGood(n, known[n], route[n], last_add)
      PROVE  IInv
  <2>1. TypeOK
    <3>1. ASSUME NEW n \in Peers, NEW table \in {known[n], route[n]}
          PROVE  /\ DOMAIN table \subseteq Peers \ {n}
                 /\ \A d \in DOMAIN table : table[d] \in Entry
      <4>1. TablesGood(n, known[n], route[n], last_add)
        BY <1>2
      <4>2. CASE table = known[n]
        BY <4>1, <4>2 DEF TablesGood
      <4>3. CASE table = route[n]
        BY <4>1, <4>3 DEF TablesGood
      <4>4. QED
        BY <4>2, <4>3
    <3>2. QED
      BY <1>2, <3>1 DEF TypeOK, Frame
  <2>2. TablesAgree
    BY <1>2 DEF TablesGood, TablesAgree
  <2>3. HopsBounded
    BY <1>2 DEF TablesGood, HopsBounded
  <2>4. LastSeenGenuine
    BY <1>2 DEF TablesGood, LastSeenGenuine
  <2>5. QED
    BY <1>2, <2>1, <2>2, <2>3, <2>4 DEF IInv
<1>3. IInv => Frame /\ ChannelsGenuine
  BY DEF IInv, Frame, TypeOK
<1>4. QED
  BY <1>1, <1>2, <1>3

\* Forgetting entries keeps the tables good if no route outlives its peer's entry.
LEMMA ForgettingIsGood ==
    ASSUME NEW n, NEW knows, NEW routes, NEW last, NEW K, NEW R,
           TablesGood(n, knows, routes, last),
           K \subseteq DOMAIN knows, R \subseteq DOMAIN routes, R \subseteq K
    PROVE  TablesGood(n, Restrict(knows, K), Restrict(routes, R), last)
<1>1. \A d \in K : Restrict(knows, K)[d] = knows[d]
  BY DEF Restrict
<1>2. \A d \in R : Restrict(routes, R)[d] = routes[d]
  BY DEF Restrict
<1>3. DOMAIN Restrict(knows, K) = K /\ DOMAIN Restrict(routes, R) = R
  BY DEF Restrict
<1>4. QED
  BY <1>1, <1>2, <1>3 DEF TablesGood

\* So does writing good entries for the same peers into both.
LEMMA LearningIsGood ==
    ASSUME NEW n, NEW knows, NEW routes, NEW last, NEW k, NEW r,
           TablesGood(n, knows, routes, last), TablesGood(n, k, r, last),
           DOMAIN r = DOMAIN k
    PROVE  TablesGood(n, Overwrite(knows, k), Overwrite(routes, r), last)
<1>1. /\ DOMAIN Overwrite(knows, k) = DOMAIN knows \cup DOMAIN k
      /\ DOMAIN Overwrite(routes, r) = DOMAIN routes \cup DOMAIN k
  BY DEF Overwrite
<1>2. \A d \in DOMAIN k : Overwrite(knows, k)[d] = k[d] /\ Overwrite(routes, r)[d] = r[d]
  BY DEF Overwrite
<1>3. \A d \in DOMAIN knows \ DOMAIN k : Overwrite(knows, k)[d] = knows[d]
  BY DEF Overwrite
<1>4. \A d \in DOMAIN routes \ DOMAIN k : Overwrite(routes, r)[d] = routes[d]
  BY DEF Overwrite
<1>5. QED
  BY <1>1, <1>2, <1>3, <1>4 DEF TablesGood

\* last_add only grows, which keeps everything good.
LEMMA LaterIsGood ==
    ASSUME NEW n, NEW knows, NEW routes,
           NEW last \in [Peers -> Nat], NEW later \in [Peers -> Nat],
           \A d \in Peers : last[d] <= later[d],
           TablesGood(n, knows, routes, last)
    PROVE  TablesGood(n, knows, routes, later)
<1>1. ASSUME NEW d \in DOMAIN knows
      PROVE  knows[d].time <= later[d]
  <2>1. d \in Peers /\ knows[d].time \in Nat /\ knows[d].time <= last[d]
    BY DEF TablesGood, Entry
  <2>2. QED
    BY <2>1
<1>2. QED
  BY <1>1 DEF TablesGood

-----------------------------------------------------------------------------
LEMMA InitIInv == Init => IInv
<1> SUFFICES ASSUME Init PROVE IInv
  OBVIOUS
<1>1. \A n \in Peers : /\ Neighbours(n) \subseteq Peers \ {n}
                       /\ steady_clock(n) = Uptime[n] /\ Uptime[n] \in Nat
  BY LinksAssumption, NumbersAssumption DEF Init, Neighbours, steady_clock
<1>2. \A n \in Peers : /\ DOMAIN known[n] = Neighbours(n)
                       /\ \A d \in Neighbours(n) :
                             known[n][d] = [hops |-> 1, next |-> d, time |-> Uptime[n]]
  BY <1>1 DEF Init, LinkedTable, DirectEntry
<1>3. route = known /\ DOMAIN known = Peers
  BY DEF Init, LinkedTable
<1>4. ASSUME NEW p \in Peers
      PROVE  last_add[p] \in Nat /\ \A n \in Peers : p \in Neighbours(n) => Uptime[n] <= last_add[p]
  <2> DEFINE R == {m \in Peers : p \in Neighbours(m)}
  <2>1. last_add[p] = Max({0} \cup {0 + Uptime[n] : n \in R})
    BY DEF Init, steady_clock
  <2>2. R \in SUBSET Peers
    OBVIOUS
  <2> HIDE DEF R
  <2>3. last_add[p] \in Nat /\ \A n \in R : Uptime[n] <= last_add[p]
    BY <2>1, <2>2, LatestReading
  <2>4. QED
    BY <2>3 DEF R
<1>5. ASSUME NEW n \in Peers
      PROVE  TablesGood(n, known[n], route[n], last_add)
  <2>1. ASSUME NEW d \in DOMAIN known[n]
        PROVE  /\ known[n][d] = [hops |-> 1, next |-> d, time |-> Uptime[n]]
               /\ d \in Peers /\ Uptime[n] \in Nat /\ Uptime[n] <= last_add[d]
    BY <1>1, <1>2, <1>4, <2>1
  <2>2. ASSUME NEW d \in DOMAIN known[n]
        PROVE  known[n][d] \in Entry
    <3>1. [hops |-> 1, next |-> d, time |-> Uptime[n]] \in Entry
      BY <2>1 DEF Entry
    <3>2. QED
      BY <2>1, <3>1
  <2>3. QED
    BY <1>1, <1>2, <1>3, <2>1, <2>2, NumbersAssumption DEF TablesGood
<1>6. Frame
  <2>1. channel \in [Peers -> [Peers -> Seq(Message)]]
    BY DEF Init
  <2>2. last_add \in [Peers -> Nat]
    BY <1>4 DEF Init
  <2>3. QED
    BY <1>1, <1>3, <2>1, <2>2, NumbersAssumption DEF Frame, Init
<1>7. ChannelsGenuine
  BY DEF ChannelsGenuine, Init
<1>8. QED
  BY <1>5, <1>6, <1>7, PeerByPeer

-----------------------------------------------------------------------------
LEMMA PeerByPeerNext ==
    /\ Frame'
    /\ (\A n \in Peers : TablesGood(n, known[n], route[n], last_add))'
    /\ ChannelsGenuine'
    => IInv'
BY PeerByPeer, PTL

\* A step keeps the channels genuine if what it adds is, for last_add only grows.
LEMMA StillGenuine ==
    ASSUME IInv, last_add' \in [Peers -> Nat],
           \A d \in Peers : last_add[d] <= last_add'[d],
           \A p, n \in Peers : \A i \in 1 .. Len(channel'[p][n]) :
              \/ \E j \in 1 .. Len(channel[p][n]) : channel'[p][n][i] = channel[p][n][j]
              \/ channel'[p][n][i].type = "update" =>
                    Advertised(p, channel'[p][n][i].peers)
    PROVE  ChannelsGenuine'
<1> SUFFICES ASSUME NEW p \in Peers, NEW n \in Peers, NEW i \in 1 .. Len(channel'[p][n]),
                    channel'[p][n][i].type = "update"
             PROVE  Advertised(p, channel[p][n][i].peers)'
  BY DEF ChannelsGenuine
<1> DEFINE peers == channel'[p][n][i].peers
<1>1. Advertised(p, peers)
  BY DEF IInv, ChannelsGenuine
<1> HIDE DEF peers
<1>2. ASSUME NEW d \in DOMAIN peers
      PROVE  /\ d \in Peers \ {p}
             /\ peers[d].hops \in 1 .. MAX_HOP_COUNT - 1
             /\ peers[d].time \in Nat /\ peers[d].time <= last_add'[d]
  <2>1. /\ d \in Peers \ {p}
        /\ peers[d].hops \in 1 .. MAX_HOP_COUNT - 1
        /\ peers[d].time \in Nat /\ peers[d].time <= last_add[d]
    BY <1>1 DEF Advertised
  <2>2. last_add[d] \in Nat /\ last_add'[d] \in Nat /\ last_add[d] <= last_add'[d]
    BY <2>1 DEF IInv, TypeOK
  <2>3. QED
    BY <2>1, <2>2
<1>3. QED
  BY <1>2 DEF Advertised, peers

\* A route update tells the truth about the tables it is taken from.
LEMMA UpdateGenuine ==
    ASSUME IInv, NEW n \in Peers, NEW D \in SUBSET DOMAIN known[n]
    PROVE  RouteUpdate(n, D) \in Message /\ Advertised(n, RouteUpdate(n, D).peers)
<1>1. TablesGood(n, known[n], route[n], last_add)
  BY PeerByPeer
<1> DEFINE peers == [d \in D |-> [hops |-> known[n][d].hops, time |-> known[n][d].time]]
<1>2. ASSUME NEW d \in D
      PROVE  /\ d \in Peers \ {n}
             /\ known[n][d].hops \in Nat /\ known[n][d].time \in Nat
             /\ known[n][d].hops \in 1 .. MAX_HOP_COUNT - 1
             /\ known[n][d].time <= last_add[d]
  BY <1>1 DEF TablesGood, Entry
<1>3. Advertised(n, peers)
  BY <1>2 DEF Advertised
<1>4. D \in SUBSET Peers /\ peers \in [D -> [hops: Nat, time: Nat]]
  BY <1>2
<1> HIDE DEF peers
<1>5. peers \in UNION {[E -> [hops: Nat, time: Nat]] : E \in SUBSET Peers}
  BY <1>4
<1>6. RouteUpdate(n, D) = [type |-> "update", peers |-> peers]
  BY DEF RouteUpdate, peers
<1>7. QED
  BY <1>3, <1>5, <1>6 DEF Message

LEMMA ClockIsNatural ==
    ASSUME IInv, NEW n \in Peers
    PROVE  steady_clock(n) \in Nat
BY NumbersAssumption DEF IInv, TypeOK, steady_clock

\* The other peers' tables are left alone by a step of n.
LEMMA OneTable ==
    ASSUME IInv, NEW n \in Peers, NEW k, NEW r,
           known' = [known EXCEPT ![n] = k], route' = [route EXCEPT ![n] = r],
           TablesGood(n, k, r, last_add), last_add' = last_add
    PROVE  /\ DOMAIN known' = Peers /\ DOMAIN route' = Peers
           /\ (\A m \in Peers : TablesGood(m, known[m], route[m], last_add))'
<1>1. DOMAIN known = Peers /\ DOMAIN route = Peers
  BY DEF IInv, TypeOK
<1>2. \A m \in Peers : TablesGood(m, known[m], route[m], last_add)
  BY PeerByPeer
<1>3. ASSUME NEW m \in Peers
      PROVE  TablesGood(m, known'[m], route'[m], last_add')
  <2>1. CASE m = n
    BY <1>1, <2>1
  <2>2. CASE m # n
    <3>1. known'[m] = known[m] /\ route'[m] = route[m]
      BY <1>1, <2>2
    <3>2. QED
      BY <1>2, <3>1
  <2>3. QED
    BY <2>1, <2>2
<1>4. QED
  BY <1>1, <1>3 DEF TablesGood

-----------------------------------------------------------------------------
LEMMA AddDirectPeer ==
    ASSUME IInv, NEW n \in Peers, NEW p \in Peers, add_direct_peer(n, p)
    PROVE  IInv'
<1> DEFINE entry == DirectEntry(n, p)
<1>1. steady_clock(n) \in Nat /\ last_add[p] \in Nat /\ p # n
  BY ClockIsNatural, LinksAssumption DEF IInv, TypeOK, add_direct_peer
<1>2. /\ last_add' \in [Peers -> Nat]
      /\ \A d \in Peers : last_add[d] <= last_add'[d]
      /\ steady_clock(n) <= last_add'[p]
  <2> DEFINE latest == Max({last_add[p], steady_clock(n)})
  <2>1. latest \in Nat /\ last_add[p] <= latest /\ steady_clock(n) <= latest
    BY <1>1, MaxOfTwo
  <2>2. last_add' = [last_add EXCEPT ![p] = latest]
    BY DEF add_direct_peer
  <2> HIDE DEF latest
  <2>3. QED
    BY <2>1, <2>2, SMTT(30) DEF IInv, TypeOK
<1>3. \A m \in Peers : TablesGood(m, known[m], route[m], last_add')
  <2>1. \A m \in Peers : TablesGood(m, known[m], route[m], last_add)
    BY PeerByPeer
  <2>2. QED
    BY <1>2, <2>1, LaterIsGood DEF IInv, TypeOK
<1>4. DOMAIN entry = {p} /\ entry[p] = [hops |-> 1, next |-> p, time |-> steady_clock(n)]
  BY DEF DirectEntry
<1>5. TablesGood(n, entry, entry, last_add')
  <2>1. entry[p] \in Entry
    BY <1>1, <1>4 DEF Entry
  <2>2. QED
    BY <1>1, <1>2, <1>4, <2>1, NumbersAssumption DEF TablesGood
<1> HIDE DEF entry
<1>6. /\ DOMAIN known = Peers /\ DOMAIN route = Peers
      /\ known' = [known EXCEPT ![n] = Overwrite(known[n], entry)]
      /\ route' = [route EXCEPT ![n] = Overwrite(route[n], entry)]
  BY DEF add_direct_peer, entry, IInv, TypeOK
<1>7. ASSUME NEW m \in Peers
      PROVE  TablesGood(m, known'[m], route'[m], last_add')
  <2>1. CASE m = n
    <3>1. /\ known'[m] = Overwrite(known[n], entry)
          /\ route'[m] = Overwrite(route[n], entry)
      BY <1>6, <2>1
    <3>2. QED
      BY <1>3, <1>5, <2>1, <3>1, LearningIsGood
  <2>2. CASE m # n
    <3>1. known'[m] = known[m] /\ route'[m] = route[m]
      BY <1>6, <2>2
    <3>2. QED
      BY <1>3, <3>1
  <2>3. QED
    BY <2>1, <2>2
<1>8. Frame'
  BY <1>2, <1>6, NumbersAssumption, SMTT(30) DEF Frame, add_direct_peer, Event, IInv, TypeOK
<1>9. ChannelsGenuine'
  <2>1. channel' = channel
    BY DEF add_direct_peer
  <2>2. QED
    BY <1>2, <2>1, StillGenuine
<1>10. QED
  <2>1. (\A m \in Peers : TablesGood(m, known[m], route[m], last_add))'
    BY <1>7 DEF TablesGood
  <2>2. QED
    BY <1>8, <1>9, <2>1, PeerByPeerNext

LEMMA RemovePeer ==
    ASSUME IInv, NEW n \in Peers, NEW p \in Peers, remove_peer(n, p)
    PROVE  IInv'
<1> DEFINE K == DOMAIN known[n] \ {p}
           R == {d \in DOMAIN route[n] \ {p} : route[n][d].next # p}
<1>1. /\ known' = [known EXCEPT ![n] = Restrict(known[n], K)]
      /\ route' = [route EXCEPT ![n] = Restrict(route[n], R)]
  BY DEF remove_peer, IInv, TypeOK
<1>2. TablesGood(n, known[n], route[n], last_add)
  BY PeerByPeer
<1>3. K \subseteq DOMAIN known[n] /\ R \subseteq DOMAIN route[n] /\ R \subseteq K
  BY <1>2 DEF TablesGood
<1> HIDE DEF K, R
<1>4. TablesGood(n, Restrict(known[n], K), Restrict(route[n], R), last_add)
  BY <1>2, <1>3, ForgettingIsGood
<1>5. UNCHANGED <<channel, now, last_add>>
  BY DEF remove_peer
<1>6. /\ DOMAIN known' = Peers /\ DOMAIN route' = Peers
      /\ (\A m \in Peers : TablesGood(m, known[m], route[m], last_add))'
  BY <1>1, <1>4, <1>5, OneTable
<1>7. Frame'
  BY <1>5, <1>6, NumbersAssumption, SMTT(30) DEF Frame, remove_peer, Event, IInv, TypeOK
<1>8. ChannelsGenuine'
  BY <1>5, SMTT(30) DEF IInv, ChannelsGenuine, Advertised
<1>9. QED
  BY <1>6, <1>7, <1>8, PeerByPeerNext

LEMMA CleanupExpiredEntries ==
    ASSUME IInv, NEW n \in Peers, cleanup_expired_entries(n)
    PROVE  IInv'
<1> DEFINE K == Alive(n, known[n])
           R == Alive(n, route[n]) \ (DOMAIN known[n] \ Alive(n, known[n]))
<1>1. /\ known' = [known EXCEPT ![n] = Restrict(known[n], K)]
      /\ route' = [route EXCEPT ![n] = Restrict(route[n], R)]
  BY DEF cleanup_expired_entries, IInv, TypeOK
<1>2. TablesGood(n, known[n], route[n], last_add)
  BY PeerByPeer
<1>3. K \subseteq DOMAIN known[n] /\ R \subseteq DOMAIN route[n] /\ R \subseteq K
  BY <1>2 DEF TablesGood, Alive
<1> HIDE DEF K, R
<1>4. TablesGood(n, Restrict(known[n], K), Restrict(route[n], R), last_add)
  BY <1>2, <1>3, ForgettingIsGood
<1>5. UNCHANGED <<direct, channel, now, last_add, events>>
  BY DEF cleanup_expired_entries
<1>6. /\ DOMAIN known' = Peers /\ DOMAIN route' = Peers
      /\ (\A m \in Peers : TablesGood(m, known[m], route[m], last_add))'
  BY <1>1, <1>4, <1>5, OneTable
<1>7. Frame'
  BY <1>5, <1>6 DEF Frame, IInv, TypeOK
<1>8. ChannelsGenuine'
  BY <1>5 DEF IInv, ChannelsGenuine, Advertised
<1>9. QED
  BY <1>6, <1>7, <1>8, PeerByPeerNext

\* Steps that touch only the connections.
LEMMA OnlyChannels ==
    ASSUME IInv, UNCHANGED <<direct, known, route, now, last_add>>,
           events' \in 0 .. MaxEvents,
           channel' \in [Peers -> [Peers -> Seq(Message)]],
           \A p, n \in Peers : \A i \in 1 .. Len(channel'[p][n]) :
              \/ \E j \in 1 .. Len(channel[p][n]) : channel'[p][n][i] = channel[p][n][j]
              \/ channel'[p][n][i].type = "update" =>
                    Advertised(p, channel'[p][n][i].peers)
    PROVE  IInv'
<1>1. last_add \in [Peers -> Nat]
  BY DEF IInv, TypeOK
<1>2. last_add' \in [Peers -> Nat] /\ \A d \in Peers : last_add[d] <= last_add'[d]
  BY <1>1
<1>3. ChannelsGenuine'
  BY <1>2, StillGenuine
<1>4. \A m \in Peers : TablesGood(m, known[m], route[m], last_add)
  BY PeerByPeer
<1>5. Frame'
  BY DEF Frame, IInv, TypeOK
<1>6. (\A m \in Peers : TablesGood(m, known[m], route[m], last_add))'
  BY <1>4 DEF TablesGood
<1>7. QED
  BY <1>3, <1>5, <1>6, PeerByPeerNext

\* Elements of a sequence after a message was put at its end or taken from its front.
LEMMA AppendedElement ==
    ASSUME NEW S, NEW q \in Seq(S), NEW m \in S, NEW i \in 1 .. Len(Append(q, m))
    PROVE  (\E j \in 1 .. Len(q) : Append(q, m)[i] = q[j]) \/ Append(q, m)[i] = m
<1>1. CASE i = Len(q) + 1
  BY <1>1
<1>2. CASE i # Len(q) + 1
  <2>1. i \in 1 .. Len(q)
    BY <1>2
  <2>2. Append(q, m)[i] = q[i]
    BY <2>1
  <2>3. QED
    BY <2>1, <2>2
<1>3. QED
  BY <1>1, <1>2

LEMMA RemainingElement ==
    ASSUME NEW S, NEW q \in Seq(S), q # <<>>, NEW i \in 1 .. Len(Tail(q))
    PROVE  \E j \in 1 .. Len(q) : Tail(q)[i] = q[j]
<1>1. i + 1 \in 1 .. Len(q) /\ Tail(q)[i] = q[i + 1]
  OBVIOUS
<1>2. QED
  BY <1>1

LEMMA BroadcastIsGood ==
    ASSUME IInv, NEW n \in Peers, NEW m \in Message, Broadcast(n, m),
           m.type = "update" => Advertised(n, m.peers),
           UNCHANGED <<direct, known, route, now, last_add>>, events' \in 0 .. MaxEvents
    PROVE  IInv'
<1>1. channel \in [Peers -> [Peers -> Seq(Message)]]
  BY DEF IInv, TypeOK
<1>2. \A p, q \in Peers :
         channel'[p][q] = IF p = n /\ q \in direct[n] THEN Append(channel[p][q], m)
                                                       ELSE channel[p][q]
  BY <1>1 DEF Broadcast
<1>3. channel' \in [Peers -> [Peers -> Seq(Message)]]
  <2> DEFINE sent == [q \in Peers |-> IF q \in direct[n] THEN Append(channel[n][q], m)
                                                          ELSE channel[n][q]]
  <2>1. sent \in [Peers -> Seq(Message)]
    BY <1>1
  <2>2. channel' = [channel EXCEPT ![n] = sent]
    BY <1>1 DEF Broadcast
  <2> HIDE DEF sent
  <2>3. QED
    BY <1>1, <2>1, <2>2
<1>4. ASSUME NEW p \in Peers, NEW q \in Peers, NEW i \in 1 .. Len(channel'[p][q])
      PROVE  \/ \E j \in 1 .. Len(channel[p][q]) : channel'[p][q][i] = channel[p][q][j]
             \/ channel'[p][q][i].type = "update" => Advertised(p, channel'[p][q][i].peers)
  <2>0. channel[p][q] \in Seq(Message)
    BY <1>1
  <2>1. CASE p = n /\ q \in direct[n]
    <3>1. channel'[p][q] = Append(channel[p][q], m)
      BY <1>2, <2>1
    <3>2. \/ \E j \in 1 .. Len(channel[p][q]) : channel'[p][q][i] = channel[p][q][j]
          \/ channel'[p][q][i] = m
      BY <2>0, <3>1, AppendedElement
    <3>3. QED
      BY <2>1, <3>2
  <2>2. CASE ~(p = n /\ q \in direct[n])
    <3>1. channel'[p][q] = channel[p][q]
      BY <1>2, <2>2
    <3>2. QED
      BY <3>1
  <2>3. QED
    BY <2>1, <2>2
<1>5. QED
  BY <1>3, <1>4, OnlyChannels

LEMMA SendRouteUpdates ==
    ASSUME IInv, NEW n \in Peers, send_route_updates(n)
    PROVE  IInv'
<1> DEFINE m == RouteUpdate(n, DOMAIN known[n])
<1>1. m \in Message /\ Advertised(n, m.peers)
  BY UpdateGenuine
<1>2. /\ Broadcast(n, m)
      /\ UNCHANGED <<direct, known, route, now, last_add>>
      /\ events' \in 0 .. MaxEvents
  BY DEF send_route_updates, IInv, TypeOK
<1> HIDE DEF m
<1>3. QED
  BY <1>1, <1>2, BroadcastIsGood

LEMMA SendTopologySync ==
    ASSUME IInv, NEW n \in Peers, send_topology_sync(n)
    PROVE  IInv'
<1> DEFINE m == [type |-> "sync"]
<1>1. m \in Message /\ m.type # "update"
  BY DEF Message
<1>2. /\ Broadcast(n, m)
      /\ UNCHANGED <<direct, known, route, now, last_add>>
      /\ events' \in 0 .. MaxEvents
  BY NumbersAssumption DEF send_topology_sync, IInv, TypeOK, Event
<1> HIDE DEF m
<1>3. QED
  BY <1>1, <1>2, BroadcastIsGood

\* Taking the oldest message from one connection leaves messages that were there before.
LEMMA TakenFrom ==
    ASSUME IInv, NEW p \in Peers, NEW n \in Peers, channel[p][n] # <<>>
    PROVE  LET rest == [channel EXCEPT ![p][n] = Tail(channel[p][n])]
           IN  /\ rest \in [Peers -> [Peers -> Seq(Message)]]
               /\ \A x, y \in Peers : \A i \in 1 .. Len(rest[x][y]) :
                     \E j \in 1 .. Len(channel[x][y]) : rest[x][y][i] = channel[x][y][j]
<1> DEFINE rest == [channel EXCEPT ![p][n] = Tail(channel[p][n])]
<1>1. channel \in [Peers -> [Peers -> Seq(Message)]]
  BY DEF IInv, TypeOK
<1>2. channel[p][n] \in Seq(Message) /\ Tail(channel[p][n]) \in Seq(Message)
  BY <1>1
<1>3. rest \in [Peers -> [Peers -> Seq(Message)]]
  BY <1>1, <1>2
<1>4. ASSUME NEW x \in Peers, NEW y \in Peers, NEW i \in 1 .. Len(rest[x][y])
      PROVE  \E j \in 1 .. Len(channel[x][y]) : rest[x][y][i] = channel[x][y][j]
  <2>1. CASE x = p /\ y = n
    <3>1. rest[x][y] = Tail(channel[p][n])
      BY <1>1, <2>1
    <3> HIDE DEF rest
    <3>2. i \in 1 .. Len(Tail(channel[p][n]))
      BY <3>1
    <3>3. \E j \in 1 .. Len(channel[p][n]) : Tail(channel[p][n])[i] = channel[p][n][j]
      BY <1>2, <3>2, RemainingElement
    <3>4. QED
      BY <2>1, <3>1, <3>3
  <2>2. CASE ~(x = p /\ y = n)
    <3>1. rest[x][y] = channel[x][y]
      BY <1>1, <2>2
    <3> HIDE DEF rest
    <3>2. QED
      BY <3>1
  <2>3. QED
    BY <2>1, <2>2
<1>5. QED
  BY <1>3, <1>4

LEMMA HandleTopologySync ==
    ASSUME IInv, NEW n \in Peers, NEW p \in Peers, handle_topology_sync(n, p)
    PROVE  IInv'
<1> DEFINE rest == [channel EXCEPT ![p][n] = Tail(channel[p][n])]
           m == RouteUpdate(n, DOMAIN known[n] \ {p})
<1>1. m \in Message /\ Advertised(n, m.peers)
  BY UpdateGenuine
<1>2. channel[p][n] # <<>>
  BY DEF handle_topology_sync, Receives
<1>3. /\ rest \in [Peers -> [Peers -> Seq(Message)]]
      /\ \A x, y \in Peers : \A i \in 1 .. Len(rest[x][y]) :
            \E j \in 1 .. Len(channel[x][y]) : rest[x][y][i] = channel[x][y][j]
  BY <1>2, TakenFrom, SMTT(30)
<1>4. channel' = IF p \in direct[n] THEN [rest EXCEPT ![n][p] = Append(rest[n][p], m)]
                                    ELSE rest
  <2>1. channel' = IF p \in direct[n] THEN [rest EXCEPT ![n][p] = Append(@, m)] ELSE rest
    BY DEF handle_topology_sync
  <2> HIDE DEF rest, m
  <2>2. QED
    BY <1>3, <2>1
<1> HIDE DEF rest, m
<1>5. channel' \in [Peers -> [Peers -> Seq(Message)]]
  <2>1. Append(rest[n][p], m) \in Seq(Message) /\ rest[n][p] \in Seq(Message)
    BY <1>1, <1>3
  <2>2. QED
    BY <1>3, <1>4, <2>1
<1>6. ASSUME NEW x \in Peers, NEW y \in Peers, NEW i \in 1 .. Len(channel'[x][y])
      PROVE  \/ \E j \in 1 .. Len(channel[x][y]) : channel'[x][y][i] = channel[x][y][j]
             \/ channel'[x][y][i].type = "update" => Advertised(x, channel'[x][y][i].peers)
  <2>1. CASE x = n /\ y = p /\ p \in direct[n]
    <3>1. channel'[x][y] = Append(rest[x][y], m)
      BY <1>3, <1>4, <2>1
    <3>2. \/ \E j \in 1 .. Len(rest[x][y]) : channel'[x][y][i] = rest[x][y][j]
          \/ channel'[x][y][i] = m
      <4>1. rest[x][y] \in Seq(Message)
        BY <1>3
      <4>2. QED
        BY <1>1, <3>1, <4>1, AppendedElement
    <3>3. CASE channel'[x][y][i] = m
      BY <1>1, <2>1, <3>3
    <3>4. ASSUME NEW j \in 1 .. Len(rest[x][y]), channel'[x][y][i] = rest[x][y][j]
          PROVE  \E k \in 1 .. Len(channel[x][y]) : channel'[x][y][i] = channel[x][y][k]
      <4>1. \E k \in 1 .. Len(channel[x][y]) : rest[x][y][j] = channel[x][y][k]
        BY <1>3
      <4>2. QED
        BY <3>4, <4>1
    <3>5. QED
      BY <3>2, <3>3, <3>4
  <2>2. CASE ~(x = n /\ y = p /\ p \in direct[n])
    <3>1. channel'[x][y] = rest[x][y]
      BY <1>3, <1>4, <2>2
    <3>2. i \in 1 .. Len(rest[x][y])
      BY <3>1
    <3>3. \E j \in 1 .. Len(channel[x][y]) : rest[x][y][i] = channel[x][y][j]
      BY <1>3, <3>2
    <3>4. QED
      BY <3>1, <3>3
  <2>3. QED
    BY <2>1, <2>2
<1>7. UNCHANGED <<direct, known, route, now, last_add>> /\ events' \in 0 .. MaxEvents
  BY DEF handle_topology_sync, IInv, TypeOK
<1>8. QED
  BY <1>5, <1>6, <1>7, OnlyChannels

LEMMA LosePreserves ==
    ASSUME IInv, NEW n \in Peers, NEW p \in Peers, Lose(n, p)
    PROVE  IInv'
<1>1. channel \in [Peers -> [Peers -> Seq(Message)]]
  BY DEF IInv, TypeOK
<1>2. channel' = [channel EXCEPT ![n][p] = <<>>]
  BY DEF Lose
<1>3. channel' \in [Peers -> [Peers -> Seq(Message)]]
  BY <1>1, <1>2
<1>4. ASSUME NEW x \in Peers, NEW y \in Peers, NEW i \in 1 .. Len(channel'[x][y])
      PROVE  \E j \in 1 .. Len(channel[x][y]) : channel'[x][y][i] = channel[x][y][j]
  <2>1. CASE x = n /\ y = p
    BY <1>1, <1>2, <2>1
  <2>2. CASE ~(x = n /\ y = p)
    <3>1. channel'[x][y] = channel[x][y]
      BY <1>1, <1>2, <2>2
    <3>2. QED
      BY <3>1
  <2>3. QED
    BY <2>1, <2>2
<1>5. UNCHANGED <<direct, known, route, now, last_add>> /\ events' \in 0 .. MaxEvents
  BY DEF Lose, IInv, TypeOK
<1>6. QED
  BY <1>3, <1>4, <1>5, OnlyChannels

\* What an update teaches, with a reading for every adopted peer.
LEMMA ViaIsGood ==
    ASSUME IInv, NEW n \in Peers, NEW p \in Peers, NEW peers, Advertised(p, peers),
           NEW A \in SUBSET Offered(n, peers),
           NEW heard, DOMAIN heard = A, \A d \in A : heard[d] = peers[d].time,
           NEW read, DOMAIN read = A, \A d \in A : read[d] \in Nat
    PROVE  /\ TablesGood(n, Via(p, peers, heard), Via(p, peers, read), last_add)
           /\ DOMAIN Via(p, peers, heard) = A /\ DOMAIN Via(p, peers, read) = A
<1> DEFINE k == Via(p, peers, heard)
           r == Via(p, peers, read)
<1>1. DOMAIN k = A /\ DOMAIN r = A
  BY DEF Via
<1>2. \A d \in A : /\ k[d] = [hops |-> peers[d].hops + 1, next |-> p, time |-> peers[d].time]
                   /\ r[d] = [hops |-> peers[d].hops + 1, next |-> p, time |-> read[d]]
  BY DEF Via
<1> HIDE DEF k, r
<1>3. ASSUME NEW d \in A
      PROVE  /\ d \in Peers \ {n} /\ d # p
             /\ peers[d].hops \in 1 .. MAX_HOP_COUNT - 1 /\ peers[d].hops + 1 < MAX_HOP_COUNT
             /\ peers[d].time \in Nat /\ peers[d].time <= last_add[d]
  BY DEF Offered, Advertised
<1>4. ASSUME NEW d \in A
      PROVE  /\ k[d] \in Entry /\ r[d] \in Entry
             /\ k[d].next = p /\ r[d].next = p
             /\ k[d].hops = r[d].hops /\ k[d].hops \in 1 .. MAX_HOP_COUNT - 1
             /\ k[d].hops # 1 /\ k[d].time <= last_add[d]
  <2>1. peers[d].hops + 1 \in 2 .. MAX_HOP_COUNT - 1 /\ peers[d].hops + 1 \in Nat
    BY <1>3, NumbersAssumption
  <2>2. /\ k[d] = [hops |-> peers[d].hops + 1, next |-> p, time |-> peers[d].time]
        /\ r[d] = [hops |-> peers[d].hops + 1, next |-> p, time |-> read[d]]
        /\ peers[d].time \in Nat /\ peers[d].time <= last_add[d]
    BY <1>2, <1>3
  <2>3. [hops |-> peers[d].hops + 1, next |-> p, time |-> peers[d].time] \in Entry
    BY <2>1, <2>2 DEF Entry
  <2>4. [hops |-> peers[d].hops + 1, next |-> p, time |-> read[d]] \in Entry
    BY <2>1, <2>2 DEF Entry
  <2>5. QED
    BY <2>1, <2>2, <2>3, <2>4, NumbersAssumption
<1>5. TablesGood(n, k, r, last_add)
  BY <1>1, <1>3, <1>4 DEF TablesGood
<1>6. QED
  BY <1>1, <1>5 DEF k, r

LEMMA HeadGenuine ==
    ASSUME IInv, NEW n \in Peers, NEW p \in Peers, Receives(n, p, "update")
    PROVE  Advertised(p, Head(channel[p][n]).peers)
<1>1. channel[p][n] \in Seq(Message)
  BY DEF IInv, TypeOK
<1>2. 1 \in 1 .. Len(channel[p][n]) /\ Head(channel[p][n]) = channel[p][n][1]
  BY <1>1 DEF Receives
<1>3. QED
  BY <1>2 DEF IInv, ChannelsGenuine, Receives

LEMMA HandleRouteUpdate ==
    ASSUME IInv, NEW n \in Peers, NEW p \in Peers, handle_route_update(n, p)
    PROVE  IInv'
<1> DEFINE peers == Head(channel[p][n]).peers
<1>1. channel[p][n] # <<>>
  BY DEF handle_route_update, Receives
<1>2. Advertised(p, peers)
  BY HeadGenuine DEF handle_route_update
<1>3. PICK won \in SUBSET Tied(n, peers) :
         /\ known' = [known EXCEPT ![n] = Overwrite(@,
               Via(p, peers, [d \in Improved(n, peers) \cup won |-> peers[d].time]))]
         /\ route' = [route EXCEPT ![n] = Overwrite(@,
               Via(p, peers, [d \in Improved(n, peers) \cup won |-> steady_clock(n)]))]
  BY DEF handle_route_update
<1> DEFINE A == Improved(n, peers) \cup won
           heard == [d \in A |-> peers[d].time]
           read == [d \in A |-> steady_clock(n)]
           k == Via(p, peers, heard)
           r == Via(p, peers, read)
<1>4. A \in SUBSET Offered(n, peers) /\ steady_clock(n) \in Nat
  BY ClockIsNatural DEF Improved, Tied
<1>5. /\ known' = [known EXCEPT ![n] = Overwrite(known[n], k)]
      /\ route' = [route EXCEPT ![n] = Overwrite(route[n], r)]
  <2> HIDE DEF peers
  <2>1. QED
    BY <1>3 DEF IInv, TypeOK
<1> HIDE DEF A, peers
<1>6. TablesGood(n, k, r, last_add) /\ DOMAIN k = DOMAIN r
  <2>1. /\ DOMAIN heard = A /\ \A d \in A : heard[d] = peers[d].time
        /\ DOMAIN read = A /\ \A d \in A : read[d] \in Nat
    BY <1>4
  <2> HIDE DEF heard, read
  <2>2. QED
    BY <1>2, <1>4, <2>1, ViaIsGood
<1> HIDE DEF heard, read, k, r
<1>7. TablesGood(n, Overwrite(known[n], k), Overwrite(route[n], r), last_add)
  <2>1. TablesGood(n, known[n], route[n], last_add)
    BY PeerByPeer
  <2>2. QED
    BY <1>6, <2>1, LearningIsGood
<1>8. UNCHANGED <<direct, now, last_add, events>>
  BY DEF handle_route_update
<1>9. /\ DOMAIN known' = Peers /\ DOMAIN route' = Peers
      /\ (\A m \in Peers : TablesGood(m, known[m], route[m], last_add))'
  BY <1>5, <1>7, <1>8, OneTable
<1>10. /\ channel' \in [Peers -> [Peers -> Seq(Message)]]
       /\ \A x, y \in Peers : \A i \in 1 .. Len(channel'[x][y]) :
             \E j \in 1 .. Len(channel[x][y]) : channel'[x][y][i] = channel[x][y][j]
  <2> DEFINE rest == [channel EXCEPT ![p][n] = Tail(channel[p][n])]
  <2>1. channel' = rest
    BY DEF handle_route_update, IInv, TypeOK
  <2>2. /\ rest \in [Peers -> [Peers -> Seq(Message)]]
        /\ \A x, y \in Peers : \A i \in 1 .. Len(rest[x][y]) :
              \E j \in 1 .. Len(channel[x][y]) : rest[x][y][i] = channel[x][y][j]
    BY <1>1, TakenFrom
  <2> HIDE DEF rest
  <2>3. QED
    BY <2>1, <2>2
<1>11. Frame'
  BY <1>8, <1>9, <1>10 DEF Frame, IInv, TypeOK
<1>12. ChannelsGenuine'
  <2>1. last_add' \in [Peers -> Nat] /\ \A d \in Peers : last_add[d] <= last_add'[d]
    BY <1>8 DEF IInv, TypeOK
  <2>2. QED
    BY <1>10, <2>1, StillGenuine
<1>13. QED
  BY <1>9, <1>11, <1>12, PeerByPeerNext

LEMMA ClockTickPreserves ==
    ASSUME IInv, ClockTick
    PROVE  IInv'
<1>1. UNCHANGED <<direct, known, route, channel, last_add>>
  BY DEF ClockTick
<1>2. Frame'
  BY <1>1, NumbersAssumption DEF Frame, IInv, TypeOK, ClockTick, Event
<1>3. \A m \in Peers : TablesGood(m, known[m], route[m], last_add)
  BY PeerByPeer
<1>4. (\A m \in Peers : TablesGood(m, known[m], route[m], last_add))'
  BY <1>1, <1>3 DEF TablesGood
<1>5. ChannelsGenuine'
  BY <1>1 DEF IInv, ChannelsGenuine, Advertised
<1>6. QED
  BY <1>2, <1>4, <1>5, PeerByPeerNext

-----------------------------------------------------------------------------
LEMMA NextIInv == IInv /\ [Next]_vars => IInv'
<1> SUFFICES ASSUME IInv, [Next]_vars PROVE IInv'
  OBVIOUS
<1>1. ASSUME NEW n \in Peers, send_route_updates(n) \/ send_topology_sync(n)
      PROVE  IInv'
  BY <1>1, SendRouteUpdates, SendTopologySync
<1>2. ASSUME NEW n \in Peers, NEW p \in Peers,
             handle_route_update(n, p) \/ handle_topology_sync(n, p)
      PROVE  IInv'
  BY <1>2, HandleRouteUpdate, HandleTopologySync
<1>3. ASSUME NEW n \in Peers, NEW p \in Peers,
             add_direct_peer(n, p) \/ remove_peer(n, p) \/ Lose(n, p)
      PROVE  IInv'
  BY <1>3, AddDirectPeer, RemovePeer, LosePreserves
<1>4. ASSUME NEW n \in Peers, cleanup_expired_entries(n)
      PROVE  IInv'
  BY <1>4, CleanupExpiredEntries
<1>5. CASE ClockTick
  BY <1>5, ClockTickPreserves
<1>6. CASE UNCHANGED vars
  BY <1>6 DEF vars, IInv, TypeOK, TablesAgree, HopsBounded, LastSeenGenuine,
              ChannelsGenuine, Advertised
<1>7. QED
  BY <1>1, <1>2, <1>3, <1>4, <1>5, <1>6 DEF Next

LEMMA Invariance == Spec => []IInv
BY InitIInv, NextIInv, PTL DEF Spec

(***************************************************************************)
(* The tables, the messages and the clocks always have their types: in     *)
(* particular no PeerRouter ever holds an entry about itself.              *)
(***************************************************************************)
THEOREM TypeCorrect == Spec => []TypeOK
<1>1. IInv => TypeOK
  BY DEF IInv
<1>2. QED
  BY <1>1, Invariance, PTL

(***************************************************************************)
(* However removals (remove_peer), expiries (cleanup_expired_entries) and  *)
(* updates (handle_route_update) interleave, in any finite network every   *)
(* route of routing_table_ leads to a peer of known_peers_, over the same  *)
(* next hop and with the same hop count.                                   *)
(***************************************************************************)
THEOREM TablesAlwaysAgree == Spec => []TablesAgree
<1>1. IInv => TablesAgree
  BY DEF IInv
<1>2. QED
  BY <1>1, Invariance, PTL

(***************************************************************************)
(* Counting to infinity ends below MAX_HOP_COUNT, whatever the network and *)
(* the bound are, and one hop means that the peer is its own next hop.     *)
(***************************************************************************)
THEOREM HopsAlwaysBounded == Spec => []HopsBounded
<1>1. IInv => HopsBounded
  BY DEF IInv
<1>2. QED
  BY <1>1, Invariance, PTL

(***************************************************************************)
(* No relay rejuvenates a peer: last_seen, as handle_route_update copies   *)
(* it, is never later than the last add_direct_peer of that peer anywhere. *)
(***************************************************************************)
THEOREM LastSeenAlwaysGenuine == Spec => []LastSeenGenuine
<1>1. IInv => LastSeenGenuine
  BY DEF IInv
<1>2. QED
  BY <1>1, Invariance, PTL

-----------------------------------------------------------------------------
\* Writing entries over a table: what a peer's entry is afterwards.
LEMMA Overwritten ==
    ASSUME NEW table, NEW entries, NEW d \in DOMAIN table
    PROVE  Overwrite(table, entries)[d] = IF d \in DOMAIN entries THEN entries[d] ELSE table[d]
BY DEF Overwrite

LEMMA StepNeverGrows ==
    ASSUME IInv, [Next]_vars, NEW m \in Peers, NEW e \in DOMAIN route[m],
           e \in DOMAIN route'[m]
    PROVE  route'[m][e].hops <= route[m][e].hops
<1>1. /\ DOMAIN route = Peers /\ TablesGood(m, known[m], route[m], last_add)
      /\ e \in DOMAIN known[m]
      /\ route[m][e].hops \in 1 .. MAX_HOP_COUNT - 1
  BY PeerByPeer DEF TablesGood, Frame
<1>2. CASE route'[m] = route[m]
  BY <1>1, <1>2
<1>3. ASSUME NEW R, R \subseteq DOMAIN route[m], route'[m] = Restrict(route[m], R)
      PROVE  route'[m][e].hops <= route[m][e].hops
  <2>1. e \in R /\ route'[m][e] = route[m][e]
    BY <1>3 DEF Restrict
  <2>2. QED
    BY <1>1, <2>1
<1>4. ASSUME NEW n \in Peers, NEW p \in Peers, add_direct_peer(n, p)
      PROVE  route'[m][e].hops <= route[m][e].hops
  <2>1. CASE m = n
    <3>1. route'[m] = Overwrite(route[m], DirectEntry(n, p))
      BY <1>1, <1>4, <2>1 DEF add_direct_peer
    <3>2. \/ route'[m][e] = route[m][e]
          \/ route'[m][e] = [hops |-> 1, next |-> p, time |-> steady_clock(n)]
      BY <3>1, Overwritten DEF DirectEntry
    <3>3. QED
      BY <1>1, <3>2
  <2>2. CASE m # n
    BY <1>1, <1>2, <1>4, <2>2 DEF add_direct_peer
  <2>3. QED
    BY <2>1, <2>2
<1>5. ASSUME NEW n \in Peers, NEW p \in Peers, remove_peer(n, p)
      PROVE  route'[m][e].hops <= route[m][e].hops
  <2> DEFINE R == {d \in DOMAIN route[n] \ {p} : route[n][d].next # p}
  <2>1. route' = [route EXCEPT ![n] = Restrict(route[n], R)]
    BY <1>1, <1>5 DEF remove_peer
  <2>2. R \subseteq DOMAIN route[n]
    OBVIOUS
  <2> HIDE DEF R
  <2>3. CASE m = n
    BY <1>1, <1>3, <2>1, <2>2, <2>3
  <2>4. CASE m # n
    BY <1>1, <1>2, <2>1, <2>4
  <2>5. QED
    BY <2>3, <2>4
<1>6. ASSUME NEW n \in Peers, cleanup_expired_entries(n)
      PROVE  route'[m][e].hops <= route[m][e].hops
  <2> DEFINE R == Alive(n, route[n]) \ (DOMAIN known[n] \ Alive(n, known[n]))
  <2>1. route' = [route EXCEPT ![n] = Restrict(route[n], R)]
    BY <1>1, <1>6 DEF cleanup_expired_entries
  <2>2. R \subseteq DOMAIN route[n]
    BY DEF Alive
  <2> HIDE DEF R
  <2>3. CASE m = n
    BY <1>1, <1>3, <2>1, <2>2, <2>3
  <2>4. CASE m # n
    BY <1>1, <1>2, <2>1, <2>4
  <2>5. QED
    BY <2>3, <2>4
<1>7. ASSUME NEW n \in Peers, NEW p \in Peers, handle_route_update(n, p)
      PROVE  route'[m][e].hops <= route[m][e].hops
  <2> DEFINE peers == Head(channel[p][n]).peers
  <2>1. PICK won \in SUBSET Tied(n, peers) :
           route' = [route EXCEPT ![n] = Overwrite(@,
              Via(p, peers, [d \in Improved(n, peers) \cup won |-> steady_clock(n)]))]
    BY <1>7 DEF handle_route_update
  <2> DEFINE A == Improved(n, peers) \cup won
             r == Via(p, peers, [d \in A |-> steady_clock(n)])
  <2>2. DOMAIN r = A /\ \A d \in A : r[d].hops = peers[d].hops + 1
    BY DEF Via
  <2>3. route' = [route EXCEPT ![n] = Overwrite(route[n], r)]
    <3> HIDE DEF peers
    <3>1. QED
      BY <1>1, <2>1
  <2> HIDE DEF r
  <2>4. CASE m = n
    <3>1. route'[m] = Overwrite(route[m], r)
      BY <1>1, <2>3, <2>4
    <3>2. CASE e \in A
      <4>1. route'[m][e] = r[e]
        BY <2>2, <3>1, <3>2, Overwritten
      <4>2. peers[e].hops + 1 < route[m][e].hops \/ peers[e].hops + 1 = route[m][e].hops
        BY <1>1, <2>1, <2>4, <3>2 DEF Improved, Tied
      <4>3. peers[e].hops \in Nat
        <5>1. e \in DOMAIN peers
          BY <2>1, <3>2 DEF Improved, Tied, Offered
        <5>2. Advertised(p, peers)
          BY <1>7, HeadGenuine DEF handle_route_update
        <5>3. QED
          BY <5>1, <5>2 DEF Advertised
      <4> HIDE DEF A, peers
      <4>4. route'[m][e].hops = peers[e].hops + 1
        BY <2>2, <3>2, <4>1
      <4>5. QED
        BY <1>1, <4>2, <4>3, <4>4
    <3>3. CASE e \notin A
      <4>1. route'[m][e] = route[m][e]
        BY <2>2, <3>1, <3>3, Overwritten
      <4>2. QED
        BY <1>1, <4>1
    <3>4. QED
      BY <3>2, <3>3
  <2>5. CASE m # n
    BY <1>1, <1>2, <2>3, <2>5
  <2>6. QED
    BY <2>4, <2>5
<1>8. ASSUME NEW n \in Peers, send_route_updates(n) \/ send_topology_sync(n)
      PROVE  route'[m] = route[m]
  BY <1>8 DEF send_route_updates, send_topology_sync
<1>9. ASSUME NEW n \in Peers, NEW p \in Peers, handle_topology_sync(n, p) \/ Lose(n, p)
      PROVE  route'[m] = route[m]
  BY <1>9 DEF handle_topology_sync, Lose
<1>10. CASE ClockTick \/ UNCHANGED vars
  BY <1>2, <1>10 DEF ClockTick, vars
<1>11. QED
  BY <1>2, <1>4, <1>5, <1>6, <1>7, <1>8, <1>9, <1>10 DEF Next

(***************************************************************************)
(* handle_route_update and add_direct_peer only ever shorten a route that  *)
(* is in routing_table_; this needs TablesAgree, for a peer with a route   *)
(* that was not known would be adopted at any length.                      *)
(***************************************************************************)
THEOREM RoutesNeverGrow == Spec => RouteNeverGrows
<1>1. ASSUME IInv, [Next]_vars
      PROVE  [\A n \in Peers : \A d \in DOMAIN route[n] :
                d \in DOMAIN route'[n] => route'[n][d].hops <= route[n][d].hops]_vars
  BY <1>1, StepNeverGrows
<1>2. QED
  BY <1>1, Invariance, PTL DEF Spec, RouteNeverGrows
=============================================================================
