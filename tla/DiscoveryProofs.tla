-------------------------- MODULE DiscoveryProofs --------------------------
(***************************************************************************)
(* Proofs about peer discovery (Discovery) and the search for files        *)
(* (FileSearch).                                                           *)
(***************************************************************************)
EXTENDS Discovery, FileSearch, FiniteSetTheorems, SequenceTheorems, NaturalsInduction,
        WellFoundedInduction, TLAPS

-----------------------------------------------------------------------------
(* The inductive invariant of discovery. *)

\* a datagram is on its way to another node that listens, and names its sender
Addressed ==
    \A d \in net : d.to # d.from /\ address(d.id) = d.from /\ Listens(d.to)

\* a node that is off knows nobody, and one that runs has a peer id
Running ==
    \A n \in Nodes : IF Listens(n) THEN starts[n] >= 1 ELSE seen[n] = Empty

\* what the last cleanup has left is as old as the timeout, and has aged since
AgedSinceCleanup ==
    \A n \in Nodes : \A id \in DOMAIN seen[n] : seen[n][id] <= PeerTimeout + cleaned[n]

\* the periods that the connection attempts of n take, from the first to the last
Attempts(n) == ConnectTimeout * Cardinality(endpoints[n])

\* the periods that the present attempt still takes
Remaining(n) == IF wait[n] = 0 THEN 0 ELSE wait[n] - 1

\* a cleanup that is overdue is so because of the attempts made so far
CleanupDelayed ==
    \A n \in Nodes : cleaned[n] + Remaining(n) <= CleanupInterval + Poll + Attempts(n)

\* a cleanup that is overdue in the sleep of the discovery thread is so because of the sleep
PassDelayed ==
    \A n \in Nodes : loop[n] = "idle" => cleaned[n] <= CleanupInterval + late[n]

\* nobody connects to itself
EndpointsOthers == \A n \in Nodes : n \notin endpoints[n]

IInv ==
    /\ TypeOK /\ Addressed /\ Running /\ AgedSinceCleanup /\ CleanupDelayed /\ PassDelayed
    /\ EndpointsOthers

LEMMA InitIInv == Init => IInv
<1> SUFFICES ASSUME Init PROVE IInv
    OBVIOUS
<1> USE DiscoveryAssumption DEF Init
<1>1. \A n \in Nodes : seen[n] = Empty /\ DOMAIN seen[n] = {} /\ seen[n] \in [{} -> Nat]
    BY DEF Empty
<1>2. TypeOK
    BY <1>1 DEF TypeOK
<1>3. Addressed /\ EndpointsOthers
    BY DEF Addressed, EndpointsOthers
<1>4. Running /\ AgedSinceCleanup
    BY <1>1 DEF Running, AgedSinceCleanup, Listens
<1>5. ASSUME NEW n \in Nodes
      PROVE  cleaned[n] + Remaining(n) <= CleanupInterval + Poll + Attempts(n)
  <2>1. endpoints[n] = {} /\ Cardinality({}) = 0
      BY FS_EmptySet
  <2>2. Attempts(n) = 0
      BY <2>1 DEF Attempts
  <2> QED BY <2>2 DEF Remaining
<1>6. PassDelayed
    BY DEF PassDelayed
<1> QED BY <1>2, <1>3, <1>4, <1>5, <1>6 DEF IInv, CleanupDelayed

\* what a node sends to the others
LEMMA MulticastGood ==
    ASSUME TypeOK, Running, NEW n \in Nodes, Listens(n),
           NEW type \in {"announce", "query", "response"}, NEW d \in Multicast(n, type)
    PROVE  /\ d \in Datagrams /\ d.from = n /\ d.to # d.from /\ address(d.id) = d.from
           /\ Listens(d.to)
<1>1. starts[n] \in 1 .. MaxStarts
    BY DiscoveryAssumption DEF TypeOK, Running
<1>2. peer_id(n) \in PeerIds /\ address(peer_id(n)) = n
    BY <1>1 DEF peer_id, PeerIds, address
<1>3. PICK m \in Nodes : /\ m # n /\ Listens(m)
                         /\ d = [to |-> m, from |-> n, type |-> type, id |-> peer_id(n)]
    BY DEF Multicast
<1> QED BY <1>2, <1>3 DEF Datagrams

\* a step of the network: the nodes stay as they are, and only good datagrams are added
LEMMA OnlyNet ==
    ASSUME IInv, UNCHANGED local, lost' \in 0 .. MaxLost, queries' \in 0 .. MaxQueries,
           \A d \in net' : \/ d \in net
                           \/ /\ d \in Datagrams /\ d.to # d.from /\ address(d.id) = d.from
                              /\ Listens(d.to)
    PROVE  IInv'
<1> USE DEF IInv, local
<1>1. net' \subseteq Datagrams
    BY DEF TypeOK
<1>2. TypeOK'
    BY <1>1 DEF TypeOK, peer_id
<1>3. Addressed'
    BY DEF Addressed, Listens
<1>4. Running' /\ AgedSinceCleanup' /\ EndpointsOthers'
    BY DEF Running, AgedSinceCleanup, EndpointsOthers, Listens
<1>5. CleanupDelayed'
    BY DEF CleanupDelayed, Remaining, Attempts
<1>6. PassDelayed'
    BY DEF PassDelayed
<1> QED BY <1>2, <1>3, <1>4, <1>5, <1>6

\* numbers of a node
LEMMA Numbers ==
    ASSUME TypeOK, NEW n \in Nodes
    PROVE  /\ cleaned[n] \in Nat /\ late[n] \in Nat /\ late[n] <= Poll
           /\ wait[n] \in Nat /\ wait[n] <= ConnectTimeout + 1
           /\ IsFiniteSet(endpoints[n]) /\ Cardinality(endpoints[n]) \in Nat
           /\ Attempts(n) \in Nat /\ Remaining(n) \in Nat
           /\ \A id \in DOMAIN seen[n] : seen[n][id] \in Nat
<1> USE DiscoveryAssumption
<1>0. late[n] \in Nat /\ late[n] <= Poll
    BY DEF TypeOK
<1>1. cleaned[n] \in Nat /\ wait[n] \in Nat /\ wait[n] <= ConnectTimeout + 1
    BY DEF TypeOK
<1>2. endpoints[n] \subseteq Nodes
    BY DEF TypeOK
<1>3. IsFiniteSet(endpoints[n])
    BY <1>2, FS_Subset
<1>4. Cardinality(endpoints[n]) \in Nat
    BY <1>3, FS_CardinalityType
<1>5. Attempts(n) \in Nat
    BY <1>4 DEF Attempts
<1>6. Remaining(n) \in Nat
    BY <1>1 DEF Remaining
<1>7. \A id \in DOMAIN seen[n] : seen[n][id] \in Nat
    BY DEF TypeOK
<1> QED BY <1>0, <1>1, <1>3, <1>4, <1>5, <1>6, <1>7

LEMMA StartIInv ==
    ASSUME IInv, NEW n \in Nodes, start(n)
    PROVE  IInv'
<1> USE DiscoveryAssumption DEF IInv, start
<1>1. seen[n] = Empty /\ DOMAIN seen[n] = {}
    BY DEF Running, Listens, Empty
<1>2. starts[n] \in 0 .. MaxStarts /\ starts[n] < MaxStarts
    BY DEF TypeOK
<1>3. starts[n] + 1 \in 0 .. MaxStarts
    BY <1>2
<1>4. TypeOK'
  <2>1. mode' \in [Nodes -> {"off", "starting", "on"}] /\ starts' \in [Nodes -> 0 .. MaxStarts]
      BY <1>3 DEF TypeOK
  <2>2. ASSUME NEW m \in Nodes
        PROVE  /\ seen'[m] \in [DOMAIN seen'[m] -> Nat]
               /\ DOMAIN seen'[m] \subseteq PeerIds \ {peer_id(m)'}
      BY <1>1 DEF TypeOK, peer_id
  <2> QED BY <2>1, <2>2 DEF TypeOK
<1>5. \A m \in Nodes : Listens(m) => Listens(m)'
    BY DEF Listens, TypeOK
<1>6. Addressed'
  <2>1. \A d \in net : d.to \in Nodes
      BY DEF TypeOK, Datagrams
  <2> QED BY <1>5, <2>1 DEF Addressed
<1>7. Running'
  <2>1. ASSUME NEW m \in Nodes
        PROVE  IF Listens(m)' THEN starts'[m] >= 1 ELSE seen'[m] = Empty
    <3>1. CASE m = n
      <4>1. starts'[m] = starts[n] + 1 /\ mode'[m] = "starting"
          BY <3>1 DEF TypeOK
      <4> QED BY <1>2, <4>1 DEF Listens
    <3>2. CASE m # n
        BY <3>2 DEF Running, Listens, TypeOK
    <3> QED BY <3>1, <3>2
  <2> QED BY <2>1 DEF Running
<1>8. AgedSinceCleanup' /\ EndpointsOthers'
    BY DEF AgedSinceCleanup, EndpointsOthers
<1>9. CleanupDelayed'
    BY DEF CleanupDelayed, Remaining, Attempts
<1>10. PassDelayed'
    BY DEF PassDelayed
<1> QED BY <1>4, <1>6, <1>7, <1>8, <1>9, <1>10

LEMMA AnnounceSelfIInv ==
    ASSUME IInv, NEW n \in Nodes, announce_self(n)
    PROVE  IInv'
<1> USE DEF IInv, announce_self
<1>1. \A m \in Nodes : Listens(m) <=> Listens(m)'
    BY DEF Listens, TypeOK
<1>2. ASSUME NEW d \in Multicast(n, "announce")
      PROVE  d \in Datagrams /\ d.to # d.from /\ address(d.id) = d.from /\ Listens(d.to)
    BY MulticastGood DEF Listens
<1>3. net' \subseteq Datagrams
    BY <1>2 DEF TypeOK
<1>4. TypeOK'
    BY <1>3 DEF TypeOK, peer_id
<1>5. Addressed'
  <2>1. \A d \in net' : d.to # d.from /\ address(d.id) = d.from /\ Listens(d.to)
      BY <1>2 DEF Addressed
  <2>2. \A d \in net' : d.to \in Nodes
      BY <1>3 DEF Datagrams
  <2> QED BY <1>1, <2>1, <2>2 DEF Addressed
<1>6. Running'
    BY <1>1 DEF Running
<1>7. AgedSinceCleanup' /\ EndpointsOthers'
    BY DEF AgedSinceCleanup, EndpointsOthers
<1>8. CleanupDelayed'
    BY DEF CleanupDelayed, Remaining, Attempts
<1>9. PassDelayed'
    BY DEF PassDelayed
<1> QED BY <1>4, <1>5, <1>6, <1>7, <1>8, <1>9

LEMMA KilledIInv ==
    ASSUME IInv, NEW n \in Nodes, Killed(n)
    PROVE  IInv'
<1> USE DiscoveryAssumption DEF IInv, Killed
<1>1. DOMAIN Empty = {} /\ Empty \in [{} -> Nat]
    BY DEF Empty
<1>2. /\ seen'[n] = Empty /\ cleaned'[n] = 0 /\ wait'[n] = 0 /\ endpoints'[n] = {}
      /\ mode'[n] = "off"
    BY DEF TypeOK
<1>3. \A m \in Nodes : m # n =>
         /\ seen'[m] = seen[m] /\ cleaned'[m] = cleaned[m] /\ wait'[m] = wait[m]
         /\ endpoints'[m] = endpoints[m] /\ mode'[m] = mode[m]
    BY DEF TypeOK
<1>4. TypeOK'
  <2>1. /\ mode' \in [Nodes -> {"off", "starting", "on"}] /\ starts' \in [Nodes -> 0..MaxStarts]
        /\ announced' \in [Nodes -> Nat] /\ cleaned' \in [Nodes -> Nat]
        /\ loop' \in [Nodes -> {"idle", "cleanup"}] /\ late' \in [Nodes -> 0..Poll]
        /\ wait' \in [Nodes -> 0..ConnectTimeout + 1]
        /\ endpoints' \in [Nodes -> SUBSET Nodes] /\ net' \subseteq Datagrams
        /\ lost' \in 0..MaxLost /\ queries' \in 0..MaxQueries
      BY DEF TypeOK
  <2>2. seen' = [m \in Nodes |-> seen'[m]]
      BY DEF TypeOK
  <2>3. ASSUME NEW m \in Nodes
        PROVE  /\ seen'[m] \in [DOMAIN seen'[m] -> Nat]
               /\ DOMAIN seen'[m] \subseteq PeerIds \ {peer_id(m)'}
    <3>1. CASE m = n
        BY <1>1, <1>2, <3>1
    <3>2. CASE m # n
        BY <1>3, <3>2 DEF TypeOK, peer_id
    <3> QED BY <3>1, <3>2
  <2> QED BY <2>1, <2>2, <2>3 DEF TypeOK
<1>5. Addressed'
  <2>1. ASSUME NEW d \in net'
        PROVE  d.to # d.from /\ address(d.id) = d.from /\ Listens(d.to)'
    <3>1. d \in net /\ d.to # n /\ d.to \in Nodes
        BY DEF TypeOK, Datagrams
    <3> QED BY <1>3, <3>1 DEF Addressed, Listens
  <2> QED BY <2>1 DEF Addressed
<1>6. Running'
  <2>1. ASSUME NEW m \in Nodes
        PROVE  IF Listens(m)' THEN starts'[m] >= 1 ELSE seen'[m] = Empty
    <3>1. CASE m = n
        BY <1>2, <3>1 DEF Listens
    <3>2. CASE m # n
        BY <1>3, <3>2 DEF Running, Listens
    <3> QED BY <3>1, <3>2
  <2> QED BY <2>1 DEF Running
<1>7. AgedSinceCleanup'
  <2>1. ASSUME NEW m \in Nodes, NEW id \in DOMAIN seen'[m]
        PROVE  seen'[m][id] <= PeerTimeout + cleaned'[m]
    <3>1. m # n
        BY <1>1, <1>2
    <3> QED BY <1>3, <3>1 DEF AgedSinceCleanup
  <2> QED BY <2>1 DEF AgedSinceCleanup
<1>8. CleanupDelayed'
  <2>1. ASSUME NEW m \in Nodes
        PROVE  cleaned'[m] + Remaining(m)' <= CleanupInterval + Poll + Attempts(m)'
    <3>1. CASE m = n
      <4>1. Cardinality({}) = 0
          BY FS_EmptySet
      <4>2. Attempts(m)' = 0
        <5>1. Cardinality(endpoints'[m]) = 0
            BY <1>2, <3>1, <4>1
        <5>2. ConnectTimeout * 0 = 0
            OBVIOUS
        <5> QED BY <5>1, <5>2 DEF Attempts
      <4>3. Remaining(m)' = 0 /\ cleaned'[m] = 0
          BY <1>2, <3>1 DEF Remaining
      <4> QED BY <4>2, <4>3
    <3>2. CASE m # n
      <4>1. Attempts(m)' = Attempts(m) /\ Remaining(m)' = Remaining(m) /\ cleaned'[m] = cleaned[m]
          BY <1>3, <3>2 DEF Attempts, Remaining
      <4> QED BY <4>1 DEF CleanupDelayed
    <3> QED BY <3>1, <3>2
  <2> QED BY <2>1 DEF CleanupDelayed
<1>9. EndpointsOthers'
    BY <1>2, <1>3 DEF EndpointsOthers
<1>10. PassDelayed'
  <2>1. ASSUME NEW m \in Nodes, loop'[m] = "idle"
        PROVE  cleaned'[m] <= CleanupInterval + late'[m]
    <3>1. CASE m = n
      <4>1. cleaned'[m] = 0 /\ late'[m] = 0
          BY <3>1 DEF TypeOK
      <4> QED BY <4>1
    <3>2. CASE m # n
      <4>1. cleaned'[m] = cleaned[m] /\ late'[m] = late[m] /\ loop'[m] = loop[m]
          BY <3>2 DEF TypeOK
      <4> QED BY <2>1, <4>1 DEF PassDelayed
    <3> QED BY <3>1, <3>2
  <2> QED BY <2>1 DEF PassDelayed
<1> QED BY <1>4, <1>5, <1>6, <1>7, <1>8, <1>9, <1>10

LEMMA DiscoveryLoopIInv ==
    ASSUME IInv, NEW n \in Nodes, discovery_loop(n)
    PROVE  IInv'
<1> USE DiscoveryAssumption DEF IInv, discovery_loop
<1>1. ASSUME NEW d \in net'
      PROVE  \/ d \in net
             \/ d \in Datagrams /\ d.to # d.from /\ address(d.id) = d.from /\ Listens(d.to)
    BY MulticastGood
<1>2. net' \subseteq Datagrams
    BY <1>1 DEF TypeOK
<1>3. announced' \in [Nodes -> Nat] /\ loop' \in [Nodes -> {"idle", "cleanup"}]
      /\ late' \in [Nodes -> 0..Poll]
    BY DEF TypeOK
<1>4. TypeOK'
    BY <1>2, <1>3 DEF TypeOK, peer_id
<1>5. Addressed'
    BY <1>1 DEF Addressed, Listens
<1>6. Running' /\ AgedSinceCleanup' /\ EndpointsOthers'
    BY DEF Running, AgedSinceCleanup, EndpointsOthers, Listens
<1>7. CleanupDelayed'
    BY DEF CleanupDelayed, Remaining, Attempts
<1>8. PassDelayed'
  <2>1. ASSUME NEW m \in Nodes, loop'[m] = "idle"
        PROVE  cleaned'[m] <= CleanupInterval + late'[m]
    <3>1. CASE m = n
      <4>1. cleaned[n] < CleanupInterval /\ late'[n] = 0 /\ cleaned'[n] = cleaned[n]
          BY <2>1, <3>1 DEF TypeOK
      <4> QED BY <3>1, <4>1 DEF TypeOK
    <3>2. CASE m # n
      <4>1. cleaned'[m] = cleaned[m] /\ late'[m] = late[m] /\ loop'[m] = loop[m]
          BY <3>2 DEF TypeOK
      <4> QED BY <2>1, <4>1 DEF PassDelayed
    <3> QED BY <3>1, <3>2
  <2> QED BY <2>1 DEF PassDelayed
<1> QED BY <1>4, <1>5, <1>6, <1>7, <1>8

\* what a cleanup leaves is within the timeout
LEMMA CleanupIInv ==
    ASSUME IInv, NEW n \in Nodes, cleanup_expired_peers(n)
    PROVE  IInv'
<1> USE DiscoveryAssumption DEF IInv, cleanup_expired_peers
<1> DEFINE left == DOMAIN seen[n] \ Expired(n)
<1>1. seen'[n] = [id \in left |-> seen[n][id]] /\ cleaned'[n] = 0
    BY DEF TypeOK, Restrict
<1>2. \A m \in Nodes : m # n => seen'[m] = seen[m] /\ cleaned'[m] = cleaned[m]
    BY DEF TypeOK
<1>3. ASSUME NEW id \in left PROVE seen[n][id] \in Nat /\ seen[n][id] <= PeerTimeout
  <2>1. id \in DOMAIN seen[n] /\ seen[n][id] \in Nat
      BY DEF TypeOK
  <2> QED BY <2>1 DEF Expired
<1>4. TypeOK'
  <2>1. cleaned' \in [Nodes -> Nat] /\ loop' \in [Nodes -> {"idle", "cleanup"}]
      BY DEF TypeOK
  <2>2. seen' = [m \in Nodes |-> seen'[m]]
      BY DEF TypeOK
  <2>3. ASSUME NEW m \in Nodes
        PROVE  /\ seen'[m] \in [DOMAIN seen'[m] -> Nat]
               /\ DOMAIN seen'[m] \subseteq PeerIds \ {peer_id(m)'}
    <3>1. CASE m = n
      <4>1. seen'[n] \in [left -> Nat] /\ DOMAIN seen'[n] = left
          BY <1>1, <1>3
      <4>2. left \subseteq PeerIds \ {peer_id(n)} /\ peer_id(n)' = peer_id(n)
          BY DEF TypeOK, peer_id
      <4> QED BY <3>1, <4>1, <4>2
    <3>2. CASE m # n
        BY <1>2, <3>2 DEF TypeOK, peer_id
    <3> QED BY <3>1, <3>2
  <2> QED BY <2>1, <2>2, <2>3 DEF TypeOK
<1>5. Addressed' /\ EndpointsOthers'
    BY DEF Addressed, EndpointsOthers, Listens
<1>6. Running'
  <2>1. ASSUME NEW m \in Nodes
        PROVE  IF Listens(m)' THEN starts'[m] >= 1 ELSE seen'[m] = Empty
    <3>1. CASE m = n /\ ~Listens(m)
      <4>1. seen[n] = Empty
          BY <3>1 DEF Running
      <4>2. left = {}
          BY <4>1 DEF Empty
      <4>3. seen'[n] = Empty
          BY <1>1, <4>2 DEF Empty
      <4> QED BY <3>1, <4>3 DEF Listens
    <3>2. CASE m # n \/ Listens(m)
        BY <1>2, <3>2 DEF Running, Listens
    <3> QED BY <3>1, <3>2
  <2> QED BY <2>1 DEF Running
<1>7. AgedSinceCleanup'
  <2>1. ASSUME NEW m \in Nodes, NEW id \in DOMAIN seen'[m]
        PROVE  seen'[m][id] <= PeerTimeout + cleaned'[m]
    <3>1. CASE m = n
      <4>1. id \in left /\ seen'[m][id] = seen[n][id] /\ cleaned'[m] = 0
          BY <1>1, <3>1
      <4> QED BY <1>3, <4>1
    <3>2. CASE m # n
        BY <1>2, <3>2 DEF AgedSinceCleanup
    <3> QED BY <3>1, <3>2
  <2> QED BY <2>1 DEF AgedSinceCleanup
<1>8. CleanupDelayed'
  <2>1. ASSUME NEW m \in Nodes
        PROVE  cleaned'[m] + Remaining(m)' <= CleanupInterval + Poll + Attempts(m)'
    <3>1. Remaining(m)' = Remaining(m) /\ Attempts(m)' = Attempts(m)
        BY DEF Remaining, Attempts
    <3>2. cleaned[m] + Remaining(m) <= CleanupInterval + Poll + Attempts(m)
        BY DEF CleanupDelayed
    <3>3. cleaned'[m] = 0 \/ cleaned'[m] = cleaned[m]
        BY <1>1, <1>2
    <3>4. cleaned[m] \in Nat /\ Remaining(m) \in Nat /\ Attempts(m) \in Nat
        BY Numbers
    <3> QED BY <3>1, <3>2, <3>3, <3>4
  <2> QED BY <2>1 DEF CleanupDelayed
<1>9. PassDelayed'
  <2>1. ASSUME NEW m \in Nodes, loop'[m] = "idle"
        PROVE  cleaned'[m] <= CleanupInterval + late'[m]
    <3>1. CASE m = n
        BY <1>1, <3>1, Numbers
    <3>2. CASE m # n
        BY <1>2, <2>1, <3>2 DEF PassDelayed, TypeOK
    <3> QED BY <3>1, <3>2
  <2> QED BY <2>1 DEF PassDelayed
<1> QED BY <1>4, <1>5, <1>6, <1>7, <1>8, <1>9

\* an attempt to connect to one more endpoint takes another ConnectTimeout
LEMMA OneMoreAttempt ==
    ASSUME TypeOK, NEW n \in Nodes, NEW e \in Nodes, e \notin endpoints[n]
    PROVE  ConnectTimeout * Cardinality(endpoints[n] \cup {e}) = Attempts(n) + ConnectTimeout
<1>1. Cardinality(endpoints[n] \cup {e}) = Cardinality(endpoints[n]) + 1
    BY Numbers, FS_AddElement
<1>2. Cardinality(endpoints[n]) \in Nat /\ ConnectTimeout \in Nat
    BY Numbers, DiscoveryAssumption
<1> QED BY <1>1, <1>2 DEF Attempts

\* a new peer is new, and the cleanup may have to wait for the attempt to connect to it
LEMMA PeerAnnounceIInv ==
    ASSUME IInv, NEW n \in Nodes, NEW d \in net, handle_peer_announce(n, d)
    PROVE  IInv'
<1> USE DiscoveryAssumption DEF IInv, handle_peer_announce
<1>1. /\ d \in Datagrams /\ d.to = n /\ d.from \in Nodes /\ d.from # n /\ d.id \in PeerIds
      /\ address(d.id) = d.from /\ Listens(n) /\ wait[n] = 0
    BY DEF TypeOK, Datagrams, Addressed, Receives
<1>2. \A m \in Nodes : m # n => seen'[m] = seen[m] /\ wait'[m] = wait[m]
                                /\ endpoints'[m] = endpoints[m]
    BY DEF TypeOK, connect_to_peer
<1>3. \/ seen'[n] = seen[n]
      \/ /\ d.id # peer_id(n)
         /\ seen'[n] = [id \in DOMAIN seen[n] \cup {d.id} |->
                           IF id = d.id THEN 0 ELSE seen[n][id]]
  <2>1. CASE Own(n, d)
      BY <2>1
  <2>2. CASE ~Own(n, d)
    <3>1. seen'[n] = Heard(seen[n], d.id)
        BY <2>2 DEF TypeOK
    <3> QED BY <2>2, <3>1 DEF Own, Heard
  <2> QED BY <2>1, <2>2
<1>4. \/ wait'[n] = 0 /\ endpoints'[n] = endpoints[n]
      \/ /\ d.from \notin endpoints[n] /\ endpoints'[n] = endpoints[n] \cup {d.from}
         /\ wait'[n] = ConnectTimeout + 1
    BY <1>1 DEF connect_to_peer, TypeOK
<1>5. TypeOK'
  <2>1. /\ wait' \in [Nodes -> 0 .. ConnectTimeout + 1] /\ endpoints' \in [Nodes -> SUBSET Nodes]
        /\ net' \subseteq Datagrams
      BY <1>1, SMTT(30) DEF TypeOK, connect_to_peer
  <2>2. seen' = [m \in Nodes |-> seen'[m]]
      BY DEF TypeOK
  <2>3. ASSUME NEW m \in Nodes
        PROVE  /\ seen'[m] \in [DOMAIN seen'[m] -> Nat]
               /\ DOMAIN seen'[m] \subseteq PeerIds \ {peer_id(m)'}
    <3>1. peer_id(m)' = peer_id(m) /\ seen[m] \in [DOMAIN seen[m] -> Nat]
          /\ DOMAIN seen[m] \subseteq PeerIds \ {peer_id(m)}
        BY DEF peer_id, TypeOK
    <3> QED BY <1>1, <1>2, <1>3, <3>1
  <2> QED BY <2>1, <2>2, <2>3 DEF TypeOK
<1>6. Addressed'
    BY DEF Addressed, Listens
<1>7. Running'
    BY <1>1, <1>2 DEF Running, Listens
<1>8. AgedSinceCleanup'
  <2>1. ASSUME NEW m \in Nodes, NEW id \in DOMAIN seen'[m]
        PROVE  seen'[m][id] <= PeerTimeout + cleaned'[m]
    <3>1. cleaned'[m] = cleaned[m] /\ cleaned[m] \in Nat
        BY DEF TypeOK
    <3>2. seen'[m][id] = 0 \/ (id \in DOMAIN seen[m] /\ seen'[m][id] = seen[m][id])
        BY <1>2, <1>3
    <3> QED BY <3>1, <3>2 DEF AgedSinceCleanup
  <2> QED BY <2>1 DEF AgedSinceCleanup
<1>9. CleanupDelayed'
  <2>1. ASSUME NEW m \in Nodes
        PROVE  cleaned'[m] + Remaining(m)' <= CleanupInterval + Poll + Attempts(m)'
    <3>1. cleaned[m] + Remaining(m) <= CleanupInterval + Poll + Attempts(m)
        BY DEF CleanupDelayed
    <3>2. cleaned[m] \in Nat /\ Remaining(m) \in Nat /\ Attempts(m) \in Nat
        BY Numbers
    <3>3. CASE wait'[m] = wait[m] /\ endpoints'[m] = endpoints[m]
        BY <3>1, <3>3 DEF Remaining, Attempts
    <3>4. CASE /\ m = n /\ d.from \notin endpoints[n] /\ wait'[n] = ConnectTimeout + 1
               /\ endpoints'[n] = endpoints[n] \cup {d.from}
      <4>1. Attempts(m)' = Attempts(m) + ConnectTimeout
          BY <1>1, <3>4, OneMoreAttempt DEF Attempts
      <4>2. Remaining(m)' = ConnectTimeout /\ Remaining(m) = 0
          BY <1>1, <3>4 DEF Remaining
      <4> QED BY <3>1, <3>2, <4>1, <4>2
    <3> QED BY <1>1, <1>2, <1>4, <3>3, <3>4
  <2> QED BY <2>1 DEF CleanupDelayed
<1>10. EndpointsOthers'
    BY <1>1, <1>2, <1>4 DEF EndpointsOthers
<1>11. PassDelayed'
    BY DEF PassDelayed
<1> QED BY <1>5, <1>6, <1>7, <1>8, <1>9, <1>10, <1>11

LEMMA ConnectReturnsIInv ==
    ASSUME IInv, NEW n \in Nodes, ConnectReturns(n)
    PROVE  IInv'
<1> USE DEF IInv, ConnectReturns
<1>1. TypeOK'
    BY DiscoveryAssumption DEF TypeOK, peer_id
<1>2. Addressed' /\ Running' /\ AgedSinceCleanup' /\ EndpointsOthers'
    BY DEF Addressed, Running, AgedSinceCleanup, EndpointsOthers, Listens
<1>3. \A m \in Nodes : Remaining(m)' = Remaining(m) /\ Attempts(m)' = Attempts(m)
    BY DEF Remaining, Attempts, TypeOK
<1>4. CleanupDelayed'
    BY <1>3 DEF CleanupDelayed
<1>5. PassDelayed'
    BY DEF PassDelayed
<1> QED BY <1>1, <1>2, <1>4, <1>5

\* a period in which a cleanup is overdue is one of the present attempt to connect
LEMMA TickIInv ==
    ASSUME IInv, Tick
    PROVE  IInv'
<1> USE DiscoveryAssumption DEF IInv, Tick
<1>1. TypeOK'
  <2>1. announced' \in [Nodes -> Nat] /\ cleaned' \in [Nodes -> Nat]
      BY DEF TypeOK
  <2>2. wait' \in [Nodes -> 0 .. ConnectTimeout + 1] /\ late' \in [Nodes -> 0 .. Poll]
    <3>1. wait' \in [Nodes -> 0 .. ConnectTimeout + 1]
        BY DEF TypeOK
    <3>2. ASSUME NEW m \in Nodes
          PROVE  (IF Sleeps(m) THEN late[m] + 1 ELSE late[m]) \in 0 .. Poll
      <4>1. late[m] \in 0 .. Poll
          BY DEF TypeOK
      <4>2. Sleeps(m) => late[m] # Poll
          BY DEF Urgent
      <4>3. Poll \in Nat
          OBVIOUS
      <4> HIDE DiscoveryAssumption DEF IInv, Tick
      <4>4. CASE Sleeps(m)
          BY <4>1, <4>2, <4>3, <4>4
      <4>5. CASE ~Sleeps(m)
          BY <4>1, <4>5
      <4> QED BY <4>4, <4>5
    <3> QED BY <3>1, <3>2
  <2>3. ASSUME NEW m \in Nodes
        PROVE  /\ seen'[m] \in [DOMAIN seen'[m] -> Nat]
               /\ DOMAIN seen'[m] \subseteq PeerIds \ {peer_id(m)'}
      BY DEF TypeOK, peer_id
  <2>4. seen' = [m \in Nodes |-> seen'[m]]
      OBVIOUS
  <2> QED BY <2>1, <2>2, <2>3, <2>4 DEF TypeOK
<1>2. Addressed' /\ EndpointsOthers'
    BY DEF Addressed, EndpointsOthers, Listens
<1>3. Running'
  <2>1. ASSUME NEW m \in Nodes
        PROVE  IF Listens(m)' THEN starts'[m] >= 1 ELSE seen'[m] = Empty
    <3>1. CASE Listens(m)
        BY <3>1 DEF Running, Listens
    <3>2. CASE ~Listens(m)
      <4>1. seen[m] = Empty
          BY <3>2 DEF Running
      <4>2. seen'[m] = Empty
          BY <4>1 DEF Empty
      <4> QED BY <3>2, <4>2 DEF Listens
    <3> QED BY <3>1, <3>2
  <2> QED BY <2>1 DEF Running
<1>4. AgedSinceCleanup'
  <2>1. ASSUME NEW m \in Nodes, NEW id \in DOMAIN seen'[m]
        PROVE  seen'[m][id] <= PeerTimeout + cleaned'[m]
    <3>1. id \in DOMAIN seen[m] /\ seen'[m][id] = seen[m][id] + 1 /\ seen[m][id] \in Nat
        BY DEF TypeOK
    <3>2. Listens(m)
        BY <3>1 DEF Running, Empty
    <3>3. cleaned'[m] = cleaned[m] + 1 /\ cleaned[m] \in Nat
        BY <3>2 DEF TypeOK
    <3>4. seen[m][id] <= PeerTimeout + cleaned[m]
        BY <3>1 DEF AgedSinceCleanup
    <3> QED BY <3>1, <3>3, <3>4
  <2> QED BY <2>1 DEF AgedSinceCleanup
<1>5. CleanupDelayed'
  <2>1. ASSUME NEW m \in Nodes
        PROVE  cleaned'[m] + Remaining(m)' <= CleanupInterval + Poll + Attempts(m)'
    <3>1. /\ cleaned[m] \in Nat /\ late[m] \in Nat /\ late[m] <= Poll /\ Remaining(m) \in Nat /\ Attempts(m) \in Nat
          /\ wait[m] \in Nat
        BY Numbers
    <3>2. cleaned[m] + Remaining(m) <= CleanupInterval + Poll + Attempts(m)
        BY DEF CleanupDelayed
    <3>3. Attempts(m)' = Attempts(m)
        BY DEF Attempts
    <3>4. wait[m] # 1
        BY DEF Urgent
    <3>5. CASE wait[m] > 1
      <4>1. Remaining(m)' = Remaining(m) - 1
          BY <3>1, <3>5 DEF Remaining
      <4>2. cleaned'[m] <= cleaned[m] + 1 /\ cleaned'[m] \in Nat
          BY <3>1
      <4> QED BY <3>1, <3>2, <3>3, <4>1, <4>2
    <3>6. CASE wait[m] = 0
      <4>1. Remaining(m)' = 0
          BY <3>6 DEF Remaining, TypeOK
      <4>2. cleaned'[m] <= CleanupInterval + Poll /\ cleaned'[m] \in Nat
        <5>1. CASE Listens(m)
          <6>1. loop[m] = "idle"
              BY <3>6 DEF Urgent, TypeOK
          <6>2. cleaned[m] <= CleanupInterval + late[m]
              BY <6>1 DEF PassDelayed
          <6>3. cleaned[m] < CleanupInterval \/ late[m] < Poll
            <7>1. ~(Sleeps(m) /\ late[m] = Poll)
                BY DEF Urgent
            <7>2. cleaned[m] >= CleanupInterval => Sleeps(m)
                BY <5>1, <6>1 DEF Sleeps, Due
            <7>3. CleanupInterval \in Nat /\ Poll \in Nat
                OBVIOUS
            <7> HIDE DiscoveryAssumption DEF IInv, Tick
            <7> QED BY <3>1, <7>1, <7>2, <7>3
          <6>4. cleaned'[m] = cleaned[m] + 1
              BY <5>1
          <6> HIDE DEF IInv, Tick
          <6> QED BY <3>1, <6>2, <6>3, <6>4
        <5>2. CASE ~Listens(m)
            BY <5>2
        <5> QED BY <5>1, <5>2
      <4> QED BY <3>1, <3>3, <4>1, <4>2
    <3>7. wait[m] > 1 \/ wait[m] = 0
      <4> HIDE DEF IInv, Tick
      <4> QED BY <3>1, <3>4
    <3> QED BY <3>5, <3>6, <3>7
  <2> QED BY <2>1 DEF CleanupDelayed
<1>6. PassDelayed'
  <2>1. ASSUME NEW m \in Nodes, loop'[m] = "idle"
        PROVE  cleaned'[m] <= CleanupInterval + late'[m]
    <3>1. /\ cleaned[m] \in Nat /\ late[m] \in Nat /\ cleaned[m] <= CleanupInterval + late[m]
        BY <2>1, Numbers DEF PassDelayed
    <3>2. late'[m] = IF Sleeps(m) THEN late[m] + 1 ELSE late[m]
        OBVIOUS
    <3>3. CASE Listens(m)
      <4>1. cleaned'[m] = cleaned[m] + 1
          BY <3>3
      <4>2. cleaned[m] >= CleanupInterval => Sleeps(m)
          BY <2>1, <3>3 DEF Sleeps, Due
      <4> HIDE DEF IInv, Tick
      <4> QED BY <3>1, <3>2, <4>1, <4>2
    <3>4. CASE ~Listens(m)
      <4>1. cleaned'[m] = 0
          BY <3>4
      <4> HIDE DEF IInv, Tick
      <4> QED BY <3>1, <3>2, <4>1
    <3> QED BY <3>3, <3>4
  <2> QED BY <2>1 DEF PassDelayed
<1> QED BY <1>1, <1>2, <1>3, <1>4, <1>5, <1>6

LEMMA NextIInv ==
    ASSUME IInv, [Next]_vars
    PROVE  IInv'
<1>1. CASE Tick
    BY <1>1, TickIInv
<1>2. ASSUME NEW n \in Nodes, NEW d \in net, handle_peer_query(n, d)
      PROVE  IInv'
  <2>1. TypeOK /\ Running /\ Addressed
      BY DEF IInv
  <2>2. Listens(n)
      BY <1>2, <2>1 DEF handle_peer_query, Receives, Addressed
  <2>3. \A r \in Multicast(n, "response") :
           r \in Datagrams /\ r.to # r.from /\ address(r.id) = r.from /\ Listens(r.to)
      BY <2>1, <2>2, MulticastGood
  <2>4. lost' \in 0 .. MaxLost /\ queries' \in 0 .. MaxQueries /\ UNCHANGED local
      BY <1>2, <2>1 DEF handle_peer_query, TypeOK
  <2>5. \A r \in net' : r \in net \/ r \in Multicast(n, "response")
      BY <1>2 DEF handle_peer_query
  <2> QED BY <2>3, <2>4, <2>5, OnlyNet
<1>3. ASSUME NEW n \in Nodes, query_peers(n)
      PROVE  IInv'
  <2>1. TypeOK /\ Running
      BY DEF IInv
  <2>2. \A r \in Multicast(n, "query") :
           r \in Datagrams /\ r.to # r.from /\ address(r.id) = r.from /\ Listens(r.to)
      BY <1>3, <2>1, MulticastGood DEF query_peers
  <2>3. lost' \in 0 .. MaxLost /\ queries' \in 0 .. MaxQueries /\ UNCHANGED local
      BY <1>3, <2>1, DiscoveryAssumption DEF query_peers, TypeOK
  <2>4. \A r \in net' : r \in net \/ r \in Multicast(n, "query")
      BY <1>3 DEF query_peers
  <2> QED BY <2>2, <2>3, <2>4, OnlyNet
<1>4. ASSUME NEW d \in net, Lose(d)
      PROVE  IInv'
  <2>1. lost' \in 0 .. MaxLost /\ queries' \in 0 .. MaxQueries /\ UNCHANGED local
      BY <1>4, DiscoveryAssumption DEF IInv, Lose, TypeOK
  <2>2. \A r \in net' : r \in net
      BY <1>4 DEF Lose
  <2> QED BY <2>1, <2>2, OnlyNet
<1>5. ASSUME NEW n \in Nodes, Steps(n)
      PROVE  IInv'
  <2>1. ASSUME NEW d \in net, handle_peer_announce(n, d) \/ handle_peer_query(n, d)
        PROVE  IInv'
      BY <1>2, <2>1, PeerAnnounceIInv
  <2> QED BY <1>5, <2>1, AnnounceSelfIInv, DiscoveryLoopIInv, CleanupIInv, ConnectReturnsIInv
             DEF Steps
<1>6. CASE UNCHANGED vars
  <2>1. lost' \in 0 .. MaxLost /\ queries' \in 0 .. MaxQueries /\ UNCHANGED local
      BY <1>6 DEF IInv, TypeOK, vars, local
  <2>2. \A r \in net' : r \in net
      BY <1>6 DEF vars
  <2> QED BY <2>1, <2>2, OnlyNet
<1> QED BY <1>1, <1>3, <1>4, <1>5, <1>6, StartIInv, KilledIInv DEF Next

LEMMA DiscoveryInvariant == Spec => []IInv
BY InitIInv, NextIInv, PTL DEF Spec

(***************************************************************************)
(* Type correctness of the nodes and their datagrams (UdpDiscovery), for   *)
(* any number of nodes, starts and losses.                                 *)
(***************************************************************************)
THEOREM TypeCorrect == Spec => []TypeOK
<1>1. IInv => TypeOK
    BY DEF IInv
<1> QED BY <1>1, DiscoveryInvariant, PTL

LEMMA MoreAttempts ==
    ASSUME NEW a \in Nat, NEW b \in Nat, NEW k \in Nat, a <= b
    PROVE  k * a <= k * b
<1>1. b - a \in Nat /\ b = a + (b - a)
    OBVIOUS
<1>2. k * b = k * a + k * (b - a)
    BY <1>1
<1>3. k * (b - a) \in Nat /\ k * a \in Nat
    BY <1>1
<1> QED BY <1>2, <1>3

(***************************************************************************)
(* A peer that is shown as discovered was heard of within the timeout, the *)
(* interval of cleanup_expired_peers, one sleep of the discovery thread    *)
(* and one connection attempt for every other node, for any number of      *)
(* nodes and any intervals: a node connects to an endpoint once, and never *)
(* to itself.                                                              *)
(***************************************************************************)
THEOREM KnownAlwaysRecent == Spec => []KnownIsRecent
<1>1. ASSUME IInv PROVE KnownIsRecent
  <2>1. SUFFICES ASSUME NEW n \in Nodes, NEW id \in DOMAIN seen[n]
                 PROVE  seen[n][id] <= MaxAge
      BY DEF KnownIsRecent
  <2>2. /\ cleaned[n] \in Nat /\ Remaining(n) \in Nat /\ Attempts(n) \in Nat
        /\ Cardinality(endpoints[n]) \in Nat /\ seen[n][id] \in Nat
      BY <1>1, Numbers DEF IInv
  <2>3. seen[n][id] <= PeerTimeout + cleaned[n]
      BY <1>1 DEF IInv, AgedSinceCleanup
  <2>4. cleaned[n] + Remaining(n) <= CleanupInterval + Poll + Attempts(n)
      BY <1>1 DEF IInv, CleanupDelayed
  <2>5. endpoints[n] \subseteq Nodes \ {n}
      BY <1>1 DEF IInv, TypeOK, EndpointsOthers
  <2>6. /\ IsFiniteSet(Nodes \ {n}) /\ Cardinality(Nodes \ {n}) = Cardinality(Nodes) - 1
      BY DiscoveryAssumption, FS_RemoveElement
  <2>7. Cardinality(Nodes \ {n}) \in Nat
      BY <2>6, FS_CardinalityType
  <2>8. Cardinality(endpoints[n]) <= Cardinality(Nodes) - 1 /\ Cardinality(Nodes) - 1 \in Nat
      BY <2>5, <2>6, <2>7, FS_Subset
  <2>9. Attempts(n) <= ConnectTimeout * (Cardinality(Nodes) - 1)
      BY <2>2, <2>8, MoreAttempts, DiscoveryAssumption DEF Attempts
  <2>10. ConnectTimeout * (Cardinality(Nodes) - 1) \in Nat
      BY <2>8, DiscoveryAssumption
  <2> QED BY <2>2, <2>3, <2>4, <2>9, <2>10, DiscoveryAssumption DEF MaxAge
<1> QED BY <1>1, DiscoveryInvariant, PTL

-----------------------------------------------------------------------------
(***************************************************************************)
(* Why live peers are kept.  What ages an entry for a peer that announces  *)
(* itself is the time to its next announcement with the sleep of the       *)
(* thread that sends it, an announcement that was lost, a period in which  *)
(* the peer's cleanup waits for its io thread, or one in which an          *)
(* announcement waits for the io thread of the node.  Each has its term in *)
(* Punctual.  An attempt to connect to the peer itself begins when it is   *)
(* first heard of (FirstAttempt), so it costs nothing that the interval of *)
(* the announcements does not pay for.                                     *)
(***************************************************************************)
\* the periods that the io thread of n has waited for connections
Waited(n) == Attempts(n) - Remaining(n)

Waits == \A n \in Nodes : Waited(n) \in Nat

\* every peer that is known was connected to
Tried == \A n \in Nodes : \A id \in DOMAIN seen[n] : address(id) \in endpoints[n]

\* an id that was heard of, or may be, was announced
Used(id) ==
    /\ id[2] <= starts[address(id)]
    /\ mode[address(id)] = "starting" => id[2] # starts[address(id)]

IdsUsed ==
    /\ \A n \in Nodes : \A id \in DOMAIN seen[n] : Used(id)
    /\ \A d \in net : d.type # "query" => Used(d.id)

FirstAttempt ==
    \A n \in Nodes : \A id \in DOMAIN seen[n] :
        Waited(n) < ConnectTimeout => seen[n][id] <= Waited(n)

\* the periods waited, but for one attempt
Later(n) == IF Waited(n) < ConnectTimeout THEN 0 ELSE Waited(n) - ConnectTimeout

OnItsWay(n, p) == [to |-> n, from |-> p, type |-> "announce", id |-> peer_id(p)] \in net

\* the periods since p sent an announcement that n has not got, up to the interval and the
\* sleep of the discovery thread of p
Since(n, p) ==
    CASE OnItsWay(n, p) -> Longest
      [] ~OnItsWay(n, p) /\ announced[p] < AnnounceInterval -> announced[p]
      [] ~OnItsWay(n, p) /\ announced[p] >= AnnounceInterval -> AnnounceInterval + late[p]

Bound(n, p) == Since(n, p) + Longest * lost + Waited(p) + Later(n)

Punctual ==
    \A n, p \in Nodes :
        mode[p] = "on" /\ peer_id(p) \in DOMAIN seen[n] => seen[n][peer_id(p)] <= Bound(n, p)

LiveIInv == Waits /\ Tried /\ IdsUsed /\ FirstAttempt /\ Punctual

LEMMA Intervals == Longest \in Nat /\ AnnounceInterval \in Nat /\ ConnectTimeout \in Nat
                   /\ Poll \in Nat /\ Longest = AnnounceInterval + Poll
                   /\ ConnectTimeout <= AnnounceInterval
BY DiscoveryAssumption DEF Longest

LEMMA Product == ASSUME NEW a \in Nat, NEW b \in Nat PROVE a * b \in Nat
OBVIOUS

LEMMA LiveNumbers ==
    ASSUME TypeOK, Waits, NEW n \in Nodes, NEW p \in Nodes
    PROVE  /\ Waited(n) \in Nat /\ Later(n) \in Nat /\ Later(n) <= Waited(n)
           /\ announced[p] \in Nat /\ lost \in Nat /\ Longest * lost \in Nat
           /\ Since(n, p) \in Nat /\ Since(n, p) <= Longest
<1> USE DiscoveryAssumption
<1>1. Waited(n) \in Nat
    BY DEF Waits
<1>2. Later(n) \in Nat /\ Later(n) <= Waited(n)
    BY <1>1 DEF Later
<1>3. announced[p] \in Nat /\ lost \in Nat
    BY DEF TypeOK
<1>4. Longest * lost \in Nat
    BY <1>3, Intervals, Product
<1>5. Since(n, p) \in Nat /\ Since(n, p) <= Longest
  <2>1. late[p] \in Nat /\ late[p] <= Poll
      BY Numbers
  <2> QED BY <1>3, <2>1, Intervals DEF Since
<1> QED BY <1>1, <1>2, <1>3, <1>4, <1>5

LEMMA LiveNumbersNext ==
    ASSUME TypeOK', Waits', NEW n \in Nodes, NEW p \in Nodes
    PROVE  /\ Waited(n)' \in Nat /\ Later(n)' \in Nat
           /\ Since(n, p)' \in Nat /\ Longest * lost' \in Nat
<1> USE DiscoveryAssumption
<1>1. Waited(n)' \in Nat
    BY DEF Waits
<1>2. Later(n)' \in Nat
    BY <1>1 DEF Later
<1>3. announced'[p] \in Nat /\ lost' \in Nat
    BY DEF TypeOK
<1>4. Longest * lost' \in Nat
  <2> HIDE DiscoveryAssumption
  <2> QED BY <1>3, Intervals, Product
<1>5. Since(n, p)' \in Nat
  <2>1. late'[p] \in Nat
      BY DEF TypeOK
  <2> QED BY <1>3, <2>1, Intervals DEF Since
<1> QED BY <1>1, <1>2, <1>4, <1>5

\* a step in which no time passes: an entry stays, is new or has just been heard of again,
\* and what pays for its age stays
LEMMA LiveStep ==
    ASSUME IInv, IInv', LiveIInv,
           \A m \in Nodes :
               \/ Waited(m)' = Waited(m)
               \/ Waited(m)' \in Nat /\ DOMAIN seen'[m] = {} /\ mode'[m] # "on",
           \A m \in Nodes : \A id \in DOMAIN seen'[m] :
               /\ address(id) \in endpoints'[m] /\ Used(id)'
               /\ seen'[m][id] = 0 \/ (id \in DOMAIN seen[m] /\ seen'[m][id] = seen[m][id]),
           \A d \in net' : d.type # "query" => Used(d.id)',
           \A m, p \in Nodes :
               mode'[p] = "on" /\ peer_id(p)' \in DOMAIN seen'[m] /\ seen'[m][peer_id(p)'] # 0 =>
                   /\ mode[p] = "on" /\ peer_id(p)' = peer_id(p)
                   /\ Since(m, p) + Longest * lost
                         <= Since(m, p)' + Longest * lost'
    PROVE  LiveIInv'
<1> USE DEF LiveIInv, IInv
<1>1. Waits'
    BY DEF Waits
<1>2. Tried' /\ IdsUsed'
    BY DEF Tried, IdsUsed
<1>3. ASSUME NEW m \in Nodes, NEW id \in DOMAIN seen'[m], Waited(m)' < ConnectTimeout
      PROVE  seen'[m][id] <= Waited(m)'
  <2>1. Waited(m)' = Waited(m) /\ Waited(m) \in Nat
      BY DEF Waits
  <2>2. CASE seen'[m][id] = 0
      BY <2>1, <2>2
  <2>3. CASE id \in DOMAIN seen[m] /\ seen'[m][id] = seen[m][id]
      BY <1>3, <2>1, <2>3 DEF FirstAttempt
  <2> QED BY <2>2, <2>3
<1>4. ASSUME NEW m \in Nodes, NEW p \in Nodes, mode'[p] = "on", peer_id(p)' \in DOMAIN seen'[m]
      PROVE  seen'[m][peer_id(p)'] <= Bound(m, p)'
  <2>1. /\ Since(m, p)' \in Nat /\ Longest * lost' \in Nat
        /\ Waited(p)' \in Nat /\ Later(m)' \in Nat
      BY <1>1, LiveNumbersNext
  <2>2. CASE seen'[m][peer_id(p)'] = 0
      BY <2>1, <2>2 DEF Bound
  <2>3. CASE seen'[m][peer_id(p)'] # 0
    <3>1. /\ mode[p] = "on" /\ peer_id(p)' = peer_id(p) /\ peer_id(p) \in DOMAIN seen[m]
          /\ seen'[m][peer_id(p)'] = seen[m][peer_id(p)]
          /\ Since(m, p) + Longest * lost <= Since(m, p)' + Longest * lost'
        BY <1>4, <2>3
    <3>2. Waited(p)' = Waited(p) /\ Waited(m)' = Waited(m)
        BY <1>4
    <3>3. Later(m)' = Later(m)
        BY <3>2 DEF Later
    <3>4. seen[m][peer_id(p)] <= Since(m, p) + Longest * lost + Waited(p) + Later(m)
        BY <3>1 DEF Punctual, Bound
    <3>5. /\ Since(m, p) \in Nat /\ Longest * lost \in Nat /\ Waited(p) \in Nat
          /\ Later(m) \in Nat /\ seen[m][peer_id(p)] \in Nat
        BY <3>1, LiveNumbers, Numbers
    <3>6. seen[m][peer_id(p)]
             <= Since(m, p)' + Longest * lost' + Waited(p)' + Later(m)'
      <4> HIDE DEF LiveIInv, IInv
      <4> QED BY <2>1, <3>1, <3>2, <3>3, <3>4, <3>5
    <3> QED BY <3>1, <3>6 DEF Bound
  <2> QED BY <2>2, <2>3
<1> QED BY <1>1, <1>2, <1>3, <1>4 DEF FirstAttempt, Punctual

\* the announcements that are on their way stay so, and none is sent
LEMMA SinceGrows ==
    ASSUME TypeOK, Waits, TypeOK', Waits', NEW m \in Nodes, NEW p \in Nodes,
           OnItsWay(m, p) => OnItsWay(m, p)', announced'[p] = announced[p], lost' = lost,
           late'[p] = late[p] \/ announced[p] < AnnounceInterval
    PROVE  Since(m, p) + Longest * lost <= Since(m, p)' + Longest * lost'
<1>1. Since(m, p) <= Since(m, p)'
  <2>1. late[p] \in Nat /\ late[p] <= Poll /\ announced[p] \in Nat
      BY Numbers DEF TypeOK
  <2> QED BY <2>1, Intervals DEF Since
<1>2. Since(m, p) \in Nat /\ Since(m, p)' \in Nat /\ Longest * lost \in Nat
    BY LiveNumbers, LiveNumbersNext
<1> QED BY <1>1, <1>2

\* and if one is, the node has to wait for it as long as it ever has
LEMMA SinceSent ==
    ASSUME TypeOK, Waits, NEW m \in Nodes, NEW p \in Nodes, OnItsWay(m, p)', lost' = lost
    PROVE  Since(m, p) + Longest * lost <= Since(m, p)' + Longest * lost'
<1>1. Since(m, p)' = Longest
    BY DEF Since
<1>2. /\ Since(m, p) \in Nat /\ Since(m, p) <= Longest
      /\ Longest * lost \in Nat
    BY LiveNumbers
<1> QED BY <1>1, <1>2, Intervals

LEMMA SameWaited ==
    ASSUME NEW m \in Nodes, endpoints'[m] = endpoints[m], wait'[m] = wait[m]
    PROVE  Waited(m)' = Waited(m)
BY DEF Waited, Attempts, Remaining

LEMMA IdParts ==
    ASSUME TypeOK, NEW n \in Nodes, NEW id \in DOMAIN seen[n]
    PROVE  /\ id \in PeerIds /\ address(id) \in Nodes /\ id[2] \in Nat
           /\ seen[n][id] \in Nat /\ id # peer_id(n)
BY DEF TypeOK, PeerIds, address

\* a new daemon has not been heard of
LEMMA StartLive ==
    ASSUME IInv, IInv', LiveIInv, NEW n \in Nodes, start(n)
    PROVE  LiveIInv'
<1> USE DEF IInv, LiveIInv, start
<1>1. \A m \in Nodes : Waited(m)' = Waited(m)
    BY SameWaited
<1>2. ASSUME NEW id \in PeerIds, Used(id)
      PROVE  Used(id)'
  <2>1. id[2] \in Nat /\ starts[address(id)] \in Nat /\ address(id) \in Nodes
      BY DEF PeerIds, address, TypeOK
  <2>2. CASE address(id) = n
    <3>1. starts'[n] = starts[n] + 1
        BY DEF TypeOK
    <3> QED BY <1>2, <2>1, <2>2, <3>1 DEF Used
  <2>3. CASE address(id) # n
      BY <1>2, <2>1, <2>3 DEF Used, TypeOK
  <2> QED BY <2>2, <2>3
<1>3. ASSUME NEW m \in Nodes, NEW id \in DOMAIN seen'[m]
      PROVE  /\ address(id) \in endpoints'[m] /\ Used(id)'
             /\ id \in DOMAIN seen[m] /\ seen'[m][id] = seen[m][id]
    BY <1>2, IdParts DEF Tried, IdsUsed
<1>4. ASSUME NEW d \in net', d.type # "query"
      PROVE  Used(d.id)'
    BY <1>2, <1>4 DEF IdsUsed, TypeOK, Datagrams
<1>5. ASSUME NEW m \in Nodes, NEW p \in Nodes, mode'[p] = "on"
      PROVE  /\ mode[p] = "on" /\ peer_id(p)' = peer_id(p)
             /\ OnItsWay(m, p) => OnItsWay(m, p)'
  <2>1. p # n
      BY <1>5 DEF TypeOK
  <2> QED BY <1>5, <2>1 DEF TypeOK, peer_id, OnItsWay
<1>6. Waits'
    BY <1>1 DEF Waits
<1>7. \A m, p \in Nodes : mode'[p] = "on" =>
         Since(m, p) + Longest * lost <= Since(m, p)' + Longest * lost'
    BY <1>5, <1>6, SinceGrows
<1> QED BY <1>1, <1>3, <1>4, <1>5, <1>7, LiveStep

\* a step that changes no mode, and keeps the announcements that are on their way
LEMMA QuietLive ==
    ASSUME IInv, IInv', LiveIInv, UNCHANGED <<mode, starts, announced, late, lost>>,
           \A m \in Nodes : Waited(m)' = Waited(m),
           \A m \in Nodes : \A id \in DOMAIN seen'[m] :
               /\ address(id) \in endpoints'[m]
               /\ \/ seen'[m][id] = 0 /\ Used(id)
                  \/ id \in DOMAIN seen[m] /\ seen'[m][id] = seen[m][id],
           \A d \in net' : d.type # "query" => d \in net \/ Used(d.id),
           \A m, p \in Nodes :
               OnItsWay(m, p) => OnItsWay(m, p)'
                                 \/ peer_id(p) \notin DOMAIN seen'[m]
                                 \/ seen'[m][peer_id(p)] = 0
    PROVE  LiveIInv'
<1> USE DEF IInv, LiveIInv
<1>1. \A id : Used(id)' <=> Used(id)
    BY DEF Used
<1>2. \A p \in Nodes : peer_id(p)' = peer_id(p)
    BY DEF peer_id
<1>3. \A m \in Nodes : \A id \in DOMAIN seen'[m] :
         /\ address(id) \in endpoints'[m] /\ Used(id)'
         /\ seen'[m][id] = 0 \/ (id \in DOMAIN seen[m] /\ seen'[m][id] = seen[m][id])
    BY <1>1 DEF IdsUsed
<1>4. \A d \in net' : d.type # "query" => Used(d.id)'
    BY <1>1 DEF IdsUsed
<1>5. Waits'
    BY DEF Waits
<1>6. ASSUME NEW m \in Nodes, NEW p \in Nodes, mode'[p] = "on",
             peer_id(p)' \in DOMAIN seen'[m], seen'[m][peer_id(p)'] # 0
      PROVE  Since(m, p) + Longest * lost <= Since(m, p)' + Longest * lost'
  <2>1. OnItsWay(m, p) => OnItsWay(m, p)'
      BY <1>2, <1>6
  <2> QED BY <1>5, <2>1, SinceGrows
<1> QED BY <1>2, <1>3, <1>4, <1>6, LiveStep

\* the daemon has been heard of by nobody, and sends to everybody
LEMMA AnnounceSelfLive ==
    ASSUME IInv, IInv', LiveIInv, NEW n \in Nodes, announce_self(n)
    PROVE  LiveIInv'
<1> USE DEF IInv, LiveIInv, announce_self
<1>1. \A m \in Nodes : Waited(m)' = Waited(m)
    BY SameWaited
<1>2. \A id \in PeerIds : Used(id) => Used(id)'
    BY DEF Used, TypeOK, PeerIds, address
<1>3. ASSUME NEW m \in Nodes, NEW id \in DOMAIN seen'[m]
      PROVE  /\ address(id) \in endpoints'[m] /\ Used(id)'
             /\ id \in DOMAIN seen[m] /\ seen'[m][id] = seen[m][id]
    BY <1>2, IdParts DEF Tried, IdsUsed
<1>4. ASSUME NEW d \in net', d.type # "query"
      PROVE  Used(d.id)'
  <2>1. CASE d \in net
      BY <1>2, <1>4, <2>1 DEF IdsUsed, TypeOK, Datagrams
  <2>2. CASE d \in Multicast(n, "announce")
    <3>1. d.id = <<n, starts[n]>>
        BY <2>2 DEF Multicast, peer_id
    <3> QED BY <3>1 DEF Used, address, TypeOK
  <2> QED BY <2>1, <2>2
<1>5. ASSUME NEW m \in Nodes, NEW p \in Nodes, mode'[p] = "on",
             peer_id(p)' \in DOMAIN seen'[m]
      PROVE  /\ mode[p] = "on" /\ peer_id(p)' = peer_id(p) /\ announced'[p] = announced[p]
             /\ OnItsWay(m, p) => OnItsWay(m, p)'
  <2>1. peer_id(p)' = peer_id(p)
      BY DEF peer_id
  <2>2. p # n
    <3>1. Used(peer_id(p)) /\ address(peer_id(p)) = p /\ peer_id(p)[2] = starts[p]
        BY <1>5, <2>1 DEF IdsUsed, peer_id, address
    <3> QED BY <3>1 DEF Used
  <2> QED BY <1>5, <2>1, <2>2 DEF TypeOK, OnItsWay
<1>6. Waits'
    BY <1>1 DEF Waits
<1>7. \A m, p \in Nodes : mode'[p] = "on" /\ peer_id(p)' \in DOMAIN seen'[m] =>
         Since(m, p) + Longest * lost <= Since(m, p)' + Longest * lost'
    BY <1>5, <1>6, SinceGrows
<1> QED BY <1>1, <1>3, <1>4, <1>5, <1>7, LiveStep

\* a daemon that is killed knows nobody, and owes nothing
LEMMA KilledLive ==
    ASSUME IInv, IInv', LiveIInv, NEW n \in Nodes, Killed(n)
    PROVE  LiveIInv'
<1> USE DEF IInv, LiveIInv, Killed
<1>1. /\ DOMAIN seen'[n] = {} /\ wait'[n] = 0 /\ endpoints'[n] = {} /\ mode'[n] = "off"
    BY DEF TypeOK, Empty
<1>2. Waited(n)' \in Nat
  <2>1. Cardinality({}) = 0 /\ ConnectTimeout * 0 = 0
      BY FS_EmptySet, DiscoveryAssumption
  <2>2. Attempts(n)' = 0 /\ Remaining(n)' = 0
      BY <1>1, <2>1 DEF Attempts, Remaining
  <2> QED BY <2>2 DEF Waited
<1>3. \A m \in Nodes : m # n =>
         /\ seen'[m] = seen[m] /\ announced'[m] = announced[m] /\ wait'[m] = wait[m]
         /\ endpoints'[m] = endpoints[m] /\ mode'[m] = mode[m] /\ late'[m] = late[m]
    BY DEF TypeOK
<1>4. \A m \in Nodes : m # n => Waited(m)' = Waited(m)
    BY <1>3, SameWaited
<1>5. \A id \in PeerIds : Used(id) => Used(id)'
    BY DEF Used, TypeOK, PeerIds, address
<1>6. ASSUME NEW m \in Nodes, NEW id \in DOMAIN seen'[m]
      PROVE  /\ address(id) \in endpoints'[m] /\ Used(id)'
             /\ id \in DOMAIN seen[m] /\ seen'[m][id] = seen[m][id]
  <2>1. m # n
      BY <1>1
  <2> QED BY <1>3, <1>5, <2>1, IdParts DEF Tried, IdsUsed
<1>7. ASSUME NEW d \in net', d.type # "query"
      PROVE  Used(d.id)'
    BY <1>5, <1>7 DEF IdsUsed, TypeOK, Datagrams
<1>8. ASSUME NEW m \in Nodes, NEW p \in Nodes, mode'[p] = "on",
             peer_id(p)' \in DOMAIN seen'[m]
      PROVE  /\ mode[p] = "on" /\ peer_id(p)' = peer_id(p) /\ announced'[p] = announced[p]
             /\ late'[p] = late[p]
             /\ OnItsWay(m, p) => OnItsWay(m, p)'
  <2>1. p # n /\ m # n
      BY <1>1, <1>8
  <2> QED BY <1>3, <1>8, <2>1 DEF peer_id, OnItsWay
<1>9. Waits'
    BY <1>2, <1>4 DEF Waits
<1>10. \A m, p \in Nodes : mode'[p] = "on" /\ peer_id(p)' \in DOMAIN seen'[m] =>
         Since(m, p) + Longest * lost <= Since(m, p)' + Longest * lost'
    BY <1>8, <1>9, SinceGrows
<1>11. \A m \in Nodes : \/ Waited(m)' = Waited(m)
                        \/ Waited(m)' \in Nat /\ DOMAIN seen'[m] = {} /\ mode'[m] # "on"
    BY <1>1, <1>2, <1>4
<1> QED BY <1>6, <1>7, <1>8, <1>10, <1>11, LiveStep

\* an announcement is on its way to everybody who has heard of the node
LEMMA DiscoveryLoopLive ==
    ASSUME IInv, IInv', LiveIInv, NEW n \in Nodes, discovery_loop(n)
    PROVE  LiveIInv'
<1> USE DEF IInv, LiveIInv, discovery_loop
<1>1. \A m \in Nodes : Waited(m)' = Waited(m)
    BY SameWaited
<1>2. \A id : Used(id)' <=> Used(id)
    BY DEF Used
<1>3. \A p \in Nodes : peer_id(p)' = peer_id(p)
    BY DEF peer_id
<1>4. ASSUME NEW m \in Nodes, NEW id \in DOMAIN seen'[m]
      PROVE  /\ address(id) \in endpoints'[m] /\ Used(id)'
             /\ id \in DOMAIN seen[m] /\ seen'[m][id] = seen[m][id]
    BY <1>2 DEF Tried, IdsUsed
<1>5. ASSUME NEW d \in net', d.type # "query"
      PROVE  Used(d.id)'
  <2>1. CASE d \in net
      BY <1>2, <1>5, <2>1 DEF IdsUsed
  <2>2. CASE d \in Multicast(n, "announce") /\ mode[n] = "on"
    <3>1. d.id = <<n, starts[n]>>
        BY <2>2 DEF Multicast, peer_id
    <3> QED BY <2>2, <3>1 DEF Used, address, TypeOK
  <2> QED BY <2>1, <2>2
<1>6. Waits'
    BY <1>1 DEF Waits
<1>7. ASSUME NEW m \in Nodes, NEW p \in Nodes, mode[p] = "on", peer_id(p) \in DOMAIN seen[m]
      PROVE  Since(m, p) + Longest * lost <= Since(m, p)' + Longest * lost'
  <2>1. CASE p # n \/ announced[p] < AnnounceInterval
    <3>1. OnItsWay(m, p) => OnItsWay(m, p)'
        BY <1>3 DEF OnItsWay
    <3>2. announced[p] \in Nat /\ AnnounceInterval \in Nat
        BY Intervals DEF TypeOK
    <3>3. announced'[p] = announced[p] /\ (late'[p] = late[p] \/ announced[p] < AnnounceInterval)
        BY <2>1, <3>2 DEF TypeOK
    <3> QED BY <1>6, <3>1, <3>3, SinceGrows
  <2>2. CASE p = n /\ announced[p] >= AnnounceInterval
    <3>1. p = n /\ net' = net \cup Multicast(n, "announce")
        BY <1>7, <2>2
    <3>2. m # p /\ Listens(m)
      <4>1. DOMAIN Empty = {}
          BY DEF Empty
      <4>2. Running /\ TypeOK
          OBVIOUS
      <4>3. Listens(m)
          BY <1>7, <4>1, <4>2 DEF Running
      <4>4. m # p
          BY <1>7, <4>2 DEF TypeOK
      <4> QED BY <4>3, <4>4
    <3>3. OnItsWay(m, p)'
        BY <1>3, <3>1, <3>2 DEF OnItsWay, Multicast
    <3> QED BY <3>3, SinceSent
  <2>3. announced[p] \in Nat /\ AnnounceInterval \in Nat
      BY Intervals DEF TypeOK
  <2> QED BY <2>1, <2>2, <2>3
<1> QED BY <1>1, <1>3, <1>4, <1>5, <1>7, LiveStep

LEMMA CleanupLive ==
    ASSUME IInv, IInv', LiveIInv, NEW n \in Nodes, cleanup_expired_peers(n)
    PROVE  LiveIInv'
<1> USE DEF IInv, LiveIInv, cleanup_expired_peers
<1>1. \A m \in Nodes : Waited(m)' = Waited(m)
    BY SameWaited
<1>2. seen'[n] = [id \in DOMAIN seen[n] \ Expired(n) |-> seen[n][id]]
    BY DEF TypeOK, Restrict
<1>3. \A m \in Nodes : m # n => seen'[m] = seen[m]
    BY DEF TypeOK
<1>4. \A m \in Nodes : \A id \in DOMAIN seen'[m] :
         id \in DOMAIN seen[m] /\ seen'[m][id] = seen[m][id]
    BY <1>2, <1>3
<1>5. \A m, p \in Nodes : OnItsWay(m, p) => OnItsWay(m, p)'
    BY DEF OnItsWay, peer_id
<1> QED BY <1>1, <1>4, <1>5, QuietLive DEF Tried

\* the attempt to connect to a peer that is new has still to be waited for
LEMMA PeerAnnounceLive ==
    ASSUME IInv, IInv', LiveIInv, NEW n \in Nodes, NEW d \in net, handle_peer_announce(n, d)
    PROVE  LiveIInv'
<1> USE DEF IInv, LiveIInv, handle_peer_announce
<1>1. /\ d.to = n /\ d.from \in Nodes /\ d.from # n /\ d.id \in PeerIds /\ d.type # "query"
      /\ address(d.id) = d.from /\ Used(d.id) /\ wait[n] = 0
    BY DEF TypeOK, Datagrams, Addressed, Receives, IdsUsed
<1>2. ~Own(n, d)
    BY <1>1 DEF Own, peer_id, address
<1>3. \A m \in Nodes : m # n => seen'[m] = seen[m] /\ wait'[m] = wait[m]
                                /\ endpoints'[m] = endpoints[m]
    BY DEF TypeOK, connect_to_peer
<1>4. seen'[n] = [id \in DOMAIN seen[n] \cup {d.id} |-> IF id = d.id THEN 0 ELSE seen[n][id]]
    BY <1>2 DEF TypeOK, Heard
<1>5. \/ wait'[n] = wait[n] /\ endpoints'[n] = endpoints[n] /\ d.from \in endpoints[n]
      \/ /\ d.from \notin endpoints[n] /\ endpoints'[n] = endpoints[n] \cup {d.from}
         /\ wait'[n] = ConnectTimeout + 1
  <2>1. CASE Is_new(n, d)
      BY <1>1, <2>1 DEF connect_to_peer, TypeOK
  <2>2. CASE ~Is_new(n, d)
      BY <1>1, <1>2, <2>2 DEF Is_new, Tried
  <2> QED BY <2>1, <2>2
<1>6. ASSUME NEW m \in Nodes
      PROVE  Waited(m)' = Waited(m)
  <2>1. CASE wait'[m] = wait[m] /\ endpoints'[m] = endpoints[m]
      BY <2>1, SameWaited
  <2>2. CASE /\ m = n /\ d.from \notin endpoints[n] /\ wait'[n] = ConnectTimeout + 1
             /\ endpoints'[n] = endpoints[n] \cup {d.from}
    <3>1. Attempts(m)' = Attempts(m) + ConnectTimeout
        BY <1>1, <2>2, OneMoreAttempt DEF Attempts
    <3>2. Remaining(m)' = ConnectTimeout /\ Remaining(m) = 0
        BY <1>1, <2>2, DiscoveryAssumption DEF Remaining
    <3>3. Attempts(m) \in Nat
        BY Numbers
    <3> QED BY <3>1, <3>2, <3>3, DiscoveryAssumption DEF Waited
  <2> QED BY <1>3, <1>5, <2>1, <2>2
<1>7. ASSUME NEW m \in Nodes, NEW id \in DOMAIN seen'[m]
      PROVE  /\ address(id) \in endpoints'[m]
             /\ \/ seen'[m][id] = 0 /\ Used(id)
                \/ id \in DOMAIN seen[m] /\ seen'[m][id] = seen[m][id]
  <2>1. CASE m # n
      BY <1>3, <2>1 DEF Tried
  <2>2. CASE m = n /\ id = d.id
      BY <1>1, <1>4, <1>5, <2>2
  <2>3. CASE m = n /\ id # d.id
      BY <1>4, <1>5, <2>3 DEF Tried
  <2> QED BY <2>1, <2>2, <2>3
<1>8. ASSUME NEW m \in Nodes, NEW p \in Nodes, OnItsWay(m, p)
      PROVE  \/ OnItsWay(m, p)'
             \/ peer_id(p) \notin DOMAIN seen'[m]
             \/ seen'[m][peer_id(p)] = 0
  <2>1. peer_id(p)' = peer_id(p)
      BY DEF peer_id
  <2>2. CASE d = [to |-> m, from |-> p, type |-> "announce", id |-> peer_id(p)]
    <3>1. m = n /\ peer_id(p) = d.id
        BY <1>1, <2>2
    <3> QED BY <1>4, <3>1
  <2>3. CASE d # [to |-> m, from |-> p, type |-> "announce", id |-> peer_id(p)]
      BY <1>8, <2>1, <2>3 DEF OnItsWay
  <2> QED BY <2>2, <2>3
<1> QED BY <1>6, <1>7, <1>8, QuietLive

\* a step of the network that loses nothing, and sends no announcement
LEMMA OnlyNetLive ==
    ASSUME IInv, IInv', LiveIInv, UNCHANGED <<local, lost>>,
           \A d \in net' : d.type # "query" => d \in net \/ Used(d.id),
           \A d \in net : d.type = "announce" => d \in net'
    PROVE  LiveIInv'
<1> USE DEF IInv, LiveIInv, local
<1>1. \A m \in Nodes : Waited(m)' = Waited(m)
    BY SameWaited
<1>2. \A m, p \in Nodes : OnItsWay(m, p) => OnItsWay(m, p)'
    BY DEF OnItsWay, peer_id
<1> QED BY <1>1, <1>2, QuietLive DEF Tried

LEMMA PeerQueryLive ==
    ASSUME IInv, IInv', LiveIInv, NEW n \in Nodes, NEW d \in net, handle_peer_query(n, d)
    PROVE  LiveIInv'
<1>1. ASSUME NEW r \in net', r \notin net
      PROVE  Used(r.id)
  <2>1. r \in Multicast(n, "response") /\ mode[n] = "on"
      BY <1>1 DEF handle_peer_query
  <2>2. r.id = <<n, starts[n]>>
      BY <2>1 DEF Multicast, peer_id
  <2> QED BY <2>1, <2>2 DEF Used, address, IInv, TypeOK
<1> QED BY <1>1, OnlyNetLive DEF handle_peer_query

LEMMA QueryPeersLive ==
    ASSUME IInv, IInv', LiveIInv, NEW n \in Nodes, query_peers(n)
    PROVE  LiveIInv'
<1>1. \A r \in Multicast(n, "query") : r.type = "query"
    BY DEF Multicast
<1> QED BY <1>1, OnlyNetLive DEF query_peers

\* what may have been lost is paid for
LEMMA LoseLive ==
    ASSUME IInv, IInv', LiveIInv, NEW d \in net, Lose(d)
    PROVE  LiveIInv'
<1> USE DEF IInv, LiveIInv, Lose, local
<1>1. \A m \in Nodes : Waited(m)' = Waited(m)
    BY SameWaited
<1>2. \A id : Used(id)' <=> Used(id)
    BY DEF Used
<1>3. \A p \in Nodes : peer_id(p)' = peer_id(p)
    BY DEF peer_id
<1>4. Waits'
    BY <1>1 DEF Waits
<1>5. ASSUME NEW m \in Nodes, NEW p \in Nodes
      PROVE  Since(m, p) + Longest * lost <= Since(m, p)' + Longest * lost'
  <2>1. /\ Since(m, p) \in Nat /\ Since(m, p) <= Longest
        /\ Longest * lost \in Nat /\ Since(m, p)' \in Nat /\ lost \in Nat
      BY <1>4, LiveNumbers, LiveNumbersNext
  <2>2. Longest * lost' = Longest * lost + Longest
      BY <2>1, Intervals
  <2> QED BY <2>1, <2>2, Intervals
<1> QED BY <1>1, <1>2, <1>3, <1>5, LiveStep DEF Tried, IdsUsed

LEMMA ConnectReturnsLive ==
    ASSUME IInv, IInv', LiveIInv, NEW n \in Nodes, ConnectReturns(n)
    PROVE  LiveIInv'
<1> USE DEF IInv, LiveIInv, ConnectReturns
<1>1. \A m \in Nodes : Remaining(m)' = Remaining(m) /\ Attempts(m)' = Attempts(m)
    BY DEF Remaining, Attempts, TypeOK
<1>2. \A m \in Nodes : Waited(m)' = Waited(m)
    BY <1>1 DEF Waited
<1>3. \A m, p \in Nodes : OnItsWay(m, p) => OnItsWay(m, p)'
    BY DEF OnItsWay, peer_id
<1> QED BY <1>2, <1>3, QuietLive DEF Tried

\* whoever waits, waits in the present period, too
LEMMA WaitedTick ==
    ASSUME IInv, LiveIInv, Tick, NEW m \in Nodes
    PROVE  /\ wait[m] = 0 => Waited(m)' = Waited(m) /\ Waited(m) = Attempts(m)
           /\ wait[m] # 0 => Waited(m)' = Waited(m) + 1
           /\ Waited(m) \in Nat
<1>1. TypeOK /\ wait[m] # 1
    BY DEF IInv, Tick, Urgent
<1>2. wait[m] \in Nat /\ Attempts(m) \in Nat /\ Remaining(m) \in Nat
    BY <1>1, Numbers
<1>3. Attempts(m)' = Attempts(m)
    BY DEF Tick, Attempts
<1>4. wait'[m] = IF wait[m] > 1 THEN wait[m] - 1 ELSE wait[m]
    BY DEF Tick
<1>5. CASE wait[m] = 0
  <2>1. Remaining(m) = 0 /\ Remaining(m)' = 0
      BY <1>4, <1>5 DEF Remaining
  <2> QED BY <1>2, <1>3, <1>5, <2>1 DEF Waited
<1>6. CASE wait[m] # 0
  <2>1. Remaining(m)' = Remaining(m) - 1
      BY <1>1, <1>2, <1>4, <1>6 DEF Remaining
  <2>2. Waited(m) \in Nat
      BY DEF LiveIInv, Waits
  <2> QED BY <1>2, <1>3, <1>6, <2>1, <2>2 DEF Waited
<1> QED BY <1>5, <1>6

\* a period in which an announcement waits, or one is overdue, is one of an attempt to connect
\* or of the sleep of the discovery thread
LEMMA TickLive ==
    ASSUME IInv, IInv', LiveIInv, Tick
    PROVE  LiveIInv'
<1> USE DiscoveryAssumption
<1>0. TypeOK /\ TypeOK' /\ Running /\ Waits /\ Tried /\ IdsUsed /\ FirstAttempt /\ Punctual
    BY DEF IInv, LiveIInv
<1>1. Waits'
  <2>1. ASSUME NEW m \in Nodes PROVE Waited(m)' \in Nat
      BY WaitedTick
  <2> QED BY <2>1 DEF Waits
<1>2. ASSUME NEW m \in Nodes, NEW id \in DOMAIN seen'[m]
      PROVE  /\ id \in DOMAIN seen[m] /\ seen'[m][id] = seen[m][id] + 1 /\ seen[m][id] \in Nat
             /\ address(id) \in endpoints[m]
    BY <1>0 DEF Tick, TypeOK, Tried
<1>3. Tried' /\ IdsUsed'
    BY <1>0, <1>2 DEF Tick, Tried, IdsUsed, Used
<1>4. ASSUME NEW m \in Nodes, NEW id \in DOMAIN seen'[m], Waited(m)' < ConnectTimeout
      PROVE  wait[m] # 0 /\ seen'[m][id] <= Waited(m)'
  <2>1. Waited(m) \in Nat
      BY WaitedTick
  <2>2. ASSUME wait[m] = 0 PROVE FALSE
    <3>1. Attempts(m) < ConnectTimeout
        BY <1>4, <2>2, WaitedTick
    <3>2. endpoints[m] # {} /\ IsFiniteSet(endpoints[m])
        BY <1>0, <1>2, Numbers
    <3>3. Cardinality(endpoints[m]) \in Nat /\ Cardinality(endpoints[m]) # 0
        BY <3>2, FS_EmptySet, FS_CardinalityType
    <3>4. ConnectTimeout * 1 <= ConnectTimeout * Cardinality(endpoints[m])
        BY <3>3, MoreAttempts
    <3> QED BY <3>1, <3>3, <3>4 DEF Attempts
  <2>3. Waited(m)' = Waited(m) + 1
      BY <2>2, WaitedTick
  <2>4. seen[m][id] <= Waited(m)
      BY <1>0, <1>2, <1>4, <2>1, <2>3 DEF FirstAttempt
  <2> QED BY <1>2, <2>1, <2>2, <2>3, <2>4
<1>5. ASSUME NEW m \in Nodes, NEW p \in Nodes, mode'[p] = "on", peer_id(p)' \in DOMAIN seen'[m]
      PROVE  seen'[m][peer_id(p)'] <= Bound(m, p)'
  <2>1. /\ mode[p] = "on" /\ peer_id(p)' = peer_id(p) /\ lost' = lost
        /\ OnItsWay(m, p)' <=> OnItsWay(m, p)
      BY <1>5 DEF Tick, peer_id, OnItsWay
  <2> DEFINE age == seen[m][peer_id(p)]
             losses == Longest * lost
  <2>2. /\ age \in Nat /\ seen'[m][peer_id(p)'] = age + 1
        /\ age <= Since(m, p) + losses + Waited(p) + Later(m)
      BY <1>0, <1>2, <1>5, <2>1 DEF Punctual, Bound
  <2>3. /\ Since(m, p) \in Nat /\ Since(m, p)' \in Nat /\ losses \in Nat
        /\ Waited(p) \in Nat /\ Waited(p)' \in Nat /\ Later(m) \in Nat /\ Later(m)' \in Nat
        /\ Waited(m) \in Nat /\ Waited(m)' \in Nat /\ announced[p] \in Nat
      BY <1>0, <1>1, LiveNumbers, LiveNumbersNext
  <2>4. Waited(p) <= Waited(p)' /\ Waited(m) <= Waited(m)'
    <3>1. \A q \in Nodes : Waited(q) <= Waited(q)'
      <4>1. ASSUME NEW q \in Nodes PROVE Waited(q) <= Waited(q)'
          BY WaitedTick
      <4> QED BY <4>1
    <3> QED BY <3>1
  <2>5. Later(m) <= Later(m)'
      BY <2>3, <2>4 DEF Later
  <2>6. announced'[p] = announced[p] + 1
      BY <2>1 DEF Tick, Listens
  <2>7. (Bound(m, p))' = Since(m, p)' + losses + Waited(p)' + Later(m)'
      BY <2>1 DEF Bound
  <2> HIDE DEF age, losses
  <2>8. CASE OnItsWay(m, p)
    <3>1. wait[m] # 0
        BY <2>8 DEF Tick, Urgent, Receives, OnItsWay
    <3>2. Waited(m)' = Waited(m) + 1
        BY <3>1, WaitedTick
    <3>3. Since(m, p) = Longest /\ Since(m, p)' = Longest
        BY <2>1, <2>8 DEF Since
    <3>4. CASE Waited(m) < ConnectTimeout
      <4>1. age <= Waited(m)
          BY <1>0, <1>2, <1>5, <2>1, <3>4 DEF FirstAttempt, age
      <4> QED BY <2>2, <2>3, <2>7, <3>3, <3>4, <4>1, Intervals
    <3>5. CASE Waited(m) >= ConnectTimeout
      <4>1. Later(m)' = Later(m) + 1
          BY <2>3, <3>2, <3>5 DEF Later
      <4> QED BY <2>2, <2>3, <2>4, <2>7, <3>3, <4>1
    <3> QED BY <2>3, <3>4, <3>5
  <2>9. CASE ~OnItsWay(m, p) /\ announced[p] < AnnounceInterval
    <3>1. Since(m, p)' >= Since(m, p) + 1
      <4>1. late'[p] \in Nat
          BY <1>0 DEF TypeOK
      <4> QED BY <2>1, <2>3, <2>6, <2>9, <4>1, Intervals DEF Since
    <3> QED BY <2>2, <2>3, <2>4, <2>5, <2>7, <3>1
  <2>10. CASE ~OnItsWay(m, p) /\ announced[p] >= AnnounceInterval
    <3>1. /\ Since(m, p) = AnnounceInterval + late[p]
          /\ Since(m, p)' = AnnounceInterval + late'[p] /\ late[p] \in Nat
      <4>1. late[p] \in Nat
          BY <1>0, Numbers
      <4> QED BY <2>1, <2>3, <2>6, <2>10, <4>1, Intervals DEF Since
    <3>2. late'[p] = IF Sleeps(p) THEN late[p] + 1 ELSE late[p]
        BY DEF Tick
    <3>3. CASE Sleeps(p)
        BY <2>2, <2>3, <2>4, <2>5, <2>7, <3>1, <3>2, <3>3
    <3>4. CASE ~Sleeps(p)
      <4>1. loop[p] = "cleanup"
          BY <1>0, <2>1, <2>10, <3>4 DEF Sleeps, Listens, Due, TypeOK
      <4>2. wait[p] # 0
          BY <4>1 DEF Tick, Urgent
      <4>3. Waited(p)' = Waited(p) + 1
          BY <4>2, WaitedTick
      <4> QED BY <2>2, <2>3, <2>5, <2>7, <3>1, <3>2, <3>4, <4>3
    <3> QED BY <3>3, <3>4
  <2> QED BY <2>3, <2>8, <2>9, <2>10, Intervals
<1> QED BY <1>1, <1>3, <1>4, <1>5 DEF LiveIInv, FirstAttempt, Punctual

LEMMA InitLive == Init => LiveIInv
<1> SUFFICES ASSUME Init PROVE LiveIInv
    OBVIOUS
<1>1. ASSUME NEW n \in Nodes
      PROVE  DOMAIN seen[n] = {} /\ Waited(n) \in Nat
  <2>1. endpoints[n] = {} /\ wait[n] = 0 /\ DOMAIN seen[n] = {}
      BY DEF Init, Empty
  <2>2. Cardinality({}) = 0 /\ ConnectTimeout * 0 = 0
      BY FS_EmptySet, DiscoveryAssumption
  <2>3. Attempts(n) = 0 /\ Remaining(n) = 0
      BY <2>1, <2>2 DEF Attempts, Remaining
  <2> QED BY <2>1, <2>3 DEF Waited
<1>2. net = {}
    BY DEF Init
<1> QED BY <1>1, <1>2 DEF LiveIInv, Waits, Tried, IdsUsed, FirstAttempt, Punctual

LEMMA NextLive ==
    ASSUME IInv, LiveIInv, [Next]_vars
    PROVE  LiveIInv'
<1>0. IInv'
    BY NextIInv
<1>1. CASE Tick
    BY <1>0, <1>1, TickLive
<1>2. ASSUME NEW n \in Nodes, Steps(n)
      PROVE  LiveIInv'
  <2>1. ASSUME NEW d \in net, handle_peer_announce(n, d) \/ handle_peer_query(n, d)
        PROVE  LiveIInv'
      BY <1>0, <2>1, PeerAnnounceLive, PeerQueryLive
  <2> QED BY <1>0, <1>2, <2>1, AnnounceSelfLive, DiscoveryLoopLive, CleanupLive,
             ConnectReturnsLive DEF Steps
<1>3. ASSUME NEW n \in Nodes, start(n) \/ Killed(n) \/ query_peers(n)
      PROVE  LiveIInv'
    BY <1>0, <1>3, StartLive, KilledLive, QueryPeersLive
<1>4. ASSUME NEW d \in net, Lose(d)
      PROVE  LiveIInv'
    BY <1>0, <1>4, LoseLive
<1>5. CASE UNCHANGED vars
    BY <1>0, <1>5, OnlyNetLive DEF vars, local
<1> QED BY <1>1, <1>2, <1>3, <1>4, <1>5 DEF Next

\* the age of a peer that runs, when the io thread does not wait
LEMMA LiveIsYoung ==
    ASSUME IInv, LiveIInv, NEW n \in Nodes, NEW p \in Nodes,
           wait[n] = 0, mode[p] = "on", peer_id(p) \in DOMAIN seen[n]
    PROVE  seen[n][peer_id(p)] <= Excuse /\ Excuse \in Int
<1> USE DiscoveryAssumption DEF IInv, LiveIInv
<1> DEFINE others == Cardinality(Nodes) - 1
<1>1. ASSUME NEW m \in Nodes
      PROVE  /\ others \in Nat /\ Cardinality(endpoints[m]) \in Nat
             /\ Attempts(m) <= ConnectTimeout * others
             /\ Attempts(m) \in Nat /\ Waited(m) <= Attempts(m)
  <2>1. endpoints[m] \subseteq Nodes \ {m}
      BY DEF TypeOK, EndpointsOthers
  <2>2. /\ IsFiniteSet(Nodes \ {m}) /\ Cardinality(Nodes \ {m}) = others
      BY FS_RemoveElement
  <2>3. others \in Nat
      BY <2>2, FS_CardinalityType
  <2>4. Cardinality(endpoints[m]) <= others /\ Cardinality(endpoints[m]) \in Nat
      BY <2>1, <2>2, FS_Subset, FS_CardinalityType
  <2>5. Attempts(m) <= ConnectTimeout * others
    <3> HIDE DEF others
    <3> QED BY <2>3, <2>4, MoreAttempts DEF Attempts
  <2>6. Attempts(m) \in Nat /\ Remaining(m) \in Nat
      BY Numbers
  <2> QED BY <2>3, <2>4, <2>5, <2>6 DEF Waited
<1>2. Waited(n) = Attempts(n) /\ Attempts(n) \in Nat
    BY <1>1 DEF Waited, Remaining
<1>3. address(peer_id(p)) \in endpoints[n]
    BY DEF Tried
<1>4. ConnectTimeout <= Attempts(n)
  <2>1. endpoints[n] # {} /\ IsFiniteSet(endpoints[n])
      BY <1>3, Numbers
  <2>2. Cardinality(endpoints[n]) \in Nat /\ Cardinality(endpoints[n]) # 0
      BY <2>1, FS_EmptySet, FS_CardinalityType
  <2>3. ConnectTimeout * 1 <= ConnectTimeout * Cardinality(endpoints[n])
      BY <2>2, MoreAttempts
  <2> QED BY <2>3 DEF Attempts
<1>5. Later(n) = Attempts(n) - ConnectTimeout
    BY <1>2, <1>4 DEF Later
<1>6. /\ Since(n, p) \in Nat /\ Since(n, p) <= Longest /\ Waited(p) \in Nat
      /\ Longest * lost \in Nat /\ seen[n][peer_id(p)] \in Nat
    BY LiveNumbers, Numbers
<1>8. seen[n][peer_id(p)] <= Since(n, p) + Longest * lost + Waited(p) + Later(n)
    BY DEF Punctual, Bound
<1>9. Longest * (1 + lost) = Longest + Longest * lost
    BY Intervals DEF TypeOK
<1>10. /\ ConnectTimeout * (2 * Cardinality(Nodes) - 3)
             = ConnectTimeout * others + ConnectTimeout * others - ConnectTimeout
       /\ ConnectTimeout * others \in Nat
  <2>0. others \in Nat /\ Cardinality(Nodes) \in Nat
      BY <1>1, FS_CardinalityType
  <2>1. 2 * Cardinality(Nodes) - 3 = others + others - 1
      BY <2>0
  <2> HIDE DEF others
  <2> QED BY <2>0, <2>1
<1>11. Waited(p) <= ConnectTimeout * others /\ Attempts(n) <= ConnectTimeout * others
  <2>1. Waited(p) <= Attempts(p) /\ Attempts(p) <= ConnectTimeout * others
        /\ Attempts(n) <= ConnectTimeout * others /\ Attempts(p) \in Nat
      BY <1>1
  <2> HIDE DEF others, IInv, LiveIInv
  <2> QED BY <1>6, <1>10, <2>1
<1> DEFINE wasted == ConnectTimeout * others
           losses == Longest * lost
<1>12. /\ Excuse = Longest + losses + (wasted + wasted - ConnectTimeout)
       /\ wasted \in Nat /\ losses \in Nat /\ Waited(p) <= wasted /\ Attempts(n) <= wasted
       /\ seen[n][peer_id(p)] <= Since(n, p) + losses + Waited(p) + Later(n)
    BY <1>6, <1>8, <1>9, <1>10, <1>11 DEF Excuse
<1> HIDE DEF others, IInv, LiveIInv, wasted, losses
<1> QED BY <1>2, <1>5, <1>6, <1>12, Intervals

(***************************************************************************)
(* cleanup_expired_peers drops a peer that runs only when the losses so    *)
(* far and the connection attempts of the two nodes excuse it, for any     *)
(* number of nodes and losses, and for any intervals if an attempt takes   *)
(* no longer than the interval of the announcements (both are 30 seconds   *)
(* in the code).                                                           *)
(***************************************************************************)
THEOREM LivePeersStayKnown == Spec => LivePeerKept
<1>1. Init => IInv /\ LiveIInv
    BY InitIInv, InitLive
<1>2. ASSUME IInv, LiveIInv, [Next]_vars
      PROVE  IInv' /\ LiveIInv'
    BY <1>2, NextIInv, NextLive
<1>3. ASSUME IInv, LiveIInv, [Next]_vars
      PROVE  [\A n, p \in Nodes :
                 /\ mode[n] = "on" /\ mode'[n] = "on" /\ mode[p] = "on"
                 /\ peer_id(p) \in DOMAIN seen[n] /\ peer_id(p) \notin DOMAIN seen'[n]
                 => Excuse > PeerTimeout]_vars
  <2>1. SUFFICES ASSUME Next, NEW n \in Nodes, NEW p \in Nodes, mode'[n] = "on",
                        mode[p] = "on", peer_id(p) \in DOMAIN seen[n],
                        ~(Excuse > PeerTimeout)
                 PROVE  peer_id(p) \in DOMAIN seen'[n]
      BY <1>3
  <2> USE <1>3
  <2>2. TypeOK
      BY DEF IInv
  <2>3. CASE Tick
      BY <2>1, <2>3 DEF Tick
  <2>4. CASE cleanup_expired_peers(n)
    <3>0. seen[n][peer_id(p)] <= Excuse /\ Excuse \in Int
        BY <2>1, <2>4, LiveIsYoung DEF cleanup_expired_peers
    <3>1. seen[n][peer_id(p)] <= PeerTimeout
      <4>1. seen[n][peer_id(p)] \in Nat
          BY <2>1, <2>2, Numbers
      <4> QED BY <2>1, <3>0, <4>1, DiscoveryAssumption
    <3>2. seen'[n] = [id \in DOMAIN seen[n] \ Expired(n) |-> seen[n][id]]
        BY <2>2, <2>4 DEF cleanup_expired_peers, TypeOK, Restrict
    <3>3. seen[n][peer_id(p)] \in Nat
        BY <2>1, <2>2, Numbers
    <3>4. peer_id(p) \notin Expired(n)
        BY <3>1, <3>3, DiscoveryAssumption DEF Expired
    <3> QED BY <2>1, <3>2, <3>4
  <2>5. ASSUME NEW m \in Nodes, m # n, cleanup_expired_peers(m) \/ Killed(m)
        PROVE  peer_id(p) \in DOMAIN seen'[n]
      BY <2>1, <2>2, <2>5 DEF cleanup_expired_peers, Killed, TypeOK
  <2>6. ~Killed(n)
      BY <2>1, <2>2 DEF Killed, TypeOK
  <2>7. ASSUME NEW m \in Nodes, NEW d \in net, handle_peer_announce(m, d)
        PROVE  peer_id(p) \in DOMAIN seen'[n]
      BY <2>1, <2>2, <2>7 DEF handle_peer_announce, TypeOK, Heard
  <2>8. CASE UNCHANGED seen
      BY <2>1, <2>8
  <2>9. ASSUME NEW m \in Nodes,
               \/ announce_self(m) \/ discovery_loop(m) \/ ConnectReturns(m) \/ start(m)
               \/ query_peers(m) \/ (\E d \in net : handle_peer_query(m, d))
        PROVE  UNCHANGED seen
      BY <2>9 DEF announce_self, discovery_loop, ConnectReturns, start, query_peers,
                  handle_peer_query, local
  <2>10. ASSUME NEW d \in net, Lose(d)
         PROVE  UNCHANGED seen
      BY <2>10 DEF Lose, local
  <2> QED BY <2>1, <2>3, <2>4, <2>5, <2>6, <2>7, <2>8, <2>9, <2>10 DEF Next, Steps
<1> QED BY <1>1, <1>2, <1>3, PTL DEF Spec, LivePeerKept

-----------------------------------------------------------------------------
(* Lists of locations. *)

\* the peers that a list names
Named(list) == {list[i].peer : i \in DOMAIN list}

\* A non-empty set of naturals has a least element.
LEMMA LeastNatural ==
    ASSUME NEW T \in SUBSET Nat, T # {}
    PROVE  \E x \in T : \A y \in T : x <= y
<1>1. PICK x \in T : \A y \in T : <<y, x>> \notin OpToRel(<, Nat)
    BY NatLessThanWellFounded, WFMin
<1>2. \A y \in T : ~(y < x)
    BY <1>1 DEF OpToRel
<1> QED BY <1>2

\* among finitely many positions there is a first, a second, ..., a last one
LEMMA KthPosition ==
    ASSUME NEW P \in SUBSET Nat, IsFiniteSet(P), NEW k \in 1 .. Cardinality(P)
    PROVE  \E i \in P : Cardinality({j \in P : j <= i}) = k
<1> DEFINE UpTo(i) == {j \in P : j <= i}
           Beyond(i) == {j \in P : ~(j <= i)}
           Bad == {m \in Nat : /\ m >= 1 /\ m <= Cardinality(P)
                               /\ ~\E i \in P : Cardinality(UpTo(i)) = m}
<1>1. Cardinality(P) \in Nat
    BY FS_CardinalityType
<1>2. \A i \in P : IsFiniteSet(UpTo(i))
    BY FS_Subset
<1>3. ASSUME NEW m \in Nat, m >= 1, m <= Cardinality(P),
             m > 1 => \E i \in P : Cardinality(UpTo(i)) = m - 1
      PROVE  \E i \in P : Cardinality(UpTo(i)) = m
  <2>1. CASE m = 1
    <3>1. P # {}
        BY <1>1, <1>3, FS_EmptySet
    <3>2. PICK i \in P : \A j \in P : i <= j
        BY <3>1, LeastNatural
    <3>3. UpTo(i) = {i}
      <4>1. i \in UpTo(i) /\ \A j \in UpTo(i) : j = i
          BY <3>2
      <4> QED BY <4>1, Zenon
    <3>4. Cardinality({i}) = 1
        BY FS_Singleton
    <3> QED BY <2>1, <3>3, <3>4
  <2>2. CASE m > 1
    <3>1. PICK i \in P : Cardinality(UpTo(i)) = m - 1
        BY <1>3, <2>2
    <3>2. UpTo(i) # P
      <4>1. m - 1 # Cardinality(P)
          BY <1>1, <1>3
      <4> HIDE DEF UpTo
      <4> QED BY <3>1, <4>1
    <3>3. Beyond(i) # {} /\ Beyond(i) \in SUBSET Nat
        BY <3>2
    <3>4. PICK h \in Beyond(i) : \A j \in Beyond(i) : h <= j
        BY <3>3, LeastNatural
    <3>5. h \in P /\ h \notin UpTo(i) /\ i < h
        BY <3>4
    <3>6. UpTo(h) = UpTo(i) \cup {h}
      <4>1. ASSUME NEW j \in UpTo(h), j # h PROVE j \in UpTo(i)
          BY <3>4, <4>1
      <4>2. h \in UpTo(h) /\ \A j \in UpTo(i) : j \in UpTo(h)
          BY <3>5
      <4> HIDE DEF UpTo
      <4> QED BY <4>1, <4>2, Zenon
    <3>7. Cardinality(UpTo(h)) = Cardinality(UpTo(i)) + 1
        BY <1>2, <3>5, <3>6, FS_AddElement
    <3>8. Cardinality(UpTo(h)) = m
        BY <1>3, <3>1, <3>7
    <3> QED BY <3>5, <3>8
  <2> QED BY <1>3, <2>1, <2>2
<1>4. Bad = {}
  <2>1. SUFFICES ASSUME Bad # {} PROVE FALSE
      OBVIOUS
  <2>2. PICK m \in Bad : \A h \in Bad : m <= h
      BY <2>1, LeastNatural
  <2>3. m \in Nat /\ m >= 1 /\ m <= Cardinality(P)
      BY <2>2
  <2>4. ~\E i \in P : Cardinality(UpTo(i)) = m
      BY <2>2
  <2>5. ASSUME m > 1 PROVE \E i \in P : Cardinality(UpTo(i)) = m - 1
    <3>1. m - 1 \in Nat /\ m - 1 >= 1 /\ m - 1 <= Cardinality(P) /\ ~(m <= m - 1)
        BY <1>1, <2>3, <2>5
    <3>2. m - 1 \notin Bad
      <4> HIDE DEF Bad
      <4> QED BY <2>2, <3>1
    <3> QED BY <3>1, <3>2
  <2> HIDE DEF UpTo
  <2> QED BY <1>3, <2>3, <2>4, <2>5
<1> QED BY <1>1, <1>4

\* what is kept of a list is a list, and names what the kept locations name
LEMMA KeptNames ==
    ASSUME NEW list \in Seq(FileLocation), NEW P \in SUBSET DOMAIN list
    PROVE  /\ Kept(list, P) \in Seq(FileLocation)
           /\ \A p \in Named(Kept(list, P)) : \E i \in P : list[i].peer = p
<1> DEFINE N == Cardinality(P)
           ch(k) == CHOOSE i \in P : Cardinality({j \in P : j <= i}) = k
<1>1. Len(list) \in Nat /\ DOMAIN list = 1 .. Len(list) /\ P \in SUBSET Nat
    OBVIOUS
<1>2. IsFiniteSet(P)
  <2>1. IsFiniteSet(1 .. Len(list))
      BY <1>1, FS_Interval
  <2> QED BY <1>1, <2>1, FS_Subset
<1>3. N \in Nat
    BY <1>2, FS_CardinalityType
<1>4. ASSUME NEW k \in 1 .. N PROVE ch(k) \in P
  <2>1. \E i \in P : Cardinality({j \in P : j <= i}) = k
      BY <1>1, <1>2, KthPosition
  <2> QED BY <2>1
<1>5. Kept(list, P) = [k \in 1 .. N |-> list[ch(k)]]
    BY Zenon DEF Kept
<1> HIDE DEF N, ch
<1>6. \A i \in P : list[i] \in FileLocation
    BY <1>1, ElementOfSeq
<1>7. [k \in 1 .. N |-> list[ch(k)]] \in Seq(FileLocation)
    BY <1>3, <1>4, <1>6
<1>8. ASSUME NEW p \in Named(Kept(list, P)) PROVE \E i \in P : list[i].peer = p
  <2>1. PICK k \in 1 .. N : p = list[ch(k)].peer
      BY <1>5 DEF Named
  <2> QED BY <1>4, <2>1
<1> QED BY <1>5, <1>7, <1>8

\* a location that is taken over into a list
LEMMA WithLocationNames ==
    ASSUME NEW list \in Seq(FileLocation), NEW l \in FileLocation
    PROVE  /\ WithLocation(list, l) \in Seq(FileLocation)
           /\ Named(WithLocation(list, l)) \subseteq Named(list) \cup {l.peer}
<1>1. CASE WithLocation(list, l) = list
    BY <1>1
<1>2. CASE WithLocation(list, l) = Append(list, l)
  <2>1. Append(list, l) \in Seq(FileLocation)
      OBVIOUS
  <2>2. \A i \in DOMAIN Append(list, l) :
           IF i \in DOMAIN list THEN Append(list, l)[i] = list[i] ELSE Append(list, l)[i] = l
      OBVIOUS
  <2> QED BY <1>2, <2>1, <2>2 DEF Named
<1> QED BY <1>1, <1>2 DEF WithLocation

\* the loop of WithLocations is defined for every list of new locations
Taking(list, new, g, k) == IF k = 0 THEN list ELSE WithLocation(g[k - 1], new[k])

Takes(list, new, m, g) == g = [k \in 0 .. m |-> Taking(list, new, g, k)]

LEMMA TakesExists ==
    ASSUME NEW list, NEW new, NEW n \in Nat
    PROVE  \E g : Takes(list, new, n, g)
<1> DEFINE Body(g, k) == Taking(list, new, g, k)
           Until(m, g) == g = [k \in 0 .. m |-> Body(g, k)]
           Bad == {m \in Nat : ~\E g : Until(m, g)}
<1>1. \E g : Until(0, g)
  <2> DEFINE g == [k \in 0 .. 0 |-> list]
  <2>1. \A k \in 0 .. 0 : Body(g, k) = list
      BY DEF Taking
  <2>2. Until(0, g)
      BY <2>1, Zenon
  <2> QED BY <2>2
<1>2. ASSUME NEW m \in Nat, NEW g, Until(m, g) PROVE \E h : Until(m + 1, h)
  <2> DEFINE h == [k \in 0 .. m + 1 |-> Body(g, k)]
  <2>1. ASSUME NEW k \in 0 .. m PROVE h[k] = g[k]
    <3>1. g[k] = Body(g, k)
        BY <1>2, Zenon
    <3>2. k \in 0 .. m + 1
        OBVIOUS
    <3> QED BY <3>1, <3>2
  <2>2. ASSUME NEW k \in 0 .. m + 1 PROVE Body(h, k) = Body(g, k)
    <3>1. CASE k = 0
        BY <3>1 DEF Taking
    <3>2. CASE k # 0
      <4>1. k - 1 \in 0 .. m
          BY <3>2
      <4>2. h[k - 1] = g[k - 1]
          BY <2>1, <4>1
      <4> HIDE DEF h
      <4> QED BY <3>2, <4>2 DEF Taking
    <3> QED BY <3>1, <3>2
  <2>3. Until(m + 1, h)
      BY <2>2, Zenon
  <2> QED BY <2>3
<1>3. Bad = {}
  <2>1. SUFFICES ASSUME Bad # {} PROVE FALSE
      OBVIOUS
  <2>2. PICK m \in Bad : \A k \in Bad : m <= k
      BY <2>1, LeastNatural
  <2>3. m \in Nat /\ m # 0
      BY <1>1
  <2>4. m - 1 \in Nat /\ m - 1 \notin Bad
    <3>1. m - 1 \in Nat /\ m - 1 < m
        BY <2>3
    <3> HIDE DEF Bad
    <3> QED BY <2>2, <2>3, <3>1
  <2>5. PICK g : Until(m - 1, g)
      BY <2>4
  <2>6. \E h : Until((m - 1) + 1, h)
      BY <1>2, <2>4, <2>5
  <2>7. (m - 1) + 1 = m
      BY <2>3
  <2>8. \E h : Until(m, h)
      BY <2>6, <2>7
  <2> QED BY <2>8
<1> QED BY <1>3 DEF Takes

\* what the loop makes of a list names the peers of the old list and of the new locations
LEMMA WithLocationsNames ==
    ASSUME NEW list \in Seq(FileLocation), NEW new \in Seq(FileLocation)
    PROVE  /\ WithLocations(list, new) \in Seq(FileLocation)
           /\ Named(WithLocations(list, new)) \subseteq Named(list) \cup Named(new)
<1> DEFINE N == Len(new)
           after == CHOOSE g : Takes(list, new, N, g)
           Good(l) == l \in Seq(FileLocation) /\ Named(l) \subseteq Named(list) \cup Named(new)
           Bad == {k \in Nat : k <= N /\ ~Good(after[k])}
<1>1. N \in Nat /\ DOMAIN new = 1 .. N
    OBVIOUS
<1>2. WithLocations(list, new) = after[N]
    BY Zenon DEF WithLocations, Takes, Taking
<1>3. after = [k \in 0 .. N |-> Taking(list, new, after, k)]
  <2>1. Takes(list, new, N, after)
      BY <1>1, TakesExists
  <2> QED BY <2>1 DEF Takes
<1> HIDE DEF after
<1>4. Bad = {}
  <2>1. SUFFICES ASSUME Bad # {} PROVE FALSE
      OBVIOUS
  <2>2. PICK k \in Bad : \A j \in Bad : k <= j
      BY <2>1, LeastNatural
  <2>3. k \in Nat /\ k <= N /\ ~Good(after[k]) /\ k \in 0 .. N
      BY <1>1, <2>2
  <2>4. after[k] = Taking(list, new, after, k)
      BY <1>3, <2>3, Zenon
  <2>5. k # 0
      BY <2>3, <2>4 DEF Taking
  <2>6. k - 1 \in Nat /\ k - 1 <= N /\ k \in DOMAIN new
      BY <1>1, <2>3, <2>5
  <2>7. k - 1 \notin Bad
    <3>1. ~(k <= k - 1)
        BY <2>3
    <3> HIDE DEF Bad
    <3> QED BY <2>2, <3>1
  <2>8. Good(after[k - 1])
      BY <2>6, <2>7
  <2>9. new[k] \in FileLocation /\ new[k].peer \in Named(new)
      BY <1>1, <2>6, ElementOfSeq DEF Named
  <2>10. after[k] = WithLocation(after[k - 1], new[k])
      BY <2>4, <2>5 DEF Taking
  <2>11. Good(after[k])
      BY <2>8, <2>9, <2>10, WithLocationNames
  <2> QED BY <2>3, <2>11
<1>5. Good(after[N])
    BY <1>1, <1>4
<1> QED BY <1>2, <1>5

-----------------------------------------------------------------------------
(* The inductive invariant of the search. *)

\* an answer names only its sender, and goes to somebody else
AnswersForItself ==
    \A m \in responses : m.from # m.to /\ Named(m.locations) \subseteq {m.from}

SearchIInv == SearchTypeOK /\ AnswersForItself /\ RemovedStaysRemoved

\* RemovedStaysRemoved, in terms of the peers that a list names
LEMMA RemovedByName ==
    RemovedStaysRemoved <=>
        \A r \in Routers, f \in Files : r \in Named(file_locations[r][f]) => f \in local_files[r]
BY DEF RemovedStaysRemoved, Named

LEMMA RemovedByNameNext ==
    RemovedStaysRemoved' <=>
        \A r \in Routers, f \in Files : r \in Named(file_locations'[r][f]) => f \in local_files'[r]
BY DEF RemovedStaysRemoved, Named

LEMMA SearchInitIInv == SearchInit => SearchIInv
<1> SUFFICES ASSUME SearchInit PROVE SearchIInv
    OBVIOUS
<1>1. \A r \in Routers, f \in Files : file_locations[r][f] = <<>>
    BY DEF SearchInit
<1>2. SearchTypeOK
    BY SearchAssumption DEF SearchInit, SearchTypeOK, NoQuery
<1>3. RemovedStaysRemoved
    BY <1>1, RemovedByName DEF Named
<1> QED BY <1>2, <1>3 DEF SearchIInv, AnswersForItself, SearchInit

\* a step that changes one list
LEMMA OneList ==
    ASSUME SearchIInv, NEW r \in Routers, NEW f \in Files, NEW list \in Seq(FileLocation),
           file_locations' = [file_locations EXCEPT ![r][f] = list],
           \A s \in Routers, g \in Files :
               s # r \/ g # f => (g \in local_files[s] => g \in local_files'[s]),
           r \in Named(list) => f \in local_files'[r]
    PROVE  /\ file_locations' \in [Routers -> [Files -> Seq(FileLocation)]]
           /\ RemovedStaysRemoved'
<1>1. file_locations \in [Routers -> [Files -> Seq(FileLocation)]] /\ RemovedStaysRemoved
    BY DEF SearchIInv, SearchTypeOK
<1>2. file_locations' \in [Routers -> [Files -> Seq(FileLocation)]]
    BY <1>1
<1>3. file_locations'[r][f] = list
    BY <1>1
<1>4. \A s \in Routers, g \in Files :
         s # r \/ g # f => file_locations'[s][g] = file_locations[s][g]
    BY <1>1
<1>5. RemovedStaysRemoved'
    BY <1>1, <1>3, <1>4, RemovedByName, RemovedByNameNext
<1> QED BY <1>2, <1>5

LEMMA AnnounceFileIInv ==
    ASSUME SearchIInv, NEW r \in Routers, NEW f \in Files, announce_file(r, f)
    PROVE  SearchIInv'
<1> DEFINE list == Append(file_locations[r][f], [peer |-> r, age |-> 0])
<1>1. SearchTypeOK /\ file_locations[r][f] \in Seq(FileLocation)
    BY DEF SearchIInv, SearchTypeOK
<1>2. list \in Seq(FileLocation)
    BY <1>1 DEF FileLocation
<1>3. file_locations' = [file_locations EXCEPT ![r][f] = list]
    BY DEF announce_file
<1> HIDE DEF list
<1>4. /\ local_files' \in [Routers -> SUBSET Files] /\ f \in local_files'[r]
      /\ \A s \in Routers, g \in Files : g \in local_files[s] => g \in local_files'[s]
    BY <1>1 DEF announce_file, SearchTypeOK
<1>5. /\ file_locations' \in [Routers -> [Files -> Seq(FileLocation)]]
      /\ RemovedStaysRemoved'
    BY <1>2, <1>3, <1>4, OneList
<1>6. SearchTypeOK'
    BY <1>1, <1>4, <1>5, SearchAssumption DEF announce_file, SearchTypeOK
<1>7. AnswersForItself'
    BY DEF announce_file, SearchIInv, AnswersForItself
<1> QED BY <1>5, <1>6, <1>7 DEF SearchIInv

LEMMA RemoveFileIInv ==
    ASSUME SearchIInv, NEW r \in Routers, NEW f \in Files, remove_file(r, f)
    PROVE  SearchIInv'
<1> DEFINE old == file_locations[r][f]
           list == Kept(old, DOMAIN old \ Of(old, r))
<1>1. SearchTypeOK /\ old \in Seq(FileLocation)
    BY DEF SearchIInv, SearchTypeOK
<1>2. list \in Seq(FileLocation) /\ r \notin Named(list)
  <2>1. DOMAIN old \ Of(old, r) \in SUBSET DOMAIN old
      OBVIOUS
  <2>2. /\ list \in Seq(FileLocation)
        /\ \A p \in Named(list) : \E i \in DOMAIN old \ Of(old, r) : old[i].peer = p
      BY <1>1, <2>1, KeptNames
  <2> QED BY <2>2 DEF Of
<1>3. file_locations' = [file_locations EXCEPT ![r][f] = list]
    BY DEF remove_file
<1> HIDE DEF old, list
<1>4. /\ local_files' \in [Routers -> SUBSET Files]
      /\ \A s \in Routers, g \in Files :
            s # r \/ g # f => (g \in local_files[s] => g \in local_files'[s])
    BY <1>1 DEF remove_file, SearchTypeOK
<1>5. /\ file_locations' \in [Routers -> [Files -> Seq(FileLocation)]]
      /\ RemovedStaysRemoved'
    BY <1>2, <1>3, <1>4, OneList
<1>6. SearchTypeOK'
    BY <1>1, <1>4, <1>5 DEF remove_file, SearchTypeOK
<1>7. AnswersForItself'
    BY DEF remove_file, SearchIInv, AnswersForItself
<1> QED BY <1>5, <1>6, <1>7 DEF SearchIInv

\* a step that changes queries and answers, and what is remembered of queries, only
LEMMA OnlyMessages ==
    ASSUME SearchIInv, UNCHANGED files,
           query_cache' \in [Routers -> [Files -> 0 .. NoQuery]],
           file_queries' \subseteq Query, responses' \subseteq Response,
           searches' \in 0 .. MaxSearches, AnswersForItself'
    PROVE  SearchIInv'
<1>1. SearchTypeOK'
    BY DEF SearchIInv, SearchTypeOK, files
<1>2. RemovedStaysRemoved'
    BY DEF SearchIInv, RemovedStaysRemoved, files
<1> QED BY <1>1, <1>2 DEF SearchIInv

\* the queries that a router sends
LEMMA SentType ==
    ASSUME NEW r \in Routers, NEW targets \in SUBSET Routers, NEW source \in Routers,
           NEW f \in Files, NEW hops \in Nat
    PROVE  Sent(r, targets, source, f, hops) \subseteq Query
BY DEF Sent, Query

LEMMA FindFileIInv ==
    ASSUME SearchIInv, NEW r \in Routers, NEW f \in Files, find_file(r, f)
    PROVE  SearchIInv'
<1>1. SearchTypeOK /\ 0 \in 0 .. NoQuery
    BY SearchAssumption DEF SearchIInv, NoQuery
<1>2. query_cache' \in [Routers -> [Files -> 0 .. NoQuery]]
    BY <1>1 DEF find_file, SearchTypeOK
<1>3. Sent(r, Neighbours(r), r, f, 0) \subseteq Query
    BY SentType DEF Neighbours
<1>4. file_queries' \subseteq Query /\ responses' \subseteq Response
    BY <1>1, <1>3 DEF find_file, SearchTypeOK
<1>5. searches' \in 0 .. MaxSearches
    BY <1>1, SearchAssumption DEF find_file, SearchTypeOK
<1>6. AnswersForItself' /\ UNCHANGED files
    BY DEF find_file, SearchIInv, AnswersForItself
<1> QED BY <1>2, <1>4, <1>5, <1>6, OnlyMessages

\* a router answers for itself, and never to itself
LEMMA QueryIInv ==
    ASSUME SearchIInv, NEW q \in file_queries, handle_file_query(q)
    PROVE  SearchIInv'
<1>1. SearchTypeOK /\ AnswersForItself /\ 0 \in 0 .. NoQuery
    BY SearchAssumption DEF SearchIInv, NoQuery
<1>2. /\ q \in Query /\ q.to \in Routers /\ q.source \in Routers /\ q.file \in Files
      /\ q.hop_count \in Nat
    BY <1>1 DEF SearchTypeOK, Query
<1>3. /\ UNCHANGED files /\ searches' = searches
      /\ query_cache' = query_cache \/ query_cache' = [query_cache EXCEPT ![q.to][q.file] = 0]
    BY DEF handle_file_query, IgnoreDuplicate, Answer, Forward, TooFar, Remember
<1>4. query_cache' \in [Routers -> [Files -> 0 .. NoQuery]]
  <2>1. query_cache \in [Routers -> [Files -> 0 .. NoQuery]]
      BY <1>1 DEF SearchTypeOK
  <2>2. CASE query_cache' = [query_cache EXCEPT ![q.to][q.file] = 0]
      BY <1>1, <1>2, <2>1, <2>2
  <2> QED BY <1>3, <2>1, <2>2
<1>5. searches' \in 0 .. MaxSearches
    BY <1>1, <1>3 DEF SearchTypeOK
<1>6. file_queries' \subseteq Query
  <2>1. ASSUME NEW targets \in FloodingTargets(q)
        PROVE  Sent(q.to, targets, q.source, q.file, q.hop_count + 1) \subseteq Query
    <3>1. targets \in SUBSET Routers
        BY DEF FloodingTargets, Neighbours
    <3>2. q.hop_count + 1 \in Nat
        BY <1>2
    <3> QED BY <1>2, <3>1, <3>2, SentType
  <2>2. file_queries \subseteq Query
      BY <1>1 DEF SearchTypeOK
  <2>3. CASE file_queries' = file_queries \ {q}
      BY <2>2, <2>3
  <2>4. CASE Forward(q)
      BY <2>1, <2>2, <2>4 DEF Forward
  <2> QED BY <2>3, <2>4 DEF handle_file_query, IgnoreDuplicate, Answer, TooFar
<1>7. responses' \subseteq Response /\ AnswersForItself'
  <2>1. CASE responses' = responses
      BY <1>1, <2>1 DEF SearchTypeOK, AnswersForItself
  <2>2. CASE Answer(q)
    <3> DEFINE list == file_locations[q.to][q.file]
               To(s) == [from |-> q.to, to |-> s, file |-> q.file, locations |-> Matching(q)]
    <3>1. list \in Seq(FileLocation) /\ Of(list, q.to) \in SUBSET DOMAIN list
        BY <1>1, <1>2 DEF SearchTypeOK, Of
    <3>2. /\ Matching(q) \in Seq(FileLocation)
          /\ \A p \in Named(Matching(q)) : \E i \in Of(list, q.to) : list[i].peer = p
        BY <3>1, KeptNames DEF Matching
    <3>3. Named(Matching(q)) \subseteq {q.to}
        BY <3>2 DEF Of
    <3>4. q.to \notin Neighbours(q.to)
      <4>1. {q.to, q.to} = {q.to}
          OBVIOUS
      <4> QED BY <1>2, <4>1, ConnectionsAssumption DEF Neighbours
    <3>5. \A m \in responses' : m \in responses
             \/ \E s \in {q.source} \cap Neighbours(q.to) : m = To(s)
        BY <2>2 DEF Answer
    <3>6. ASSUME NEW m \in responses'
          PROVE  m \in Response /\ m.from # m.to /\ Named(m.locations) \subseteq {m.from}
      <4>1. CASE m \in responses
          BY <1>1, <4>1 DEF SearchTypeOK, AnswersForItself
      <4>2. ASSUME NEW s \in {q.source} \cap Neighbours(q.to), m = To(s)
            PROVE  m \in Response /\ m.from # m.to /\ Named(m.locations) \subseteq {m.from}
        <5>1. /\ m.from = q.to /\ m.to = s /\ m.locations = Matching(q) /\ s \in Routers
              /\ s # q.to
            BY <1>2, <3>4, <4>2
        <5>2. m \in Response
            BY <1>2, <3>2, <4>2, <5>1 DEF Response
        <5> QED BY <3>3, <5>1, <5>2
      <4> QED BY <3>5, <4>1, <4>2
    <3> QED BY <3>6 DEF AnswersForItself
  <2> QED BY <2>1, <2>2 DEF handle_file_query, IgnoreDuplicate, Forward, TooFar
<1> QED BY <1>3, <1>4, <1>5, <1>6, <1>7, OnlyMessages

\* an answer comes from somebody else, so it does not make its receiver a location
LEMMA ResponseIInv ==
    ASSUME SearchIInv, NEW m \in responses, handle_file_query_response(m)
    PROVE  SearchIInv'
<1> DEFINE new == Received(m)
           list == WithLocations(file_locations[m.to][m.file], new)
<1>1. SearchTypeOK /\ AnswersForItself /\ RemovedStaysRemoved
    BY DEF SearchIInv
<1>2. /\ m \in Response /\ m.to \in Routers /\ m.from \in Routers /\ m.file \in Files
      /\ m.locations \in Seq(FileLocation)
      /\ file_locations[m.to][m.file] \in Seq(FileLocation)
    BY <1>1 DEF SearchTypeOK, Response
<1>3. new \in Seq(FileLocation) /\ Named(new) \subseteq Named(m.locations)
  <2>1. DOMAIN m.locations = 1 .. Len(m.locations) /\ Len(m.locations) \in Nat
      BY <1>2
  <2>2. Uptime[m.to] \in Int /\ Uptime[m.from] \in Int
      BY <1>2, SearchAssumption
  <2>3. ASSUME NEW i \in 1 .. Len(m.locations)
        PROVE  new[i] \in FileLocation /\ new[i].peer = m.locations[i].peer
    <3>1. m.locations[i] \in FileLocation
        BY <1>2, ElementOfSeq
    <3>2. new[i] = [m.locations[i] EXCEPT !.age = @ + Uptime[m.to] - Uptime[m.from]]
        BY <2>1 DEF Received
    <3> QED BY <2>2, <3>1, <3>2 DEF FileLocation
  <2>4. DOMAIN new = 1 .. Len(m.locations) /\ new = [i \in 1 .. Len(m.locations) |-> new[i]]
      BY <2>1 DEF Received
  <2> HIDE DEF new
  <2>5. new \in Seq(FileLocation)
      BY <2>1, <2>3, <2>4
  <2> QED BY <2>1, <2>3, <2>4, <2>5 DEF Named
<1>4. list \in Seq(FileLocation) /\ Named(list) \subseteq Named(file_locations[m.to][m.file])
                                                          \cup Named(new)
    BY <1>2, <1>3, WithLocationsNames
<1>5. file_locations' = [file_locations EXCEPT ![m.to][m.file] = list]
    BY DEF handle_file_query_response
<1> HIDE DEF new, list
<1>6. m.to \in Named(list) => m.file \in local_files[m.to]
    BY <1>1, <1>2, <1>3, <1>4, RemovedByName DEF AnswersForItself
<1>7. UNCHANGED <<local_files, query_cache, file_queries, searches, announcements>>
    BY DEF handle_file_query_response
<1>8. /\ file_locations' \in [Routers -> [Files -> Seq(FileLocation)]]
      /\ RemovedStaysRemoved'
    BY <1>2, <1>4, <1>5, <1>6, <1>7, OneList
<1>9. responses' \subseteq responses
    BY DEF handle_file_query_response
<1>10. SearchTypeOK'
    BY <1>1, <1>7, <1>8, <1>9 DEF SearchTypeOK
<1>11. AnswersForItself'
    BY <1>1, <1>9 DEF AnswersForItself
<1> QED BY <1>8, <1>10, <1>11 DEF SearchIInv

LEMMA CleanupEntriesIInv ==
    ASSUME SearchIInv, NEW r \in Routers, cleanup_expired_entries(r)
    PROVE  SearchIInv'
<1> DEFINE Fresh(f) == {i \in DOMAIN file_locations[r][f] :
                            file_locations[r][f][i].age <= LocationExpiry}
           list(f) == Kept(file_locations[r][f], Fresh(f))
<1>1. SearchTypeOK /\ AnswersForItself /\ RemovedStaysRemoved
    BY DEF SearchIInv
<1>2. ASSUME NEW f \in Files
      PROVE  list(f) \in Seq(FileLocation) /\ Named(list(f)) \subseteq Named(file_locations[r][f])
  <2>1. file_locations[r][f] \in Seq(FileLocation)
      BY <1>1 DEF SearchTypeOK
  <2>2. Fresh(f) \in SUBSET DOMAIN file_locations[r][f]
      OBVIOUS
  <2>3. /\ list(f) \in Seq(FileLocation)
        /\ \A p \in Named(list(f)) : \E i \in Fresh(f) : file_locations[r][f][i].peer = p
      BY <2>1, <2>2, KeptNames
  <2> HIDE DEF list
  <2> QED BY <2>2, <2>3 DEF Named
<1>3. file_locations' = [file_locations EXCEPT ![r] = [f \in Files |-> list(f)]]
    BY DEF cleanup_expired_entries
<1> HIDE DEF Fresh, list
<1>4. file_locations' \in [Routers -> [Files -> Seq(FileLocation)]]
    BY <1>1, <1>2, <1>3 DEF SearchTypeOK
<1>5. query_cache' \in [Routers -> [Files -> 0 .. NoQuery]]
    BY <1>1, SearchAssumption DEF cleanup_expired_entries, SearchTypeOK, NoQuery
<1>6. UNCHANGED <<local_files, file_queries, responses, searches, announcements>>
    BY DEF cleanup_expired_entries
<1>7. SearchTypeOK'
    BY <1>1, <1>4, <1>5, <1>6 DEF SearchTypeOK
<1>8. \A s \in Routers, f \in Files : Named(file_locations'[s][f]) \subseteq
                                      Named(file_locations[s][f])
  <2>1. SUFFICES ASSUME NEW s \in Routers, NEW f \in Files
                 PROVE  Named(file_locations'[s][f]) \subseteq Named(file_locations[s][f])
      OBVIOUS
  <2>2. CASE s = r
    <3>1. file_locations'[s][f] = list(f)
        BY <1>1, <1>3, <2>2 DEF SearchTypeOK
    <3> QED BY <1>2, <2>2, <3>1
  <2>3. CASE s # r
    <3>1. file_locations'[s][f] = file_locations[s][f]
        BY <1>1, <1>3, <2>3 DEF SearchTypeOK
    <3> QED BY <3>1
  <2> QED BY <2>2, <2>3
<1>9. RemovedStaysRemoved'
    BY <1>1, <1>6, <1>8, RemovedByName, RemovedByNameNext
<1>10. AnswersForItself'
    BY <1>1, <1>6 DEF AnswersForItself
<1> QED BY <1>7, <1>9, <1>10 DEF SearchIInv

\* time changes ages, and nothing else
LEMMA AgedNames ==
    ASSUME NEW list \in Seq(FileLocation)
    PROVE  Aged(list) \in Seq(FileLocation) /\ Named(Aged(list)) = Named(list)
<1>1. DOMAIN list = 1 .. Len(list) /\ Len(list) \in Nat
    OBVIOUS
<1>2. ASSUME NEW i \in 1 .. Len(list)
      PROVE  Aged(list)[i] \in FileLocation /\ Aged(list)[i].peer = list[i].peer
  <2>1. list[i] \in FileLocation
      BY ElementOfSeq
  <2>2. Aged(list)[i] = [list[i] EXCEPT !.age = Older(@, LocationExpiry)]
      BY <1>1 DEF Aged
  <2>3. list[i].age \in Int
      BY <2>1 DEF FileLocation
  <2>4. Older(list[i].age, LocationExpiry) \in Int
      BY <2>3, SearchAssumption DEF Older
  <2> HIDE DEF Older
  <2> QED BY <2>1, <2>2, <2>4 DEF FileLocation
<1>3. DOMAIN Aged(list) = 1 .. Len(list) /\ Aged(list) = [i \in 1 .. Len(list) |-> Aged(list)[i]]
    BY <1>1 DEF Aged
<1>4. Aged(list) \in Seq(FileLocation)
    BY <1>1, <1>2, <1>3
<1> QED BY <1>1, <1>2, <1>3, <1>4 DEF Named

LEMMA ClockTickIInv ==
    ASSUME SearchIInv, ClockTick
    PROVE  SearchIInv'
<1>1. SearchTypeOK /\ AnswersForItself /\ RemovedStaysRemoved
    BY DEF SearchIInv
<1>2. UNCHANGED <<local_files, file_queries, searches, announcements>>
    BY DEF ClockTick
<1>3. ASSUME NEW r \in Routers, NEW f \in Files
      PROVE  /\ file_locations'[r][f] = Aged(file_locations[r][f])
             /\ file_locations'[r][f] \in Seq(FileLocation)
             /\ Named(file_locations'[r][f]) = Named(file_locations[r][f])
  <2>1. file_locations[r][f] \in Seq(FileLocation)
      BY <1>1 DEF SearchTypeOK
  <2>2. file_locations'[r][f] = Aged(file_locations[r][f])
      BY DEF ClockTick
  <2> QED BY <2>1, <2>2, AgedNames
<1>4. file_locations' \in [Routers -> [Files -> Seq(FileLocation)]]
  <2>1. file_locations' = [r \in Routers |-> [f \in Files |-> file_locations'[r][f]]]
      BY DEF ClockTick
  <2> QED BY <1>3, <2>1
<1>5. query_cache' \in [Routers -> [Files -> 0 .. NoQuery]]
  <2>1. ASSUME NEW r \in Routers, NEW f \in Files
        PROVE  Older(query_cache[r][f], QueryExpiry) \in 0 .. NoQuery
    <3>1. query_cache[r][f] \in 0 .. NoQuery
        BY <1>1 DEF SearchTypeOK
    <3> QED BY <3>1, SearchAssumption DEF Older, NoQuery
  <2> QED BY <2>1 DEF ClockTick
<1>6. ASSUME NEW m \in responses'
      PROVE  m \in Response /\ m.from # m.to /\ Named(m.locations) \subseteq {m.from}
  <2>1. PICK o \in responses : m = [o EXCEPT !.locations = Aged(@)]
      BY DEF ClockTick
  <2>2. /\ o \in Response /\ o.locations \in Seq(FileLocation)
        /\ o.from # o.to /\ Named(o.locations) \subseteq {o.from}
      BY <1>1 DEF SearchTypeOK, Response, AnswersForItself
  <2>3. /\ m.from = o.from /\ m.to = o.to /\ m.file = o.file /\ m.locations = Aged(o.locations)
      BY <2>1, <2>2 DEF Response
  <2>4. Aged(o.locations) \in Seq(FileLocation) /\ Named(Aged(o.locations)) = Named(o.locations)
      BY <2>2, AgedNames
  <2>5. m \in Response
      BY <2>1, <2>2, <2>4 DEF Response
  <2> QED BY <2>2, <2>3, <2>4, <2>5
<1>7. SearchTypeOK'
    BY <1>1, <1>2, <1>4, <1>5, <1>6 DEF SearchTypeOK
<1>8. AnswersForItself'
    BY <1>6 DEF AnswersForItself
<1>9. RemovedStaysRemoved'
    BY <1>1, <1>2, <1>3, RemovedByName, RemovedByNameNext
<1> QED BY <1>7, <1>8, <1>9 DEF SearchIInv

LEMMA SearchNextIInv ==
    ASSUME SearchIInv, [SearchNext]_searchVars
    PROVE  SearchIInv'
<1>1. CASE Deliver
    BY <1>1, QueryIInv, ResponseIInv DEF Deliver
<1>2. CASE UNCHANGED searchVars
  <2>1. SearchTypeOK'
      BY <1>2 DEF SearchIInv, SearchTypeOK, searchVars
  <2>2. AnswersForItself' /\ RemovedStaysRemoved'
      BY <1>2 DEF SearchIInv, AnswersForItself, RemovedStaysRemoved, searchVars
  <2> QED BY <2>1, <2>2 DEF SearchIInv
<1> QED BY <1>1, <1>2, AnnounceFileIInv, RemoveFileIInv, FindFileIInv, CleanupEntriesIInv,
           ClockTickIInv DEF SearchNext

LEMMA SearchInvariant == SearchSpec => []SearchIInv
BY SearchInitIInv, SearchNextIInv, PTL DEF SearchSpec

(***************************************************************************)
(* Type correctness of the routers' files and messages (PeerRouter), for   *)
(* any network and any clocks.                                             *)
(***************************************************************************)
THEOREM SearchTypeCorrect == SearchSpec => []SearchTypeOK
<1>1. SearchIInv => SearchTypeOK
    BY DEF SearchIInv
<1> QED BY <1>1, SearchInvariant, PTL

(***************************************************************************)
(* A router lists itself for a file only as long as it shares the file     *)
(* (remove_file, handle_file_query, handle_file_query_response), on any    *)
(* network and whatever answers are still on their way: an answer names    *)
(* its sender only, and nobody answers itself.                             *)
(***************************************************************************)
THEOREM RemovedNeverReturns == SearchSpec => []RemovedStaysRemoved
<1>1. SearchIInv => RemovedStaysRemoved
    BY DEF SearchIInv
<1> QED BY <1>1, SearchInvariant, PTL
=============================================================================
