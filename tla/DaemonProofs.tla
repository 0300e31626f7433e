---------------------------- MODULE DaemonProofs ----------------------------
(***************************************************************************)
(* No command waits in the queue of a socket that nobody accepts from, for *)
(* any number of start commands, of ports and of other commands.           *)
(***************************************************************************)
EXTENDS Daemon, TLAPS

IInv == TypeOK /\ QueuedIsServed

\* a connection of the type
Links == [server: Daemons \cup {None}, accepted: BOOLEAN, sent: BOOLEAN]

LEMMA InitIInv == Init => IInv
<1> SUFFICES ASSUME Init PROVE IInv
  OBVIOUS
<1>1. TypeOK
  BY DEF Init, TypeOK, Done, NoLink, Requests
<1>2. QueuedIsServed
  BY DEF Init, QueuedIsServed, NoLink
<1>3. QED
  BY <1>1, <1>2 DEF IInv

-----------------------------------------------------------------------------
\* Connections that are dropped, and the end of a process, keep the types.
LEMMA DropType ==
    ASSUME TypeOK, NEW d, NEW lost, Drop(d, lost)
    PROVE  link' \in [Clients -> Links]
BY DEF TypeOK, Drop, NoLink, Links

\* Every connection that waits after the step has waited before it on the same daemon,
\* which listens as before.
LEMMA StillServed ==
    ASSUME IInv, NEW d,
           \A c \in Clients :
               link'[c].server # None /\ ~link'[c].accepted =>
                   /\ link'[c].server = link[c].server /\ ~link[c].accepted
                   /\ link[c].server = d => Listening(d)',
           \A e \in Daemons : e # d => pc'[e] = pc[e] /\ acceptor'[e] = acceptor[e]
    PROVE  QueuedIsServed'
<1> SUFFICES ASSUME NEW c \in Clients, link'[c].server # None, ~link'[c].accepted
             PROVE  Listening(link[c].server)'
  BY DEF QueuedIsServed
<1>1. link'[c].server = link[c].server /\ ~link[c].accepted /\ link[c].server \in Daemons
  BY DEF IInv, TypeOK
<1>2. Listening(link[c].server)
  BY <1>1 DEF IInv, QueuedIsServed
<1>3. CASE link[c].server = d
  BY <1>1, <1>3
<1>4. CASE link[c].server # d
  <2>1. pc'[link[c].server] = pc[link[c].server] /\ acceptor'[link[c].server] = acceptor[link[c].server]
    BY <1>1, <1>4
  <2>2. QED
    BY <1>1, <1>2, <2>1 DEF Listening, Running
<1>5. QED
  BY <1>3, <1>4

\* After a daemon has dropped all its connections nothing waits on it.
LEMMA DropServed ==
    ASSUME IInv, NEW d, Drop(d, Clients),
           \A e \in Daemons : e # d => pc'[e] = pc[e] /\ acceptor'[e] = acceptor[e]
    PROVE  QueuedIsServed'
<1>1. ASSUME NEW c \in Clients, link'[c].server # None, ~link'[c].accepted
      PROVE  link'[c].server = link[c].server /\ ~link[c].accepted /\ link[c].server # d
  BY <1>1 DEF Drop, NoLink
<1>2. QED
  BY <1>1, StillServed

LEMMA DiesPreserves ==
    ASSUME IInv, NEW d \in Daemons \cup {None}, Dies(d)
    PROVE  IInv'
<1>1. link' \in [Clients -> Links]
  BY DropType DEF Dies, IInv
<1>2. /\ path' \in Daemons \cup {None, Dead}
      /\ port' \in [Ports -> Daemons \cup {None}]
      /\ pc' \in [Daemons -> {"off", "unlinked", "bound", "network", "up", "stopping"}]
      /\ acceptor' \in [Daemons -> {"none", "test", "blocked", "ended"}]
      /\ client' = client
  BY DEF IInv, TypeOK, Dies, Goes, SocketGone
<1>3. TypeOK'
  BY <1>1, <1>2 DEF IInv, TypeOK, Links
<1>4. QueuedIsServed'
  <2>1. \A e \in Daemons : e # d => pc'[e] = pc[e] /\ acceptor'[e] = acceptor[e]
    BY DEF IInv, TypeOK, Dies, Goes
  <2>2. QED
    BY <2>1, DropServed DEF Dies
<1>5. QED
  BY <1>3, <1>4 DEF IInv

\* StartCommandHandler::execute, as far as it does not die
LEMMA StartPreserves ==
    ASSUME IInv, NEW d \in Daemons, NEW server_port,
           \/ Unlink(d) \/ Bind(d) \/ BindFails(d) \/ Listen(d)
           \/ NetworkStarts(d, server_port) \/ DiscoveryFails(d, server_port) \/ StopReturns(d)
    PROVE  IInv'
<1>0. /\ \A e \in Daemons : e # d => pc'[e] = pc[e] /\ acceptor'[e] = acceptor[e]
      /\ pc \in [Daemons -> {"off", "unlinked", "bound", "network", "up", "stopping"}]
  BY DEF IInv, TypeOK, Unlink, Bind, BindFails, Listen, NetworkStarts, DiscoveryFails,
         StopReturns, Goes
<1>1. CASE Unlink(d) \/ Bind(d) \/ BindFails(d) \/ Listen(d)
  <2>1. TypeOK'
    BY <1>1 DEF IInv, TypeOK, Unlink, Bind, BindFails, Listen, Goes
  <2>2. link' = link /\ ~Listening(d)
    BY <1>1, <1>0 DEF Unlink, Bind, BindFails, Listen, Listening, Running
  <2>3. ASSUME NEW c \in Clients, link'[c].server # None, ~link'[c].accepted
        PROVE  link[c].server # d
    BY <2>2, <2>3 DEF IInv, QueuedIsServed
  <2>4. QueuedIsServed'
    BY <1>0, <2>2, <2>3, StillServed
  <2>5. QED
    BY <2>1, <2>4 DEF IInv
<1>2. CASE NetworkStarts(d, server_port)
  <2>1. TypeOK'
    BY <1>2 DEF IInv, TypeOK, NetworkStarts, Goes
  <2>2. link' = link /\ Listening(d)'
    BY <1>2, <1>0 DEF NetworkStarts, Goes, Listening, Running
  <2>3. QueuedIsServed'
    BY <1>0, <2>2, StillServed
  <2>4. QED
    BY <2>1, <2>3 DEF IInv
<1>3. CASE DiscoveryFails(d, server_port)
  <2>1. link' \in [Clients -> Links]
    BY <1>3, DropType DEF IInv, TypeOK, DiscoveryFails, Links
  <2>2. TypeOK'
    BY <1>3, <2>1 DEF IInv, TypeOK, DiscoveryFails, Goes, SocketGone, Links
  <2>3. CASE acceptor[d] = "blocked"
    <3>1. link' = link /\ Listening(d)'
      BY <1>0, <1>3, <2>3 DEF DiscoveryFails, Goes, Listening
    <3>2. QED
      BY <1>0, <2>2, <3>1, StillServed DEF IInv
  <2>4. CASE acceptor[d] # "blocked"
    <3>1. Drop(d, Queued)
      BY <1>3, <2>4 DEF DiscoveryFails
    <3>2. ASSUME NEW c \in Clients, link'[c].server # None, ~link'[c].accepted
          PROVE  link'[c].server = link[c].server /\ ~link[c].accepted /\ link[c].server # d
      BY <3>1, <3>2 DEF Drop, Queued, NoLink
    <3>3. QED
      BY <1>0, <2>2, <3>2, StillServed DEF IInv
  <2>5. QED
    BY <2>3, <2>4
<1>4. CASE StopReturns(d)
  <2>1. link' \in [Clients -> Links]
    BY <1>4, DropType DEF IInv, StopReturns
  <2>2. TypeOK'
    BY <1>4, <2>1 DEF IInv, TypeOK, StopReturns, Goes, Links
  <2>3. QueuedIsServed'
    BY <1>0, <1>4, DropServed DEF StopReturns
  <2>4. QED
    BY <2>2, <2>3 DEF IInv
<1>5. QED
  BY <1>1, <1>2, <1>3, <1>4

\* IPCServer::accept_loop
LEMMA ThreadsPreserve ==
    ASSUME IInv, NEW d \in Daemons, AcceptFails(d) \/ DaemonThreads(d)
    PROVE  IInv'
<1>0. /\ pc' = pc /\ \A e \in Daemons : e # d => acceptor'[e] = acceptor[e]
      /\ acceptor \in [Daemons -> {"none", "test", "blocked", "ended"}]
  BY DEF IInv, TypeOK, AcceptFails, DaemonThreads, AcceptCall, LoopEnds, Accept
<1>1. CASE AcceptFails(d) \/ AcceptCall(d) \/ LoopEnds(d)
  <2>1. TypeOK'
    BY <1>1 DEF IInv, TypeOK, AcceptFails, AcceptCall, LoopEnds
  <2>2. link' = link /\ (Running(d)' \/ ~Listening(d))
    BY <1>0, <1>1 DEF AcceptFails, AcceptCall, LoopEnds, Running, Listening
  <2>3. ASSUME NEW c \in Clients, link'[c].server # None, ~link'[c].accepted, link[c].server = d
        PROVE  Listening(d)'
    BY <2>2, <2>3 DEF IInv, QueuedIsServed, Listening
  <2>4. QueuedIsServed'
    BY <1>0, <2>2, <2>3, StillServed
  <2>5. QED
    BY <2>1, <2>4 DEF IInv
<1>2. ASSUME NEW c \in Clients, Accept(d, c)
      PROVE  IInv'
  <2> DEFINE taken == [link[c] EXCEPT !.accepted = TRUE]
  <2>0. link \in [Clients -> Links] /\ taken \in Links /\ NoLink \in Links /\ taken.accepted
    BY DEF IInv, TypeOK, NoLink, Links
  <2>1. CASE Running(d)
    <3>1. link' = [link EXCEPT ![c] = taken] /\ path' = path
      BY <1>2, <2>1 DEF Accept
    <3> HIDE DEF taken
    <3>2. link' \in [Clients -> Links]
      BY <2>0, <3>1
    <3>3. TypeOK'
      BY <1>2, <3>1, <3>2 DEF IInv, TypeOK, Accept, Links
    <3>4. ASSUME NEW x \in Clients, ~link'[x].accepted
          PROVE  link'[x] = link[x]
      BY <2>0, <3>1, <3>4
    <3>5. Listening(d)'
      BY <1>0, <2>1 DEF Running, Listening
    <3>6. QueuedIsServed'
      BY <1>0, <3>4, <3>5, StillServed
    <3>7. QED
      BY <3>3, <3>6 DEF IInv
  <2>2. CASE ~Running(d)
    <3>1. /\ link' = [x \in Clients |-> IF x = c THEN taken
                                       ELSE IF link[x].server = d /\ x \in Queued
                                            THEN NoLink ELSE link[x]]
          /\ SocketGone(d)
      BY <1>2, <2>2 DEF Accept
    <3> HIDE DEF taken
    <3>2. link' \in [Clients -> Links]
      BY <2>0, <3>1
    <3>3. TypeOK'
      BY <1>2, <3>1, <3>2 DEF IInv, TypeOK, Accept, SocketGone, Links
    <3>4. ASSUME NEW x \in Clients, link'[x].server # None, ~link'[x].accepted
          PROVE  link'[x] = link[x] /\ link[x].server # d
      BY <2>0, <3>1, <3>4 DEF Queued, NoLink
    <3>5. QueuedIsServed'
      BY <1>0, <3>4, StillServed
    <3>6. QED
      BY <3>3, <3>5 DEF IInv
  <2>3. QED
    BY <2>1, <2>2
<1>3. QED
  BY <1>1, <1>2 DEF DaemonThreads

LEMMA AfterType ==
    ASSUME TypeOK, NEW c \in Clients, NEW answer
    PROVE  After(c, answer) \in [pc: {"connect", "write", "read", "done"}, request: Requests]
<1>1. After(c, answer) \in {Asks("status_transfers"), Asks("status_files"), Done}
  BY DEF After
<1>2. QED
  BY <1>1 DEF Asks, Done, Requests

\* The commands, and the threads that answer them.
LEMMA ClientsPreserve ==
    ASSUME IInv, NEW c \in Clients,
           \/ StatusCommand(c) \/ PeersCommand(c) \/ TransfersCommand(c)
           \/ ClientSteps(c) \/ Quit(c)
    PROVE  IInv'
<1>1. CASE HandleGone(c)
  <2>1. link[c].server \in Daemons \cup {None}
    BY DEF IInv, TypeOK
  <2>2. QED
    BY <1>1, <2>1, DiesPreserves DEF HandleGone
<1>2. CASE ~HandleGone(c)
  <2>1. UNCHANGED <<path, port, pc, acceptor>>
    BY <1>2 DEF StatusCommand, PeersCommand, TransfersCommand, Run, ClientSteps, Connect,
                ConnectRefused, Write, ReadFails, HandleClient, HandleLarge, HandleNoRequest,
                Quit
  <2>2. client' \in [Clients -> [pc: {"connect", "write", "read", "done"}, request: Requests]]
    <3>1. CASE StatusCommand(c) \/ PeersCommand(c) \/ TransfersCommand(c) \/ Quit(c)
      BY <3>1 DEF IInv, TypeOK, StatusCommand, PeersCommand, TransfersCommand, Run, Quit,
                  Asks, Done, Requests
    <3>2. CASE Connect(c) \/ HandleNoRequest(c)
      BY <3>2, SMTT(30) DEF IInv, TypeOK, Connect, HandleNoRequest
    <3>3. CASE Write(c)
      <4>1. client' = [client EXCEPT ![c] = Done] \/ client' = [client EXCEPT ![c].pc = "read"]
        BY <3>3 DEF Write
      <4>2. QED
        BY <4>1 DEF IInv, TypeOK, Done, Requests
    <3>4. CASE ConnectRefused(c) \/ ReadFails(c) \/ HandleClient(c) \/ HandleLarge(c)
      <4>1. PICK answer : client' = [client EXCEPT ![c] = After(c, answer)]
        BY <3>4 DEF ConnectRefused, ReadFails, HandleClient, HandleLarge
      <4>2. QED
        BY <4>1, AfterType DEF IInv, TypeOK
    <3>5. QED
      BY <1>2, <3>1, <3>2, <3>3, <3>4 DEF ClientSteps
  <2>3. /\ link \in [Clients -> Links] /\ NoLink \in Links /\ NoLink.server = None
        /\ path \in Daemons => [NoLink EXCEPT !.server = path] \in Links
        /\ [NoLink EXCEPT !.server = path].server = path
        /\ [link[c] EXCEPT !.sent = TRUE] \in Links
        /\ [link[c] EXCEPT !.sent = TRUE].server = link[c].server
        /\ [link[c] EXCEPT !.sent = TRUE].accepted = link[c].accepted
    BY DEF IInv, TypeOK, NoLink, Links
  <2>4. \/ link' = link
        \/ link' = [link EXCEPT ![c] = NoLink]
        \/ /\ path \in Daemons /\ Listening(path)
           /\ link' = [link EXCEPT ![c] = [NoLink EXCEPT !.server = path]]
        \/ link' = [link EXCEPT ![c] = [link[c] EXCEPT !.sent = TRUE]]
    BY <1>2 DEF StatusCommand, PeersCommand, TransfersCommand, Run, ClientSteps, Connect,
                ConnectRefused, Write, ReadFails, HandleClient, HandleLarge, HandleNoRequest,
                Quit
  <2>5. link' \in [Clients -> Links]
    BY <2>3, <2>4
  <2>6. TypeOK'
    BY <2>1, <2>2, <2>5 DEF IInv, TypeOK, Links
  <2>7. ASSUME NEW x \in Clients, link'[x].server # None, ~link'[x].accepted
        PROVE  Listening(link[x].server)'
    <3>1. \/ link'[x].server = link[x].server /\ ~link[x].accepted
          \/ link'[x].server = path /\ Listening(path)
      BY <2>3, <2>4, <2>7
    <3>2. Listening(link'[x].server)
      BY <2>7, <3>1 DEF IInv, QueuedIsServed
    <3>3. QED
      BY <2>1, <3>2 DEF Listening, Running
  <2>8. QED
    BY <2>6, <2>7 DEF IInv, QueuedIsServed
<1>3. QED
  BY <1>1, <1>2

LEMMA NextIInv == IInv /\ [Next]_vars => IInv'
<1> SUFFICES ASSUME IInv, [Next]_vars PROVE IInv'
  OBVIOUS
<1>1. ASSUME NEW d \in Daemons, NEW server_port, PortTaken(d, server_port) \/ Killed(d)
      PROVE  IInv'
  BY <1>1, DiesPreserves DEF PortTaken, Killed
<1>2. CASE UNCHANGED vars
  BY <1>2 DEF vars, IInv, TypeOK, QueuedIsServed, Listening, Running
<1>3. QED
  BY <1>1, <1>2, StartPreserves, ThreadsPreserve, ClientsPreserve DEF Next

LEMMA Invariance == Spec => []IInv
BY InitIInv, NextIInv, PTL DEF Spec

-----------------------------------------------------------------------------
(***************************************************************************)
(* Start commands, accept loops and commands keep their types, whoever is  *)
(* killed when.                                                            *)
(***************************************************************************)
THEOREM TypeCorrect == Spec => []TypeOK
<1>1. IInv => TypeOK
  BY DEF IInv
<1>2. QED
  BY <1>1, Invariance, PTL

(***************************************************************************)
(* However many start commands (StartCommandHandler::execute) overlap,     *)
(* fail, stop or are killed, a connection that waits in the queue of a     *)
(* socket (IPCServer) waits for a thread that can still accept it.         *)
(***************************************************************************)
THEOREM QueueAlwaysServed == Spec => []QueuedIsServed
<1>1. IInv => QueuedIsServed
  BY DEF IInv
<1>2. QED
  BY <1>1, Invariance, PTL
=============================================================================
