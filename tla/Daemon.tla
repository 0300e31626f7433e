------------------------------- MODULE Daemon -------------------------------
(***************************************************************************)
(* `hypershare start` and the commands that ask the daemon over its Unix   *)
(* socket: IPCServer (ipc_server.cpp), IPCClient (ipc_client.cpp) and the  *)
(* handlers of start, status, peers and transfers (command_handler.cpp).   *)
(*                                                                         *)
(* Every daemon and every command is a process.  They share the path of    *)
(* the socket, which is fixed, and those configured alike share a TCP port *)
(* (server.port); any of them may be killed at any time, and the user may  *)
(* start a daemon while another one runs.  The answers are abstracted to   *)
(* what decides how a command goes on: success, failure, an answer longer  *)
(* than the client's buffer that lacks a key the command reads, or one     *)
(* longer than the socket's; what it prints is left out.  Linux: close()   *)
(* does not wake a thread blocked in accept(), and a write to a closed     *)
(* socket raises SIGPIPE, which nobody ignores.                            *)
(***************************************************************************)
EXTENDS Naturals

CONSTANTS
    Daemons,    \* start commands that may run at the same time
    Configured, \* start command -> the TCP ports its configuration may name
    Clients,    \* other commands that may run at the same time
    Commands    \* client -> the commands it runs, of status, peers and transfers

None == "none"      \* no socket at the path; no server; no owner of the port
Dead == "dead"      \* the path names a socket that nobody listens on any more

ASSUME DaemonsAssumption == None \notin Daemons /\ Dead \notin Daemons

Ports == UNION {Configured[d] : d \in Daemons}

VARIABLES
    path,       \* whose socket the path names
    port,       \* TCP port -> the daemon that listens on it
    pc,         \* daemon -> where its start command stands
    acceptor,   \* daemon -> its accept thread
    client,     \* client -> the command it runs
    link        \* client -> its connection to a daemon

vars == <<path, port, pc, acceptor, client, link>>

Requests == {"status", "status_transfers", "status_files", "peers", "transfers"}
NoLink == [server |-> None, accepted |-> FALSE, sent |-> FALSE]
Done == [pc |-> "done", request |-> "status"]
Asks(request) == [pc |-> "connect", request |-> request]

TypeOK ==
    /\ path \in Daemons \cup {None, Dead}
    /\ port \in [Ports -> Daemons \cup {None}]
    /\ pc \in [Daemons -> {"off", "unlinked", "bound", "network", "up", "stopping"}]
    /\ acceptor \in [Daemons -> {"none", "test", "blocked", "ended"}]
    /\ client \in [Clients -> [pc: {"connect", "write", "read", "done"}, request: Requests]]
    /\ link \in [Clients -> [server: Daemons \cup {None}, accepted: BOOLEAN, sent: BOOLEAN]]

Init ==
    /\ path \in {None, Dead}
    /\ port = [n \in Ports |-> None]
    /\ pc = [d \in Daemons |-> "off"]
    /\ acceptor = [d \in Daemons |-> "none"]
    /\ client = [c \in Clients |-> Done]
    /\ link = [c \in Clients |-> NoLink]

\* connections to d that are gone when its process ends, or when its socket does
Drop(d, lost) ==
    link' = [c \in Clients |-> IF link[c].server = d /\ c \in lost THEN NoLink ELSE link[c]]
SocketGone(d) == path' = IF path = d THEN Dead ELSE path
Queued == {c \in Clients : ~link[c].accepted}

-----------------------------------------------------------------------------
(* The daemon: StartCommandHandler::execute. *)

Goes(d, to) == pc' = [pc EXCEPT ![d] = to]

\* the process ends without cleaning up: the socket's path stays
Dies(d) ==
    /\ Goes(d, "off")
    /\ acceptor' = [acceptor EXCEPT ![d] = "none"]
    /\ SocketGone(d)
    /\ port' = [n \in Ports |-> IF port[n] = d THEN None ELSE port[n]]
    /\ Drop(d, Clients)
    /\ UNCHANGED client

\* IPCServer::start, one system call after the other
Unlink(d) ==
    /\ pc[d] = "off"
    /\ path' = None
    /\ Goes(d, "unlinked")
    /\ UNCHANGED <<port, acceptor, client, link>>

Bind(d) ==
    /\ pc[d] = "unlinked" /\ path = None
    /\ path' = d
    /\ Goes(d, "bound")
    /\ UNCHANGED <<port, acceptor, client, link>>

\* the start command reports the error
BindFails(d) ==
    /\ pc[d] = "unlinked" /\ path # None
    /\ Goes(d, "off")
    /\ UNCHANGED <<path, port, acceptor, client, link>>

Listen(d) ==
    /\ pc[d] = "bound"
    /\ acceptor' = [acceptor EXCEPT ![d] = "test"]
    /\ Goes(d, "network")
    /\ UNCHANGED <<path, port, client, link>>

\* ConnectionManager::start succeeds with the port of the configuration, and the start
\* command sleeps from then on
NetworkStarts(d, server_port) ==
    /\ pc[d] = "network" /\ port[server_port] = None
    /\ port' = [port EXCEPT ![server_port] = d]
    /\ Goes(d, "up")
    /\ UNCHANGED <<path, acceptor, client, link>>

\* the constructor of TcpServer throws, and nobody catches it
PortTaken(d, server_port) == pc[d] = "network" /\ port[server_port] # None /\ Dies(d)

\* mutant: stop() leaves server_fd_ open
Bug_DiscoveryFails(d, server_port) ==
    /\ pc[d] = "network" /\ port[server_port] = None
    /\ Goes(d, "stopping")
    /\ UNCHANGED <<path, port, acceptor, client, link>>

\* UdpDiscovery::start fails: start returns, and ~IPCServer closes the socket
DiscoveryFails(d, server_port) ==
    /\ pc[d] = "network" /\ port[server_port] = None
    /\ Goes(d, "stopping")
    /\ IF acceptor[d] = "blocked" THEN UNCHANGED <<path, link>>
       ELSE SocketGone(d) /\ Drop(d, Queued)
    /\ UNCHANGED <<port, acceptor, client>>

\* IPCServer::stop has joined the accept thread: it unlinks the path, whosever it is
StopReturns(d) ==
    /\ pc[d] = "stopping" /\ acceptor[d] = "ended"
    /\ path' = None
    /\ Goes(d, "off")
    /\ acceptor' = [acceptor EXCEPT ![d] = "none"]
    /\ Drop(d, Clients)
    /\ UNCHANGED <<port, client>>

\* Ctrl+C, kill, or a crash
Killed(d) == pc[d] # "off" /\ Dies(d)

-----------------------------------------------------------------------------
(* IPCServer::accept_loop and handle_client. *)

Running(d) == pc[d] \in {"network", "up"}

\* while a thread is blocked in accept() a closed socket still takes connections
Listening(d) == Running(d) \/ (pc[d] = "stopping" /\ acceptor[d] = "blocked")

AcceptCall(d) ==
    /\ acceptor[d] = "test" /\ Running(d)
    /\ acceptor' = [acceptor EXCEPT ![d] = "blocked"]
    /\ UNCHANGED <<path, port, pc, client, link>>

\* running_ is false, or the socket is closed
LoopEnds(d) ==
    /\ acceptor[d] = "test" /\ ~Running(d)
    /\ acceptor' = [acceptor EXCEPT ![d] = "ended"]
    /\ UNCHANGED <<path, port, pc, client, link>>

\* after this accept a socket that was closed meanwhile is gone, and its queue with it
Accept(d, c) ==
    /\ acceptor[d] = "blocked"
    /\ link[c].server = d /\ ~link[c].accepted
    /\ IF Running(d) THEN link' = [link EXCEPT ![c].accepted = TRUE] /\ UNCHANGED path
       ELSE /\ link' = [x \in Clients |-> IF x = c THEN [link[c] EXCEPT !.accepted = TRUE]
                                         ELSE IF link[x].server = d /\ x \in Queued THEN NoLink
                                         ELSE link[x]]
            /\ SocketGone(d)
    /\ acceptor' = [acceptor EXCEPT ![d] = "test"]
    /\ UNCHANGED <<port, pc, client>>

\* accept() fails (too many open files): the loop ends, the socket stays
AcceptFails(d) ==
    /\ acceptor[d] = "blocked" /\ Running(d)
    /\ acceptor' = [acceptor EXCEPT ![d] = "ended"]
    /\ UNCHANGED <<path, port, pc, client, link>>

\* the client has gone without a request: the thread closes the connection
HandleNoRequest(c) ==
    /\ link[c].accepted /\ ~link[c].sent /\ client[c].pc = "done"
    /\ link' = [link EXCEPT ![c] = NoLink]
    /\ UNCHANGED <<path, port, pc, acceptor, client>>

\* the client has gone before its answer, or before the end of it: the daemon gets SIGPIPE
HandleGone(c) ==
    /\ link[c].accepted /\ link[c].sent /\ client[c].pc = "done"
    /\ Dies(link[c].server)

\* what handle_*_command can answer, as the client reads it: an error when a getter threw,
\* and only the answer to "status" always fits into the buffer
Answers(request) == {"ok", "error"} \cup IF request = "status" THEN {} ELSE {"cut"}

-----------------------------------------------------------------------------
(* The commands: IPCClient::send_request and what the handlers do next. *)

\* a status that was answered asks twice more, whatever becomes of the second request; an
\* answer that was cut makes data.at() throw, and the command ends
After(c, answer) ==
    LET request == client[c].request
    IN  CASE request = "status" /\ answer = "ok" -> Asks("status_transfers")
          [] request = "status_transfers" /\ answer # "cut" -> Asks("status_files")
          [] OTHER -> Done

Run(c, request) ==
    /\ request \in Commands[c]
    /\ client[c].pc = "done" /\ link[c] = NoLink
    /\ client' = [client EXCEPT ![c] = Asks(request)]
    /\ UNCHANGED <<path, port, pc, acceptor, link>>

StatusCommand(c) == Run(c, "status")

PeersCommand(c) == Run(c, "peers")

TransfersCommand(c) == Run(c, "transfers")

Connect(c) ==
    /\ client[c].pc = "connect" /\ path \in Daemons
    /\ Listening(path)
    /\ link' = [link EXCEPT ![c] = [NoLink EXCEPT !.server = path]]
    /\ client' = [client EXCEPT ![c].pc = "write"]
    /\ UNCHANGED <<path, port, pc, acceptor>>

ConnectRefused(c) ==
    /\ client[c].pc = "connect"
    /\ path \in Daemons => ~Listening(path)
    /\ client' = [client EXCEPT ![c] = After(c, "none")]
    /\ UNCHANGED <<path, port, pc, acceptor, link>>

\* a request to a daemon that died since raises SIGPIPE
Write(c) ==
    /\ client[c].pc = "write"
    /\ IF link[c] = NoLink
       THEN client' = [client EXCEPT ![c] = Done] /\ UNCHANGED link
       ELSE /\ client' = [client EXCEPT ![c].pc = "read"]
            /\ link' = [link EXCEPT ![c].sent = TRUE]
    /\ UNCHANGED <<path, port, pc, acceptor>>

\* mutant: there is no branch for "status", and an unknown command is neither answered nor
\* its connection closed
Bug_HandleClient(c) ==
    /\ link[c].accepted /\ link[c].sent /\ client[c].pc = "read"
    /\ client[c].request # "status"
    /\ \E answer \in Answers(client[c].request) :
          client' = [client EXCEPT ![c] = After(c, answer)]
    /\ link' = [link EXCEPT ![c] = NoLink]
    /\ UNCHANGED <<path, port, pc, acceptor>>

\* the answer is written and read, and both sides close
HandleClient(c) ==
    /\ link[c].accepted /\ link[c].sent /\ client[c].pc = "read"
    /\ \E answer \in Answers(client[c].request) :
          client' = [client EXCEPT ![c] = After(c, answer)]
    /\ link' = [link EXCEPT ![c] = NoLink]
    /\ UNCHANGED <<path, port, pc, acceptor>>

\* the answer is larger than the socket's buffer: the client reads a part and closes while
\* the daemon is still writing
HandleLarge(c) ==
    /\ link[c].accepted /\ link[c].sent /\ client[c].pc = "read"
    /\ "cut" \in Answers(client[c].request)
    /\ client' = [client EXCEPT ![c] = After(c, "cut")]
    /\ UNCHANGED <<path, port, pc, acceptor, link>>

\* the daemon ended: read() returns without an answer
ReadFails(c) ==
    /\ client[c].pc = "read" /\ link[c] = NoLink
    /\ client' = [client EXCEPT ![c] = After(c, "none")]
    /\ UNCHANGED <<path, port, pc, acceptor, link>>

\* the user gives up on the command
Quit(c) ==
    /\ client[c].pc # "done"
    /\ client' = [client EXCEPT ![c] = Done]
    /\ UNCHANGED <<path, port, pc, acceptor, link>>

-----------------------------------------------------------------------------
DaemonThreads(d) ==
    AcceptCall(d) \/ LoopEnds(d) \/ \E c \in Clients : Accept(d, c)

ClientSteps(c) ==
    \/ Connect(c) \/ ConnectRefused(c) \/ Write(c) \/ ReadFails(c)
    \/ HandleClient(c) \/ HandleLarge(c) \/ HandleNoRequest(c) \/ HandleGone(c)

Next ==
    \/ \E d \in Daemons :
          \/ Unlink(d) \/ Bind(d) \/ BindFails(d) \/ Listen(d)
          \/ \E server_port \in Configured[d] :
                \/ NetworkStarts(d, server_port) \/ PortTaken(d, server_port)
                \/ DiscoveryFails(d, server_port)
          \/ StopReturns(d)
          \/ Killed(d)
          \/ AcceptFails(d)
          \/ DaemonThreads(d)
    \/ \E c \in Clients :
          \/ StatusCommand(c) \/ PeersCommand(c) \/ TransfersCommand(c)
          \/ ClientSteps(c)
          \/ Quit(c)

Spec == Init /\ [][Next]_vars

(* Threads and commands that can go on do; nobody has to start or kill anything. *)
FairSpec ==
    /\ Spec
    /\ \A d \in Daemons : WF_vars(DaemonThreads(d)) /\ WF_vars(StopReturns(d))
    /\ \A d \in Daemons, c \in Clients : SF_vars(Accept(d, c))
    /\ \A c \in Clients : WF_vars(ClientSteps(c))

-----------------------------------------------------------------------------
(***************************************************************************)
(* No command waits in the queue of a socket that nobody accepts from: a   *)
(* stop that finds the accept thread outside accept() refuses the queue,   *)
(* one that finds it inside leaves it the socket for one more connection,  *)
(* and a daemon that dies takes its queue along.                           *)
(***************************************************************************)
QueuedIsServed ==
    \A c \in Clients :
        link[c].server # None /\ ~link[c].accepted => Listening(link[c].server)

(***************************************************************************)
(* A command that asks the daemon comes to an end: it is answered, or      *)
(* refused, or its connection is closed when the daemon ends - unless an   *)
(* accept loop ended on an error and left its socket open.                 *)
(***************************************************************************)
Broken == \E d \in Daemons : Running(d) /\ acceptor[d] = "ended"
EveryRequestEnds ==
    \A c \in Clients : client[c].pc # "done" ~> client[c].pc = "done" \/ Broken

(***************************************************************************)
(* A daemon that has printed "CLI commands can now connect" is the one at  *)
(* the other end of the path.                                              *)
(***************************************************************************)
UpIsReachable == \A d \in Daemons : pc[d] = "up" => path = d

(***************************************************************************)
(* What accept_loop counts on (ipc_server.cpp:102, "Only log error if      *)
(* we're still supposed to be running"): a stop makes accept() fail, so    *)
(* that a start command that could not get its network up ends.  close()   *)
(* does not wake the thread, and the command hangs in ~IPCServer.          *)
(***************************************************************************)
FailedStartEnds == \A d \in Daemons : pc[d] = "stopping" ~> pc[d] = "off"
=============================================================================
