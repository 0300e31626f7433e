----------------------------- MODULE Connection -----------------------------
(***************************************************************************)
(* Class Connection (connection.cpp): the write path and the closing of    *)
(* one TCP connection.  Io is the thread that runs the io_context: it      *)
(* reads, completes writes, and sends from inside the message handlers     *)
(* (the HANDSHAKE_ACK of NetworkManager).  Senders are other threads that  *)
(* call send_message or close on the same object: the heartbeat thread of  *)
(* NetworkManager, through TcpServer::broadcast_message, and the           *)
(* application.  The class has no mutex, so every access to a member is a  *)
(* step of its own.                                                        *)
(***************************************************************************)
EXTENDS Naturals, Sequences, SequencesExt

CONSTANTS
    Io,             \* the io_context thread
    Senders,        \* the other threads
    MaxMessages     \* bound: messages queued

Threads == Senders \cup {Io}

VARIABLES
    state,              \* state_
    write_queue,        \* write_queue_: numbers of messages
    write_in_progress,  \* write_in_progress_
    pending,            \* messages of the async_writes that have not completed
    wire,               \* messages written to the socket, in order
    pc,                 \* thread -> the step it is at
    was_empty,          \* thread -> write_was_empty
    accepted            \* history: number of messages pushed

writeVars == <<state, write_queue, write_in_progress, pending, wire, pc, was_empty, accepted>>

Open == {"CONNECTED", "AUTHENTICATED"}

ConnectionInit ==
    /\ state = "CONNECTED"
    /\ write_queue = <<>>
    /\ write_in_progress = FALSE
    /\ pending = <<>>
    /\ wire = <<>>
    /\ pc = [t \in Threads |-> "idle"]
    /\ was_empty = [t \in Threads |-> FALSE]
    /\ accepted = 0

Goes(t, from, to) == pc[t] = from /\ pc' = [pc EXCEPT ![t] = to]

-----------------------------------------------------------------------------
\* send_message: returns at once unless the connection is open
SendMessage(t) ==
    /\ state \in Open
    /\ accepted < MaxMessages
    /\ Goes(t, "idle", "read")
    /\ UNCHANGED <<state, write_queue, write_in_progress, pending, wire, was_empty,
                   accepted>>

ReadEmpty(t) ==
    /\ Goes(t, "read", "push")
    /\ was_empty' = [was_empty EXCEPT ![t] = write_queue = <<>>]
    /\ UNCHANGED <<state, write_queue, write_in_progress, pending, wire, accepted>>

Push(t) ==
    /\ accepted < MaxMessages
    /\ Goes(t, "push", "kick")
    /\ write_queue' = Append(write_queue, accepted + 1)
    /\ accepted' = accepted + 1
    /\ UNCHANGED <<state, write_in_progress, pending, wire, was_empty>>

Kick(t) ==
    /\ Goes(t, "kick", IF was_empty[t] /\ ~write_in_progress THEN "check" ELSE "idle")
    /\ UNCHANGED <<state, write_queue, write_in_progress, pending, wire, was_empty,
                   accepted>>

\* do_write: the test, then the start of the async_write (0 is the front of an empty queue)
DoWriteCheck(t) ==
    /\ Goes(t, "check", IF write_queue = <<>> \/ write_in_progress THEN "idle" ELSE "start")
    /\ UNCHANGED <<state, write_queue, write_in_progress, pending, wire, was_empty,
                   accepted>>

DoWriteStart(t) ==
    /\ Goes(t, "start", "idle")
    /\ write_in_progress' = TRUE
    /\ pending' = Append(pending, IF write_queue = <<>> THEN 0 ELSE Head(write_queue))
    /\ UNCHANGED <<state, write_queue, wire, was_empty, accepted>>

\* the completion handler of async_write: success (it may run after a close, for a write
\* that was over before), pop, and the next write
WriteDone ==
    /\ pending # <<>>
    /\ Goes(Io, "idle", "pop")
    /\ write_in_progress' = FALSE
    /\ wire' = Append(wire, Head(pending))
    /\ pending' = Tail(pending)
    /\ UNCHANGED <<state, write_queue, was_empty, accepted>>

Pop ==
    /\ Goes(Io, "pop", "more")
    /\ write_queue' = IF write_queue = <<>> THEN <<>> ELSE Tail(write_queue)
    /\ UNCHANGED <<state, write_in_progress, pending, wire, was_empty, accepted>>

More ==
    /\ Goes(Io, "more", IF write_queue = <<>> THEN "idle" ELSE "check")
    /\ UNCHANGED <<state, write_queue, write_in_progress, pending, wire, was_empty,
                   accepted>>

\* ... and failure or abortion: handle_error closes; the message stays in the queue
WriteFails ==
    /\ pending # <<>>
    /\ Goes(Io, "idle", IF state \in Open THEN "close" ELSE "idle")
    /\ write_in_progress' = FALSE
    /\ pending' = Tail(pending)
    /\ UNCHANGED <<state, write_queue, wire, was_empty, accepted>>

\* close: by any thread, or on Io when a read fails or brings a bad header or checksum
close(t) ==
    /\ state \in Open
    /\ Goes(t, "idle", "close")
    /\ UNCHANGED <<state, write_queue, write_in_progress, pending, wire, was_empty,
                   accepted>>

SetClosing(t) ==
    /\ Goes(t, "close", "closed")
    /\ state' = "CLOSING"
    /\ UNCHANGED <<write_queue, write_in_progress, pending, wire, was_empty, accepted>>

SetDisconnected(t) ==
    /\ Goes(t, "closed", "idle")
    /\ state' = "DISCONNECTED"
    /\ UNCHANGED <<write_queue, write_in_progress, pending, wire, was_empty, accepted>>

Writes(t) ==
    SendMessage(t) \/ ReadEmpty(t) \/ Push(t) \/ Kick(t) \/ DoWriteCheck(t) \/ DoWriteStart(t)
Shut(t) == SetClosing(t) \/ SetDisconnected(t)
Complete == WriteDone \/ WriteFails \/ Pop \/ More

ConnectionNext ==
    \/ Complete
    \/ \E t \in Threads : Writes(t) \/ close(t) \/ Shut(t)

ConnectionSpec == ConnectionInit /\ [][ConnectionNext]_writeVars

\* A thread finishes the call it is in, and the io_context runs the handlers; every
\* async_write is over some time, which a peer that goes on reading sees to.  Nobody is
\* obliged to send or to close.
InCall(t) ==
    \/ ReadEmpty(t) \/ Push(t) \/ Kick(t) \/ DoWriteCheck(t) \/ DoWriteStart(t)
    \/ Shut(t)

FairConnectionSpec ==
    ConnectionSpec /\ WF_writeVars(Complete) /\ \A t \in Threads : WF_writeVars(InCall(t))

-----------------------------------------------------------------------------
(***************************************************************************)
(* A message that send_message accepted reaches the wire unless the        *)
(* connection is closed ("Each client should have received the broadcast", *)
(* the test of TcpServer::broadcast_message).                              *)
(***************************************************************************)
AcceptedIsSent ==
    \A m \in 1 .. MaxMessages : accepted >= m ~> (m \in ToSet(wire) \/ state \notin Open)

(***************************************************************************)
(* No message is on the wire twice: the same test counts one message for   *)
(* every client.                                                           *)
(***************************************************************************)
SentOnce == \A i, j \in DOMAIN wire : wire[i] = wire[j] => i = j
=============================================================================
