------------------------------- MODULE Stream -------------------------------
(***************************************************************************)
(* The reading side of class Connection (connection.cpp), on the bytes     *)
(* that another node wrote to the same TCP connection, and the dispatch of *)
(* what was read (MessageHandler::handle_message, with the handlers that   *)
(* ConnectionManager::start registers).  TCP delivers bytes in order; the  *)
(* peer can die after any byte.  The writing side is in Connection.        *)
(***************************************************************************)
EXTENDS Wire

CONSTANTS
    Messages,   \* what a peer may send: [type, struct, value]
    MaxSent     \* bound on the messages of a connection

\* the types for which ConnectionManager::start registers a handler, with the struct that
\* the handler reads
HANDSHAKE == 1
HANDSHAKE_ACK == 2
HEARTBEAT == 3
FILE_ANNOUNCE == 4
ROUTE_UPDATE == 5
TOPOLOGY_SYNC == 6
UNHANDLED == 7      \* any type without a handler
handlers ==
    <<"HandshakeMessage", "HandshakeMessage", "HeartbeatMessage", "FileAnnounceMessage",
      "RouteUpdateMessage", "TopologySyncMessage">>

\* what is written fits the fields of the message and of the header; what goes under the type
\* of another struct does not happen to be the bytes of one
ASSUME MessagesAssumption ==
    \A m \in Messages :
        LET bytes == Encode(m.struct, m.value)
        IN  /\ m.type \in 0..Base - 1 /\ Holds(m.struct, m.value) /\ Fits(4, Len(bytes))
            /\ m.type \in DOMAIN handlers /\ handlers[m.type] # m.struct =>
                  ~Decode(handlers[m.type], bytes).ok

VARIABLES
    sent,       \* the messages the peer sent
    stream,     \* bytes written and not read yet
    peer,       \* "open", or "gone" (the connection ends after the stream), or "foreign"
    reading,    \* "header", "payload" or "closed"
    header,     \* read_header_buffer_
    handed      \* what the handlers were called with

streamVars == <<sent, stream, peer, reading, header, handed>>

NoHeader == <<>>

StreamInit ==
    /\ sent = <<>> /\ stream = <<>> /\ peer = "open"
    /\ reading = "header" /\ header = NoHeader /\ handed = <<>>

-----------------------------------------------------------------------------
(* The peer. *)

\* Connection::send_message: header and payload in one piece, whatever its size
send_message(m) ==
    /\ peer = "open" /\ Len(sent) < MaxSent
    /\ sent' = Append(sent, m)
    /\ stream' = stream \o Frame(m.type, Encode(m.struct, m.value))
    /\ UNCHANGED <<peer, reading, header, handed>>

\* the peer dies: the last bytes it wrote may never arrive
PeerDies(n) ==
    /\ peer = "open"
    /\ peer' = "gone"
    /\ stream' = SubSeq(stream, 1, n)
    /\ UNCHANGED <<sent, reading, header, handed>>

\* a program that does not speak the protocol, or another version of it, or gets the
\* checksum of its payload wrong
Foreign(magic, version) ==
    /\ peer = "open" /\ sent = <<>>
    /\ peer' = "foreign"
    /\ stream' = serialize(Network, MessageHeader, <<magic, version, HEARTBEAT, 0, 0, 1, 0, 0>>)
                 \o <<1>>
    /\ UNCHANGED <<sent, reading, header, handed>>

-----------------------------------------------------------------------------
(* The io thread. *)

Close == reading' = "closed" /\ UNCHANGED <<sent, peer, handed>>

\* mutant: what was read before the bytes ran out is handed over
Bug_handle_message(type, payload) ==
    handed' = IF type \in DOMAIN handlers
              THEN Append(handed, <<type, Decode(handlers[type], payload).value>>)
              ELSE handed

\* an exception of a handler is caught and logged: the connection goes on
handle_message(type, payload) ==
    handed' = IF type \in DOMAIN handlers /\ Decode(handlers[type], payload).ok
              THEN Append(handed, <<type, Decode(handlers[type], payload).value>>)
              ELSE handed

HeaderRead == reading = "header" /\ Len(stream) >= HeaderSize

\* a payload follows, or the message is complete
do_read_header ==
    /\ HeaderRead /\ Header(stream).is_valid /\ Header(stream).size <= MaxPayload
    /\ header' = SubSeq(stream, 1, HeaderSize)
    /\ stream' = From(stream, HeaderSize)
    /\ IF Header(stream).size > 0 THEN reading' = "payload" /\ UNCHANGED handed
       ELSE handle_message(Header(stream).type, <<>>) /\ UNCHANGED reading
    /\ UNCHANGED <<sent, peer>>

RejectHeader ==
    /\ HeaderRead
    /\ ~Header(stream).is_valid \/ Header(stream).size > MaxPayload
    /\ Close
    /\ UNCHANGED <<stream, header>>

Payload == SubSeq(stream, 1, Header(header).size)

do_read_payload ==
    /\ reading = "payload" /\ Len(stream) >= Header(header).size
    /\ verify_checksum(Header(header), Payload)
    /\ stream' = From(stream, Header(header).size)
    /\ handle_message(Header(header).type, Payload)
    /\ reading' = "header"
    /\ UNCHANGED <<sent, peer, header>>

RejectPayload ==
    /\ reading = "payload" /\ Len(stream) >= Header(header).size
    /\ ~verify_checksum(Header(header), Payload)
    /\ Close
    /\ UNCHANGED <<stream, header>>

\* handle_error: the rest of a message never comes
EndOfStream ==
    /\ peer = "gone" /\ reading # "closed"
    /\ Len(stream) < IF reading = "header" THEN HeaderSize ELSE Header(header).size
    /\ Close
    /\ UNCHANGED <<stream, header>>

-----------------------------------------------------------------------------
Read == do_read_header \/ RejectHeader \/ do_read_payload \/ RejectPayload \/ EndOfStream

StreamNext ==
    \/ \E m \in Messages : send_message(m)
    \/ \E n \in 0..Len(stream) : PeerDies(n)
    \/ \E h \in {<<0, Version>>, <<Magic, 2>>, <<Magic, Version>>} : Foreign(h[1], h[2])
    \/ Read

StreamSpec == StreamInit /\ [][StreamNext]_streamVars

-----------------------------------------------------------------------------
\* the messages that the peer sent under the type of their struct
Genuine(m) == m.type \in DOMAIN handlers /\ handlers[m.type] = m.struct
GenuineIn(messages) ==
    LET genuine[k \in 0..Len(messages)] ==
            IF k = 0 THEN <<>>
            ELSE LET m == messages[k]
                 IN  IF Genuine(m) THEN Append(genuine[k - 1], <<m.type, m.value>>)
                     ELSE genuine[k - 1]
    IN  genuine
GenuineSent == GenuineIn(sent)[Len(sent)]

(***************************************************************************)
(* The handlers get what the peer sent, value for value and in order,      *)
(* wherever the connection broke and whatever came between: a message      *)
(* without a handler, one that is too large, a file query, which           *)
(* PeerRouter sends under the type of a route update and whose bytes the   *)
(* handler reads as one.  Once everything was read nothing is missing.     *)
(***************************************************************************)
HandedAsSent ==
    /\ IsPrefix(handed, GenuineSent)
    /\ stream = <<>> /\ reading = "header" /\ peer = "open" => handed = GenuineSent

(***************************************************************************)
(* A connection is a channel from the sender of a message to its handler,  *)
(* through the bytes of TCP, for the messages that have one.               *)
(***************************************************************************)
Calls == {<<m.type, m.value>> : m \in {m \in Messages : Genuine(m)}}
ToHandlers == INSTANCE Channel WITH Things <- Calls, put <- GenuineSent, got <- handed
ChannelSpec == ToHandlers!Spec

(***************************************************************************)
(* A message that was cut is never taken for another message: protocol.cpp *)
(* and peer_router.cpp throw, MessageSerializer throws for a cut frame,    *)
(* and file_protocol.cpp, which does not throw (CutThrows), takes no byte  *)
(* of it.  The whole message gives back what was written, but for the      *)
(* metadata of a request that was not accepted.  (Any message can be the   *)
(* first of a connection.)                                                 *)
(***************************************************************************)
Blank(struct) == [i \in DOMAIN Formats[struct].fields |-> Default(Formats[struct].fields[i])]
ReadWholeOrNot(m) ==
    LET bytes == Encode(m.struct, m.value)
        frame == Frame(m.type, bytes)
    IN  /\ Decode(m.struct, bytes).ok /\ Decode(m.struct, bytes).value = Carried(m.struct, m.value)
        /\ deserialize_message(frame).ok
        /\ \A n \in 0..Len(bytes) - 1 :
              LET cut == Decode(m.struct, SubSeq(bytes, 1, n))
              IN  IF m.struct \in DOMAIN Formats /\ Formats[m.struct].codec = File
                  THEN cut.value = Blank(m.struct) ELSE ~cut.ok
        /\ \A n \in 0..Len(frame) - 1 : ~deserialize_message(SubSeq(frame, 1, n)).ok
WholeOrNothing == [][sent' # sent /\ sent = <<>> => ReadWholeOrNot(Last(sent'))]_streamVars

(***************************************************************************)
(* Every reader throws when a message was cut, those of file_protocol.cpp  *)
(* too, as its tests of truncated and of empty messages expect.            *)
(***************************************************************************)
CutThrows ==
    [][sent' # sent /\ sent = <<>> =>
          LET m == Last(sent')
              bytes == Encode(m.struct, m.value)
          IN  \A n \in 0..Len(bytes) - 1 : ~Decode(m.struct, SubSeq(bytes, 1, n)).ok]_streamVars
=============================================================================
