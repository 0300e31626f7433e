-------------------------------- MODULE Wire --------------------------------
(***************************************************************************)
(* The wire formats: how a message becomes a sequence of bytes, and how    *)
(* bytes are read (protocol.cpp, the messages of peer_router.cpp,          *)
(* file_protocol.cpp, file_metadata.cpp).  A byte has Base values; numbers *)
(* keep their width in bytes.  A message is the tuple of its fields.       *)
(*                                                                         *)
(* The three formats differ in the order of the bytes of a number, and in  *)
(* what a reader does when the bytes run out: protocol.cpp and             *)
(* peer_router.cpp throw, file_protocol.cpp goes on with a default value.  *)
(***************************************************************************)
EXTENDS Naturals, FiniteSets, Sequences, SequencesExt

CONSTANTS
    Base,       \* values of a byte
    MaxPayload  \* the largest payload that a connection reads (10 MB)

\* a byte holds every message type that the model has
ASSUME WireAssumption == Base \in Nat /\ Base >= 8 /\ MaxPayload \in Nat

Network == [order |-> "big", lenient |-> FALSE]
Router == [order |-> "little", lenient |-> FALSE]
File == [order |-> "little", lenient |-> TRUE]

\* the kinds of fields: numbers of w bytes, strings and vectors of bytes, lists of tuples
U(w) == [kind |-> "number", width |-> w, of |-> <<>>]
Str == [kind |-> "string", width |-> 0, of |-> <<>>]
List(fields) == [kind |-> "list", width |-> 0, of |-> fields]

-----------------------------------------------------------------------------
(* The fields of the messages, in the order of serialize and deserialize. *)

HandshakeMessage == <<U(4), U(2), Str, U(4)>>
HeartbeatMessage == <<U(8), U(4), U(4)>>
PeerAnnounceMessage == <<U(4), Str, U(2), U(8)>>
FileAnnounceMessage == <<Str, Str, U(8), Str, List(<<Str>>)>>
ChunkRequestMessage == <<Str, U(8), U(4)>>
ChunkDataMessage == <<Str, U(8), Str, Str>>
ErrorMessage == <<U(4), Str, U(8)>>

\* the count comes before the sequence number, the list after the hop count: it is written
\* as a field of its own
RoutingPeer == <<U(4), Str, U(1), U(1), U(4), U(4), U(1), U(4), U(4), U(4), U(4)>>
RouteUpdateMessage == <<U(4), U(4), U(4), U(4), U(1)>>
TopologySyncMessage == <<U(4), U(4), U(4), List(<<U(4)>>)>>
FileQueryMessage == <<Str, Str, U(4), U(4), U(1), List(<<Str>>)>>
FileLocation == <<Str, U(4), Str, U(4), U(4), U(4), U(4), U(4)>>
FileQueryResponseMessage == <<U(4), U(4), List(FileLocation)>>

\* file_protocol.cpp has messages of the same names as protocol.cpp, with the same fields
FileRequestMessage == <<Str, U(8), U(8), U(4)>>
FileMetadata == <<Str, Str, Str, Str, U(8), U(8), U(8), List(<<Str>>), U(4), U(4), Str, Str>>
FileResponseMessage == <<Str, U(1), Str, Str>>      \* accepted; metadata as a vector of bytes
ChunkAckMessage == <<Str, U(8), U(1), Str>>

MessageHeader == <<U(4), U(2), U(1), U(1), U(8), U(4), U(8), U(4)>>
HeaderSize == 32

-----------------------------------------------------------------------------
(* Writing. *)

\* one piece after the other; after[k] is what follows the k-th.  (A recursive function, as
\* the other loops here, for the proofs: they cannot look into the folds of the library.)
Joined(pieces) ==
    LET after[k \in 0..Len(pieces)] ==
            IF k = Len(pieces) THEN <<>> ELSE pieces[k + 1] \o after[k + 1]
    IN  after[0]

\* v shifted to the right by 0 to w bytes
Shifts(w, v) == LET shifted[k \in 0..w] == IF k = 0 THEN v ELSE shifted[k - 1] \div Base
                IN  shifted

Digits(order, w, v) ==
    [i \in 1..w |-> Shifts(w, v)[IF order = "big" THEN w - i ELSE i - 1] % Base]

WriteScalar(codec, field, v) ==
    IF field.kind = "number" THEN Digits(codec.order, field.width, v)
    ELSE Digits(codec.order, 4, Len(v)) \o v

WriteTuple(codec, fields, t) ==
    Joined([i \in DOMAIN fields |-> WriteScalar(codec, fields[i], t[i])])

WriteList(codec, fields, v) == Joined([i \in DOMAIN v |-> WriteTuple(codec, fields, v[i])])

WriteField(codec, field, v) ==
    IF field.kind = "list"
    THEN Digits(codec.order, 4, Len(v)) \o WriteList(codec, field.of, v)
    ELSE WriteScalar(codec, field, v)

serialize(codec, fields, message) ==
    Joined([i \in DOMAIN fields |-> WriteField(codec, fields[i], message[i])])

-----------------------------------------------------------------------------
(* Reading: the value, the bytes that are left, and whether nothing was thrown. *)

Number(order, s) ==
    LET n == Len(s)
        value[k \in 0..n] ==
            IF k = 0 THEN 0
            ELSE value[k - 1] * Base + s[IF order = "big" THEN k ELSE n - k + 1]
    IN  value[n]

From(s, n) == SubSeq(s, n + 1, Len(s))
Default(field) == IF field.kind = "number" THEN 0 ELSE <<>>
Result(ok, value, rest) == [ok |-> ok, value |-> value, rest |-> rest]
Short(codec, field, rest) == Result(codec.lenient, Default(field), rest)

ReadNumber(codec, w, s) ==
    IF Len(s) < w THEN Short(codec, U(w), s)
    ELSE Result(TRUE, Number(codec.order, SubSeq(s, 1, w)), From(s, w))

\* when the characters are missing, the length has been read
ReadScalar(codec, field, s) ==
    IF field.kind = "number" THEN ReadNumber(codec, field.width, s)
    ELSE LET size == ReadNumber(codec, 4, s)
         IN  IF ~size.ok \/ Len(s) < 4 \/ Len(size.rest) < size.value
             THEN Short(codec, field, size.rest)
             ELSE Result(TRUE, SubSeq(size.rest, 1, size.value), From(size.rest, size.value))

\* one thing after the other, until one throws
Then(r, g) == IF ~r.ok THEN r ELSE Result(g.ok, Append(r.value, g.value), g.rest)
InTurn(Read(_, _), things, s) ==
    LET read[k \in 0..Len(things)] ==
            IF k = 0 THEN Result(TRUE, <<>>, s)
            ELSE LET before == read[k - 1] IN Then(before, Read(things[k], before.rest))
    IN  read[Len(things)]

ReadTuple(codec, fields, s) ==
    InTurn(LAMBDA field, rest : ReadScalar(codec, field, rest), fields, s)

\* a field takes at least a byte: a count beyond the bytes that are left throws before the
\* list ends
ReadList(codec, fields, count, s) ==
    IF count * Len(fields) > Len(s) /\ ~codec.lenient THEN Short(codec, List(fields), s)
    ELSE InTurn(LAMBDA i, rest : ReadTuple(codec, fields, rest), [i \in 1..count |-> i], s)

ReadField(codec, field, s) ==
    IF field.kind = "list"
    THEN LET count == ReadNumber(codec, 4, s)
         IN  IF count.ok THEN ReadList(codec, field.of, count.value, count.rest)
             ELSE Short(codec, field, s)
    ELSE ReadScalar(codec, field, s)

deserialize(codec, fields, s) ==
    InTurn(LAMBDA field, rest : ReadField(codec, field, rest), fields, s)

-----------------------------------------------------------------------------
(* Whole messages. *)

\* RouteUpdateMessage: message is its head, with the count second, and the list of peers
WriteRouteUpdate(message) ==
    serialize(Router, RouteUpdateMessage, message[1])
    \o WriteList(Router, RoutingPeer, message[2])

ReadRouteUpdate(s) ==
    LET head == deserialize(Router, RouteUpdateMessage, s)
        peers == ReadList(Router, RoutingPeer, head.value[2], head.rest)
    IN  IF head.ok THEN Result(peers.ok, <<head.value, peers.value>>, peers.rest) ELSE head

\* the message of file_protocol.cpp: its type, its size, and the fields
add_message_header(type, payload) == <<type>> \o Digits("little", 4, Len(payload)) \o payload

\* mutant: the size is not compared with the bytes that came
Bug_extract_payload(s) == IF Len(s) < 5 THEN <<>> ELSE From(s, 5)

extract_payload(s) ==
    IF Len(s) < 5 \/ Len(s) # 5 + Number("little", SubSeq(s, 2, 5)) THEN <<>> ELSE From(s, 5)

\* the structs by name; those of file_protocol.cpp carry a type
Format(codec, fields, type) == [codec |-> codec, fields |-> fields, type |-> type]
Formats ==
    [HandshakeMessage |-> Format(Network, HandshakeMessage, 0),
     HeartbeatMessage |-> Format(Network, HeartbeatMessage, 0),
     PeerAnnounceMessage |-> Format(Network, PeerAnnounceMessage, 0),
     FileAnnounceMessage |-> Format(Network, FileAnnounceMessage, 0),
     ChunkRequestMessage |-> Format(Network, ChunkRequestMessage, 0),
     ChunkDataMessage |-> Format(Network, ChunkDataMessage, 0),
     ErrorMessage |-> Format(Network, ErrorMessage, 0),
     TopologySyncMessage |-> Format(Router, TopologySyncMessage, 0),
     FileQueryMessage |-> Format(Router, FileQueryMessage, 0),
     FileQueryResponseMessage |-> Format(Router, FileQueryResponseMessage, 0),
     file_FileAnnounceMessage |-> Format(File, FileAnnounceMessage, 1),
     file_FileRequestMessage |-> Format(File, FileRequestMessage, 2),
     file_FileResponseMessage |-> Format(File, FileResponseMessage, 3),
     file_ChunkRequestMessage |-> Format(File, ChunkRequestMessage, 4),
     file_ChunkDataMessage |-> Format(File, ChunkDataMessage, 5),
     file_ChunkAckMessage |-> Format(File, ChunkAckMessage, 6)]

EncodeFields(struct, message) ==
    IF struct = "RouteUpdateMessage" THEN WriteRouteUpdate(message)
    ELSE LET f == Formats[struct]
             payload == serialize(f.codec, f.fields, message)
         IN  IF f.codec = File THEN add_message_header(f.type, payload) ELSE payload

DecodeFields(struct, s) ==
    IF struct = "RouteUpdateMessage" THEN ReadRouteUpdate(s)
    ELSE LET f == Formats[struct]
         IN  deserialize(f.codec, f.fields, IF f.codec = File THEN extract_payload(s) ELSE s)

\* a FileResponseMessage that is not accepted: an empty vector is written for its metadata,
\* and the reader leaves the metadata alone
Carried(struct, message) ==
    IF struct = "file_FileResponseMessage" /\ message[2] = 0
    THEN [message EXCEPT ![4] = <<>>] ELSE message

Encode(struct, message) == EncodeFields(struct, Carried(struct, message))

Decode(struct, s) ==
    LET r == DecodeFields(struct, s) IN Result(r.ok, Carried(struct, r.value), r.rest)

\* what the types of the fields hold: a number its width, a string or a list a length of 4
\* bytes; a route update counts its peers
Fits(w, v) == v \in Nat /\ Shifts(w, v)[w] = 0
IsSeq(v) == Len(v) \in Nat /\ v = [i \in 1..Len(v) |-> v[i]]
HoldsScalar(field, v) ==
    IF field.kind = "number" THEN Fits(field.width, v)
    ELSE v \in Seq(0..Base - 1) /\ Fits(4, Len(v))
HoldsTuple(fields, t) ==
    IsSeq(t) /\ Len(t) = Len(fields) /\ \A i \in DOMAIN fields : HoldsScalar(fields[i], t[i])
HoldsList(fields, v) ==
    IsSeq(v) /\ Fits(4, Len(v)) /\ \A i \in DOMAIN v : HoldsTuple(fields, v[i])
HoldsField(field, v) ==
    IF field.kind = "list" THEN HoldsList(field.of, v) ELSE HoldsScalar(field, v)
HoldsFields(fields, message) ==
    IsSeq(message) /\ Len(message) = Len(fields)
    /\ \A i \in DOMAIN fields : HoldsField(fields[i], message[i])
Holds(struct, message) ==
    IF struct = "RouteUpdateMessage"
    THEN /\ IsSeq(message) /\ Len(message) = 2
         /\ HoldsFields(RouteUpdateMessage, message[1])
         /\ HoldsList(RoutingPeer, message[2]) /\ message[1][2] = Len(message[2])
    ELSE struct \in DOMAIN Formats /\ HoldsFields(Formats[struct].fields, message)

\* any function of the payload will do here: neither TCP nor this model alters bytes
Crc(payload) == Cardinality({i \in DOMAIN payload : payload[i] % 2 = 1}) % Base

Magic == 1
Version == 1
Frame(type, payload) ==
    serialize(Network, MessageHeader, <<Magic, Version, type, 0, 0, Len(payload), 0, Crc(payload)>>)
    \o payload

\* the fields of a header that a reader looks at
Header(s) ==
    LET h == deserialize(Network, MessageHeader, SubSeq(s, 1, HeaderSize)).value
    IN  [is_valid |-> h[1] = Magic /\ h[2] = Version, type |-> h[3], size |-> h[6], checksum |-> h[8]]

verify_checksum(header, payload) == header.checksum = Crc(payload)

\* MessageSerializer::deserialize_message, which throws unless all of the message is there
deserialize_message(s) ==
    IF Len(s) < HeaderSize THEN Result(FALSE, <<>>, s)
    ELSE LET header == Header(s)
             payload == SubSeq(s, HeaderSize + 1, HeaderSize + header.size)
         IN  IF /\ header.is_valid
                /\ Len(s) >= HeaderSize + header.size
                /\ header.size > 0 => verify_checksum(header, payload)
             THEN Result(TRUE, <<header, payload>>, From(s, HeaderSize + header.size))
             ELSE Result(FALSE, <<>>, s)
=============================================================================
