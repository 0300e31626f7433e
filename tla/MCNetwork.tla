------------------------------ MODULE MCNetwork ------------------------------
(* The tables of the routers, the reading side of a connection with dispatch,  *)
(* and the message queue share no state: `moving` says which of them takes the *)
(* steps of a behaviour, so that one run explores each.  The reading side gets *)
(* one message of every kind that the code can write, in pairs; six messages   *)
(* go through each queue of the message queue.                                 *)
EXTENDS MCPeerRouting, Stream, MessageQueue

VARIABLE moving

M(type, struct, value) == [type |-> type, struct |-> struct, value |-> value]
str == <<3>>        \* a string
Metadata == serialize(File, FileMetadata, <<str, str, str, str, 1, 2, 3, <<<<str>>, <<str>>>>, 4, 2, str, <<>>>>)
Peer == <<2, str, 0, 5, 0, 7, 1, 3, 1, 0, 4>>
Location == <<str, 1, str, 0, 2, 0, 1, 5>>

MCMessages ==
    {M(HANDSHAKE, "HandshakeMessage", <<9, 8, str, 1>>),
     M(HANDSHAKE_ACK, "HandshakeMessage", <<1, 8, <<>>, 0>>),
     M(HEARTBEAT, "HeartbeatMessage", <<513, 1, 0>>),
     M(FILE_ANNOUNCE, "FileAnnounceMessage", <<str, <<3, 4>>, 9, str, <<<<str>>, <<<<>>>>>>>>),
     M(ROUTE_UPDATE, "RouteUpdateMessage", <<<<1, 2, 0, 5, 0>>, <<Peer, Peer>>>>),
     M(ROUTE_UPDATE, "RouteUpdateMessage", <<<<1, 0, 0, 5, 0>>, <<>>>>),
     M(TOPOLOGY_SYNC, "TopologySyncMessage", <<1, 0, 5, <<<<2>>, <<3>>>>>>),
     M(ROUTE_UPDATE, "FileQueryMessage", <<str, str, 1, 6, 0, <<<<str>>>>>>),
     M(ROUTE_UPDATE, "FileQueryResponseMessage", <<6, 2, <<Location>>>>),
     M(UNHANDLED, "ChunkRequestMessage", <<str, 1, 4>>),
     M(UNHANDLED, "ChunkDataMessage", <<str, 1, [i \in 1..MaxPayload |-> 2], str>>),
     M(UNHANDLED, "ErrorMessage", <<4, str, 1>>),
     M(UNHANDLED, "PeerAnnounceMessage", <<9, str, 8, 1>>),
     M(UNHANDLED, "file_FileAnnounceMessage", <<str, str, 9, str, <<<<str>>>>>>),
     M(UNHANDLED, "file_FileRequestMessage", <<str, 0, 9, 4>>),
     M(UNHANDLED, "file_FileResponseMessage", <<str, 1, <<>>, Metadata>>),
     M(UNHANDLED, "file_FileResponseMessage", <<str, 0, str, <<1>>>>),
     M(UNHANDLED, "file_ChunkRequestMessage", <<str, 1, 4>>),
     M(UNHANDLED, "file_ChunkDataMessage", <<str, 1, <<1, 2>>, str>>),
     M(UNHANDLED, "file_ChunkAckMessage", <<str, 1, 1, <<>>>>)}

MCInit == moving \in {"routes", "reads", "queue"} /\ Init /\ StreamInit /\ QueueInit

MCNext ==
    \/ moving = "routes" /\ Next /\ UNCHANGED <<moving, streamVars, queueVars>>
    \/ moving = "reads" /\ StreamNext /\ UNCHANGED <<moving, vars, queueVars>>
    \/ moving = "queue" /\ QueueNext /\ UNCHANGED <<moving, vars, streamVars>>

MCSpec == MCInit /\ [][MCNext]_<<moving, vars, streamVars, queueVars>>
==============================================================================
