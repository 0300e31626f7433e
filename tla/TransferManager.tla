--------------------------- MODULE TransferManager ---------------------------
(***************************************************************************)
(* Class TransferManager (transfer_manager.cpp): the table of sessions     *)
(* behind sessions_mutex_, one action per public call.  The table is       *)
(* private and no method of the manager calls start_transfer, so a session *)
(* in it keeps the uninitialized metadata_ it was constructed with.        *)
(***************************************************************************)
EXTENDS TransferSessionOps, FiniteSetsExt, Functions

CONSTANTS
    SessionIds,     \* values of generate_session_id
    Files,          \* file identities
    Unset,          \* what the constructor may leave in metadata_
    Bodies,         \* contents a chunk message can carry
    Sizes,          \* sizes a chunk message can have
    Limits,         \* arguments of set_max_concurrent_transfers
    DefaultLimit,   \* max_concurrent_transfers_ after construction (10 in the code)
    MaxTotal        \* bound: total_bytes_transferred_

ASSUME UnsetAssumption ==
    /\ Unset \subseteq FileMetadata(Files)
    /\ \A m \in Unset : m.chunk_size > 0 /\ m.hashed = {}
ASSUME LimitsAssumption == Limits \subseteq Nat /\ DefaultLimit \in Nat
ASSUME SizesAssumption == Sizes \subseteq Nat /\ MaxTotal \in Nat

VARIABLES
    active_sessions,    \* session id -> session record, for the ids in the table
    max_concurrent,     \* max_concurrent_transfers_
    total_bytes,        \* total_bytes_transferred_
    last,               \* the last call, its session id and whether it succeeded
    retired             \* history: bytes of sessions cancelled or overwritten

vars == <<active_sessions, max_concurrent, total_bytes, last, retired>>

Ids == DOMAIN active_sessions

BytesOf(id) == IF id \in Ids THEN active_sessions[id].bytes ELSE 0

\* the public calls, and none yet
Calls == {"", "start", "pause", "resume", "cancel", "chunk_request", "chunk_received",
          "set_max"}

TypeOK ==
    /\ Ids \subseteq SessionIds
    /\ active_sessions \in [Ids -> Session(Unset)]
    /\ max_concurrent \in Limits \cup {DefaultLimit}
    /\ total_bytes \in Nat
    /\ last \in [call: Calls, id: SessionIds \cup {""}, ok: BOOLEAN]
    /\ retired \in Nat

Init ==
    /\ active_sessions = <<>>
    /\ max_concurrent = DefaultLimit
    /\ total_bytes = 0
    /\ last = [call |-> "", id |-> "", ok |-> TRUE]
    /\ retired = 0

Returns(call, id, ok) == last' = [call |-> call, id |-> id, ok |-> ok]

can_start_new_transfer == Cardinality(Ids) < max_concurrent

\* start_download and start_upload: operator[] replaces a session with the same id
Start(id, m) ==
    /\ can_start_new_transfer
    /\ active_sessions' = [x \in Ids \cup {id} |->
                              IF x = id THEN NewSession(m) ELSE active_sessions[x]]
    /\ retired' = retired + BytesOf(id)
    /\ Returns("start", id, TRUE)
    /\ UNCHANGED <<max_concurrent, total_bytes>>

StartRefused ==
    /\ ~can_start_new_transfer
    /\ Returns("start", "", FALSE)
    /\ UNCHANGED <<active_sessions, max_concurrent, total_bytes, retired>>

\* pause_transfer and resume_transfer: only from the state they expect
SwitchState(call, id, from, to) ==
    /\ LET done == id \in Ids /\ active_sessions[id].state = from
       IN  /\ active_sessions' = IF done THEN [active_sessions EXCEPT ![id].state = to]
                                 ELSE active_sessions
           /\ Returns(call, id, done)
    /\ UNCHANGED <<max_concurrent, total_bytes, retired>>

pause_transfer(id) == SwitchState("pause", id, "TRANSFERRING", "PAUSED")
resume_transfer(id) == SwitchState("resume", id, "PAUSED", "TRANSFERRING")

cancel_transfer(id) ==
    /\ active_sessions' = Restrict(active_sessions, Ids \ {id})
    /\ retired' = retired + BytesOf(id)
    /\ Returns("cancel", id, id \in Ids)
    /\ UNCHANGED <<max_concurrent, total_bytes>>

\* bitset::set throws: the call does not return
SetThrows(s, i) == Capacity <= i /\ i < s.meta.chunk_count

handle_chunk_request(id, i) ==
    /\ active_sessions' = IF id \in Ids
                          THEN [active_sessions EXCEPT ![id] = mark_chunk_requested(@, i)]
                          ELSE active_sessions
    /\ Returns("chunk_request", id, id \in Ids /\ ~SetThrows(active_sessions[id], i))
    /\ UNCHANGED <<max_concurrent, total_bytes, retired>>

\* mutant: the bytes of a refused chunk count in the total
Bug_HandleChunkReceived(id, i, d) ==
    /\ total_bytes + d.size <= MaxTotal
    /\ id \in Ids
    /\ active_sessions' = [active_sessions EXCEPT ![id] = handle_chunk_received(@, i, d)]
    /\ total_bytes' = total_bytes + d.size
    /\ Returns("chunk_received", id, TRUE)
    /\ UNCHANGED <<max_concurrent, retired>>

HandleChunkReceived(id, i, d) ==
    /\ total_bytes + d.size <= MaxTotal
    /\ id \in Ids
    /\ LET ok == AcceptsChunk(active_sessions[id], i, d)
           s == handle_chunk_received(active_sessions[id], i, d)
       IN  /\ active_sessions' = [active_sessions EXCEPT ![id] =
                                     IF ok /\ is_complete(s)
                                     THEN [s EXCEPT !.state = "COMPLETED"] ELSE s]
           /\ total_bytes' = IF ok THEN total_bytes + d.size ELSE total_bytes
           /\ Returns("chunk_received", id, ok)
    /\ UNCHANGED <<max_concurrent, retired>>

\* a chunk for a session that is not, or no longer, in the table
ChunkForNobody(id) ==
    /\ id \notin Ids
    /\ Returns("chunk_received", id, FALSE)
    /\ UNCHANGED <<active_sessions, max_concurrent, total_bytes, retired>>

set_max_concurrent_transfers(n) ==
    /\ max_concurrent' = n
    /\ Returns("set_max", "", TRUE)
    /\ UNCHANGED <<active_sessions, total_bytes, retired>>

Next ==
    \/ \E id \in SessionIds, m \in Unset : Start(id, m)
    \/ StartRefused
    \/ \E id \in SessionIds :
          \/ pause_transfer(id)
          \/ resume_transfer(id)
          \/ cancel_transfer(id)
          \/ \E i \in 0 .. Capacity : handle_chunk_request(id, i)
          \/ \E i \in 0 .. Capacity, d \in [size: Sizes, body: Bodies] :
                HandleChunkReceived(id, i, d)
          \/ ChunkForNobody(id)
    \/ \E n \in Limits : set_max_concurrent_transfers(n)

Spec == Init /\ [][Next]_vars

-----------------------------------------------------------------------------
(***************************************************************************)
(* total_bytes_transferred_ is the sum over every session there ever was:  *)
(* the ones in the table and the ones cancelled or replaced under a        *)
(* repeated id.                                                            *)
(***************************************************************************)
TotalIsSum ==
    total_bytes = retired + MapThenSumSet(LAMBDA id : active_sessions[id].bytes, Ids)

(***************************************************************************)
(* What the test TransferManager_PauseResume expects: a transfer that was  *)
(* just started can be paused.                                             *)
(***************************************************************************)
StartedCanPause ==
    [][last.call = "start" /\ last.ok /\ last'.call = "pause" /\ last'.id = last.id
          => last'.ok]_vars

(***************************************************************************)
(* No session of the manager is ever REQUESTING, TRANSFERRING or PAUSED:   *)
(* start_download and start_upload leave it INACTIVE, and it gets from     *)
(* there to COMPLETED without having been started.  So every pause and     *)
(* resume is refused and get_active_transfer_count is always 0.            *)
(***************************************************************************)
NeverTransferring ==
    /\ \A id \in Ids : active_sessions[id].state \in {"INACTIVE", "COMPLETED"}
    /\ last.call \in {"pause", "resume"} => ~last.ok
=============================================================================
