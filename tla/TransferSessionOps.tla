------------------------- MODULE TransferSessionOps -------------------------
(***************************************************************************)
(* The operations of class TransferSession (transfer_session.cpp) as       *)
(* operators on one session's record.  TransferSession.tla runs them on a  *)
(* session held by its owner, TransferManager.tla on the sessions held by  *)
(* the manager.                                                            *)
(*                                                                         *)
(* A chunk's bytes are abstracted to their size and to a body; the bytes   *)
(* of chunk i of file f are the body <<f, i>>, and a hash agrees with a    *)
(* body exactly when it was computed from it.                              *)
(***************************************************************************)
EXTENDS Integers, FiniteSets

CONSTANT Capacity       \* bits in std::bitset<1024> requested_chunks_

ASSUME CapacityAssumption == Capacity \in Nat \ {0}

TransferState == {"INACTIVE", "REQUESTING", "TRANSFERRING", "PAUSED",
                  "COMPLETED", "FAILED", "CANCELLED"}

(***************************************************************************)
(* The fields of FileMetadata that a session reads.  hashed is the set of  *)
(* chunk indices for which chunk_hashes holds a hash.                      *)
(***************************************************************************)
FileMetadata(Files) ==
    [file: Files, chunk_count: Nat, chunk_size: Nat, file_size: Nat, hashed: SUBSET Nat]

(***************************************************************************)
(* fresh holds the indices whose chunk_request_times_ entry is at most     *)
(* chunk_timeout_ old.                                                     *)
(***************************************************************************)
Session(Metas) ==
    [state: TransferState, meta: Metas, requested: SUBSET Nat, received: SUBSET Nat,
     next: Nat, bytes: Nat, fresh: SUBSET Nat]

\* mutant: the constructor leaves state_ uninitialized
Bug_NewSession(m) ==
    [state |-> "UNSET", meta |-> m, requested |-> {}, received |-> {},
     next |-> 0, bytes |-> 0, fresh |-> {}]

NewSession(m) ==
    [state |-> "INACTIVE", meta |-> m, requested |-> {}, received |-> {},
     next |-> 0, bytes |-> 0, fresh |-> {}]

start_transfer(s, m) ==
    [state |-> "REQUESTING", meta |-> m, requested |-> {}, received |-> {},
     next |-> 0, bytes |-> 0, fresh |-> s.fresh \cap (0 .. m.chunk_count - 1)]

is_complete(s) ==
    s.state = "COMPLETED" \/ Cardinality(s.received) = s.meta.chunk_count

\* bitset::set throws past the capacity; before that nothing has changed
mark_chunk_requested(s, i) ==
    IF i < s.meta.chunk_count /\ i < Capacity
    THEN [s EXCEPT !.requested = @ \cup {i}, !.fresh = @ \cup {i}]
    ELSE s

-----------------------------------------------------------------------------
(***************************************************************************)
(* request_next_chunks(window): the loop that moves next_chunk_to_request_ *)
(* over the file, asks for what is neither requested nor received, and     *)
(* stops after window requests or at the end of the file.  At index        *)
(* Capacity bitset::test throws: the requests made so far stay, the change *)
(* of state after the loop is skipped.                                     *)
(***************************************************************************)
LoopLimit(s) ==
    IF s.meta.chunk_count <= Capacity THEN s.meta.chunk_count ELSE Capacity

\* what the loop has asked for when next_chunk_to_request_ has reached n
AskedUpTo(s, n) == (s.next .. n - 1) \ (s.requested \cup s.received)

LoopStopsAt(s, window, n) ==
    LET asked == Cardinality(AskedUpTo(s, n))
    IN  \/ asked = window /\ (n = s.next \/ n - 1 \in AskedUpTo(s, n))
        \/ asked < window /\ n = LoopLimit(s)

LoopThrows(s, window, n) ==
    Cardinality(AskedUpTo(s, n)) < window /\ s.meta.chunk_count > Capacity

CanRequest(s) == s.state \in {"REQUESTING", "TRANSFERRING"}

\* mutant: the cursor passes the last chunk of the window without marking it
Bug_request_next_chunks(s, window, n) ==
    [s EXCEPT !.requested = @ \cup (AskedUpTo(s, n) \ {n - 1}),
              !.fresh = @ \cup AskedUpTo(s, n),
              !.next = n,
              !.state = IF @ = "REQUESTING" /\ AskedUpTo(s, n) # {} THEN "TRANSFERRING" ELSE @]

request_next_chunks(s, window, n) ==
    [s EXCEPT !.requested = @ \cup AskedUpTo(s, n),
              !.fresh = @ \cup AskedUpTo(s, n),
              !.next = n,
              !.state = IF @ = "REQUESTING" /\ AskedUpTo(s, n) # {} /\ ~LoopThrows(s, window, n)
                        THEN "TRANSFERRING" ELSE @]

-----------------------------------------------------------------------------
(***************************************************************************)
(* handle_chunk_received: every check of the handler, in order, then the   *)
(* bookkeeping.  There is no test of the state and none for a chunk that   *)
(* was received before.                                                    *)
(***************************************************************************)
ExpectedSize(m, i) ==
    LET remainder == m.file_size % m.chunk_size
    IN  IF i = m.chunk_count - 1 /\ remainder # 0 THEN remainder ELSE m.chunk_size

\* mutant: the hash of the last chunk is not compared
Bug_validate_chunk(m, i, d) ==
    i \in m.hashed /\ i # m.chunk_count - 1 => d.body = <<m.file, i>>

validate_chunk(m, i, d) == i \in m.hashed => d.body = <<m.file, i>>

\* mutant: a chunk need not have been requested
Bug_AcceptsChunk(s, i, d) ==
    /\ i < s.meta.chunk_count
    /\ d.size = ExpectedSize(s.meta, i)
    /\ validate_chunk(s.meta, i, d)

AcceptsChunk(s, i, d) ==
    /\ i < s.meta.chunk_count
    /\ i \in s.requested
    /\ d.size = ExpectedSize(s.meta, i)
    /\ validate_chunk(s.meta, i, d)

\* mutant: the last index ends the transfer
Bug_LastIndexCompletes(s, i, d) ==
    IF AcceptsChunk(s, i, d)
    THEN [s EXCEPT !.received = @ \cup {i},
                   !.bytes = @ + d.size,
                   !.state = IF i = s.meta.chunk_count - 1 THEN "COMPLETED" ELSE @]
    ELSE s

handle_chunk_received(s, i, d) ==
    IF AcceptsChunk(s, i, d)
    THEN LET got == s.received \cup {i}
         IN  [s EXCEPT !.received = got,
                       !.bytes = @ + d.size,
                       !.state = IF Cardinality(got) = s.meta.chunk_count
                                 THEN "COMPLETED" ELSE @]
    ELSE s

-----------------------------------------------------------------------------
\* at index Capacity is_chunk_requested throws, and nothing is reported
get_timed_out_chunks(s) ==
    IF s.meta.chunk_count > Capacity THEN {} ELSE (s.requested \ s.received) \ s.fresh

retry_chunk(s, i) ==
    IF i < s.meta.chunk_count THEN [s EXCEPT !.fresh = @ \cup {i}] ELSE s

\* the clock: the request time of a chunk becomes older than the timeout
expire(s, i) == [s EXCEPT !.fresh = @ \ {i}]
=============================================================================
