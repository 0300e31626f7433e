--------------------------- MODULE TransferSession ---------------------------
(***************************************************************************)
(* One TransferSession, its owner and the peers that send chunks.  The     *)
(* owner starts transfers (again on the same object, if it likes), asks    *)
(* for chunks by window or one by one, pauses, resumes and retries.        *)
(* Chunks come in from the network in any order, late, duplicated, damaged *)
(* or from another file: any message the handler can be called with.       *)
(***************************************************************************)
EXTENDS TransferSessionOps, FiniteSetsExt

CONSTANTS
    Files,          \* file identities
    Metas,          \* metadata that start_transfer is called with
    Unset,          \* what the constructor may leave in metadata_: its integers are
                    \* not initialized, its vector of hashes is empty
    Bodies,         \* contents a chunk message can carry
    Sizes,          \* sizes a chunk message can have
    Windows,        \* window_size arguments
    MaxStarts,      \* bound: calls of start_transfer
    MaxBytes        \* bound: bytes_transferred_ may not pass it through duplicates

ASSUME MetasAssumption ==
    /\ Metas \cup Unset \subseteq FileMetadata(Files)
    /\ \A m \in Metas \cup Unset : m.chunk_size > 0
    /\ \A m \in Unset : m.hashed = {}
ASSUME SizesAssumption == Sizes \subseteq Nat /\ Windows \subseteq Nat
ASSUME BoundsAssumption == MaxStarts \in Nat /\ MaxBytes \in Nat

VARIABLES
    session,        \* the session's record
    content,        \* history: the body accepted last for each chunk that had a hash
    starts          \* history: how often start_transfer was called

vars == <<session, content, starts>>

NoBody == <<>>
Indices == 0 .. Capacity     \* one past the last index the bitset has

TypeOK ==
    /\ session \in Session(Metas \cup Unset)
    /\ content \in [Indices -> Bodies \cup {NoBody}]
    /\ starts \in Nat

Init ==
    /\ \E m \in Unset : session = NewSession(m)
    /\ content = [i \in Indices |-> NoBody]
    /\ starts = 0

StartTransfer(m) ==
    /\ starts < MaxStarts
    /\ starts' = starts + 1
    /\ session' = start_transfer(session, m)
    /\ UNCHANGED content

RequestNextChunks(window) ==
    /\ CanRequest(session)
    /\ \E n \in session.next .. LoopLimit(session) :
          /\ LoopStopsAt(session, window, n)
          /\ session' = request_next_chunks(session, window, n)
    /\ UNCHANGED <<content, starts>>

MarkChunkRequested(i) ==
    /\ session' = mark_chunk_requested(session, i)
    /\ UNCHANGED <<content, starts>>

HandleChunkReceived(i, d) ==
    /\ i \in session.received => session.bytes + d.size <= MaxBytes
    /\ session' = handle_chunk_received(session, i, d)
    /\ content' = IF AcceptsChunk(session, i, d) /\ i \in session.meta.hashed
                  THEN [content EXCEPT ![i] = d.body] ELSE content
    /\ UNCHANGED starts

\* mutant: pausing does not look at the state
Bug_Pause ==
    /\ session.state # "PAUSED"
    /\ session' = [session EXCEPT !.state = "PAUSED"]
    /\ UNCHANGED <<content, starts>>

\* set_state, with the guards of its callers pause_transfer and resume_transfer
Pause ==
    /\ session.state = "TRANSFERRING"
    /\ session' = [session EXCEPT !.state = "PAUSED"]
    /\ UNCHANGED <<content, starts>>

Resume ==
    /\ session.state = "PAUSED"
    /\ session' = [session EXCEPT !.state = "TRANSFERRING"]
    /\ UNCHANGED <<content, starts>>

RetryChunk(i) ==
    /\ session' = retry_chunk(session, i)
    /\ UNCHANGED <<content, starts>>

ClockTick ==
    /\ \E i \in session.fresh : session' = expire(session, i)
    /\ UNCHANGED <<content, starts>>

Next ==
    \/ \E m \in Metas : StartTransfer(m)
    \/ \E w \in Windows : RequestNextChunks(w)
    \/ \E i \in Indices : MarkChunkRequested(i)
    \/ \E i \in Indices, d \in [size: Sizes, body: Bodies] : HandleChunkReceived(i, d)
    \/ Pause
    \/ Resume
    \/ \E i \in Indices : RetryChunk(i)
    \/ ClockTick

Spec == Init /\ [][Next]_vars

-----------------------------------------------------------------------------
(***************************************************************************)
(* Fairness: the owner keeps asking while the session lets it, and as long *)
(* as chunks are outstanding some new one arrives that passes the checks.  *)
(***************************************************************************)
DeliverGood(i) ==
    \E d \in [size: Sizes, body: Bodies] :
        /\ i \notin session.received
        /\ AcceptsChunk(session, i, d)
        /\ HandleChunkReceived(i, d)

FairSpec ==
    /\ Spec
    /\ WF_vars(\E w \in Windows \ {0} : RequestNextChunks(w))
    /\ WF_vars(\E i \in Indices : DeliverGood(i))

-----------------------------------------------------------------------------
(***************************************************************************)
(* No chunk falls out of sight: whatever was received had been requested,  *)
(* requests stay inside the file, and every chunk that                     *)
(* next_chunk_to_request_ has passed was requested.  In a file that fits   *)
(* the bitset it is received, or its time is still running, or             *)
(* get_timed_out_chunks reports it; of a larger file that call, which      *)
(* throws, reports nothing.                                                *)
(***************************************************************************)
NoChunkForgotten ==
    /\ session.received \subseteq session.requested
    /\ session.requested \subseteq 0 .. LoopLimit(session) - 1
    /\ 0 .. session.next - 1 \subseteq session.requested
    /\ session.meta.chunk_count <= Capacity =>
          0 .. session.next - 1 \subseteq
             session.received \cup session.fresh \cup get_timed_out_chunks(session)

(***************************************************************************)
(* A COMPLETED session has every chunk of its file, whatever the order,    *)
(* duplication or restarts on the way there: handle_chunk_received decides *)
(* by counting bits.                                                       *)
(***************************************************************************)
CompletedIsWhole ==
    session.state = "COMPLETED" => session.received = 0 .. session.meta.chunk_count - 1

(***************************************************************************)
(* What was accepted for a chunk with a known hash is that chunk of the    *)
(* file now being transferred, also when a message of an earlier transfer  *)
(* on the same session arrives late.                                       *)
(***************************************************************************)
VerifiedContent ==
    \A i \in session.received \cap session.meta.hashed :
        content[i] = <<session.meta.file, i>>

\* Between two calls of start_transfer no received chunk is dropped and a
\* COMPLETED session stays so, although handle_chunk_received, pause and resume
\* test the state differently or not at all.
NoRegress ==
    [][starts' = starts =>
          /\ session.received \subseteq session'.received
          /\ session.state = "COMPLETED" => session'.state = "COMPLETED"]_vars

(***************************************************************************)
(* A started transfer of a non-empty file that fits the bitset completes,  *)
(* is paused, or is replaced by a new start.                               *)
(***************************************************************************)
TransferCompletes ==
    \A k \in 1 .. MaxStarts :
        (/\ starts = k
         /\ session.state \in {"REQUESTING", "TRANSFERRING"}
         /\ session.meta.chunk_count \in 1 .. Capacity)
            ~> (session.state \in {"COMPLETED", "PAUSED"} \/ starts > k)

=============================================================================
