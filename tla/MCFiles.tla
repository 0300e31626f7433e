------------------------------- MODULE MCFiles -------------------------------
(* The table of sessions, the flow controllers, the bandwidth limiter, the    *)
(* index and the chunk files share no state: `moving` says which of them      *)
(* takes the steps of a behaviour, so that one run explores each.             *)
(* The table: three session ids, a limit that moves between 1 and 2, and      *)
(* three values the uninitialized metadata can have.  A bucket of two or four *)
(* bytes at one or three bytes in two milliseconds.  The index: an empty      *)
(* file, a file of one chunk and one of two chunks, the second one short and  *)
(* the first one the chunk of the other file.  The chunk files: the two-chunk *)
(* file, written by two threads with right and with misplaced data.           *)
EXTENDS TransferManager, FlowController, BandwidthLimiter, Storage, ChunkManager, TLC

VARIABLE moving

Meta(count, size) ==
    [file |-> "f", chunk_count |-> count, chunk_size |-> 2, file_size |-> size, hashed |-> {}]

MCUnset == {Meta(0, 0), Meta(2, 3), Meta(3, 6)}

MCContents == {<<>>, <<"a", "b">>, <<"a", "b", "c">>}
MCContent == <<"a", "b", "c">>
MCChunkData == {<<"a", "b">>, <<"c">>}

\* what stands still starts in one state
MCInit ==
    /\ moving \in {"table", "flow", "bucket", "index", "chunks"}
    /\ Init /\ FlowInit /\ BucketInit /\ IndexInit /\ ChunkInit
    /\ moving # "bucket" => max_bandwidth = 1 /\ bucket_capacity = 2
    /\ moving # "index" => \A q \in Paths : disk[q] = <<>>

MCNext ==
    \/ moving = "table" /\ Next
       /\ UNCHANGED <<moving, flowVars, bucketVars, indexVars, chunkVars>>
    \/ moving = "flow" /\ FlowNext
       /\ UNCHANGED <<moving, vars, bucketVars, indexVars, chunkVars>>
    \/ moving = "bucket" /\ BucketNext
       /\ UNCHANGED <<moving, vars, flowVars, indexVars, chunkVars>>
    \/ moving = "index" /\ IndexNext
       /\ UNCHANGED <<moving, vars, flowVars, bucketVars, chunkVars>>
    \/ moving = "chunks" /\ ChunkNext
       /\ UNCHANGED <<moving, vars, flowVars, bucketVars, indexVars>>

MCSpec == MCInit /\ [][MCNext]_<<moving, vars, flowVars, bucketVars, indexVars, chunkVars>>

\* the processes run the same code and no property names one of them
MCSymmetry == Permutations(Procs)
==============================================================================
