----------------------------- MODULE ChunkFiles -----------------------------
(***************************************************************************)
(* How a file is cut into chunks and put together again: the pure part of  *)
(* ChunkManager (chunk_manager.cpp) and FileMetadata (file_metadata.cpp).  *)
(* The content of a file is a sequence of units, its hash is the content   *)
(* itself (no collisions), and the hash of a chunk is the chunk's content. *)
(* Chunks are counted from 0, as in the code.                              *)
(***************************************************************************)
EXTENDS Integers, Sequences, SequencesExt

CONSTANT ChunkSize      \* chunk_size_ (65536 bytes in the code)

ASSUME ChunkSizeAssumption == ChunkSize \in Nat \ {0}

\* mutant: the short last chunk is dropped
Bug_split_file(content) ==
    [k \in 1 .. Len(content) \div ChunkSize |->
        SubSeq(content, (k - 1) * ChunkSize + 1, k * ChunkSize)]

Lesser(a, b) == IF a < b THEN a ELSE b

\* split_file, and get_chunk_hashes, whose hashes are the chunks here
split_file(content) ==
    [k \in 1 .. (Len(content) + ChunkSize - 1) \div ChunkSize |->
        SubSeq(content, (k - 1) * ChunkSize + 1, Lesser(k * ChunkSize, Len(content)))]

\* FileMetadata::total_chunks: from the size alone
total_chunks(meta) == (meta.file_size + ChunkSize - 1) \div ChunkSize

\* FileMetadata::is_complete: an empty file never is
metadata_complete(meta) ==
    meta.chunk_hashes # <<>> /\ Len(meta.chunk_hashes) = total_chunks(meta)

\* FileMetadata::get_chunk_size: chunk_count - 1 wraps for a file with no chunk, and
\* every index is then below it
get_chunk_size(meta, i) ==
    LET count == Len(meta.chunk_hashes)
        rest == meta.file_size % ChunkSize
    IN  IF count = 0 \/ i < count - 1 THEN ChunkSize
        ELSE IF i # count - 1 THEN 0
        ELSE IF rest = 0 THEN ChunkSize ELSE rest

verify_chunk(data, expected_hash) == data = expected_hash
=============================================================================
