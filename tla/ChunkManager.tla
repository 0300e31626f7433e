---------------------------- MODULE ChunkManager ----------------------------
(***************************************************************************)
(* The chunk files of ChunkManager (chunk_manager.cpp): write_chunk,       *)
(* read_chunk and merge_chunks of one file.  The class has no lock, so the *)
(* writes of several threads and the reads of a merge interleave: each     *)
(* opening and write of a chunk file is a step, and a read is two: it      *)
(* takes the size of the file, then reads that much without a check.       *)
(***************************************************************************)
EXTENDS ChunkFiles

CONSTANTS
    Writers,        \* threads that write chunks
    Content,        \* the file whose chunks are stored
    ChunkData,         \* data a writer can be given: the right chunk, or another one
    Zero            \* what stands in a buffer that nothing was read into

ASSUME ChunksAssumption ==
    Content \in Seq(STRING) /\ ChunkData \subseteq Seq(STRING) /\ Zero \in STRING

VARIABLES
    store,          \* chunk index -> content of its chunk file, for the files that exist
    writer,         \* writer -> the chunk it has open and the data for it, or NotWriting
    merge,          \* the call of merge_chunks that runs
    output          \* content of the output file

chunkVars == <<store, writer, merge, output>>

Hashes == split_file(Content)
Total == Len(Hashes)
Indexes == 0 .. Total - 1

NotWriting == [i |-> -1, data |-> <<>>]

\* "sized": the call has the size of chunk `next` and is about to read it.  History: sound
\* says that each chunk so far verified when its turn came, with no write_chunk on it from
\* then until it was read; full, that the disk did not take all of the output
MergeStates == [pc: {"none", "reading", "sized", "true", "false"}, next: 0 .. Total,
                size: Nat, sound: BOOLEAN, full: BOOLEAN]
NotMerging == [pc |-> "none", next |-> 0, size |-> 0, sound |-> FALSE, full |-> FALSE]

ChunkTypeOK ==
    /\ DOMAIN store \subseteq Indexes
    /\ \A i \in DOMAIN store : store[i] \in Seq(STRING)
    /\ writer \in [Writers -> {NotWriting} \cup [i: Indexes, data: ChunkData]]
    /\ merge \in MergeStates
    /\ merge.pc = "sized" => merge.next < Total
    /\ output \in Seq(STRING)

ChunkInit ==
    /\ store = <<>>
    /\ writer = [w \in Writers |-> NotWriting]
    /\ merge = NotMerging
    /\ output = <<>>

\* what is in the chunk file, nothing if there is none
Stored(i) == IF i \in DOMAIN store THEN store[i] ELSE <<>>

\* the data read_chunk returns once it has taken the size: what the file has by then, and
\* zeros where it has become shorter
read_chunk(i, size) ==
    [k \in 1 .. size |-> IF k <= Len(Stored(i)) THEN Stored(i)[k] ELSE Zero]

\* for the history: the chunk has its right content and no write_chunk is on it
Settled(i) ==
    /\ verify_chunk(Stored(i), Hashes[i + 1])
    /\ \A w \in Writers : writer[w].i # i

Put(i, data) ==
    store' = [k \in DOMAIN store \cup {i} |-> IF k = i THEN data ELSE store[k]]

\* write_chunk: opening the file truncates it
OpenChunk(w, i, data) ==
    /\ writer[w] = NotWriting
    /\ writer' = [writer EXCEPT ![w] = [i |-> i, data |-> data]]
    /\ Put(i, <<>>)
    /\ merge' = [merge EXCEPT !.sound = @ /\ ~(merge.pc = "sized" /\ merge.next = i)]
    /\ UNCHANGED output

\* each stream writes from the start of the file, over what another one left there
Written(i, data) == data \o SubSeq(Stored(i), Len(data) + 1, Len(Stored(i)))

\* a part of the data has reached the file
WritePart(w, n) ==
    /\ writer[w] # NotWriting /\ n < Len(writer[w].data)
    /\ Put(writer[w].i, Written(writer[w].i, SubSeq(writer[w].data, 1, n)))
    /\ UNCHANGED <<writer, merge, output>>

WriteChunk(w) ==
    /\ writer[w] # NotWriting
    /\ Put(writer[w].i, Written(writer[w].i, writer[w].data))
    /\ writer' = [writer EXCEPT ![w] = NotWriting]
    /\ UNCHANGED <<merge, output>>

\* the disk is full: write_chunk returns false, or true if the stream has only buffered the
\* data and nobody sees the failure when it is closed
WriteFails(w) ==
    /\ writer[w] # NotWriting
    /\ writer' = [writer EXCEPT ![w] = NotWriting]
    /\ UNCHANGED <<store, merge, output>>

\* the process dies: the files stay as they are
ProcessDies ==
    /\ writer' = [w \in Writers |-> NotWriting]
    /\ merge' = NotMerging
    /\ UNCHANGED <<store, output>>

\* mutant: the output file is opened for appending
Bug_MergeBegins ==
    /\ merge.pc \notin {"reading", "sized"}
    /\ merge' = [NotMerging EXCEPT !.pc = "reading", !.sound = TRUE]
    /\ UNCHANGED <<store, writer, output>>

\* merge_chunks truncates its output first
MergeBegins ==
    /\ merge.pc \notin {"reading", "sized"}
    /\ merge' = [NotMerging EXCEPT !.pc = "reading", !.sound = TRUE]
    /\ output' = <<>>
    /\ UNCHANGED <<store, writer>>

\* read_chunk opens the file and takes its size: with no file, or an empty one, the call
\* ends
MergeSize ==
    /\ merge.pc = "reading" /\ merge.next < Total
    /\ merge' = [merge EXCEPT !.pc = IF Stored(merge.next) = <<>> THEN "false" ELSE "sized",
                              !.size = Len(Stored(merge.next)),
                              !.sound = @ /\ Settled(merge.next)]
    /\ UNCHANGED <<store, writer, output>>

\* the rest of read_chunk, and the write to the output
MergeRead ==
    /\ merge.pc = "sized"
    /\ output' = output \o read_chunk(merge.next, merge.size)
    /\ merge' = [merge EXCEPT !.pc = "reading", !.next = @ + 1]
    /\ UNCHANGED <<store, writer>>

\* the disk is full: a part of the chunk may have reached the output
MergeWriteFails(n) ==
    /\ merge.pc = "sized" /\ n < merge.size
    /\ output' = output \o SubSeq(read_chunk(merge.next, merge.size), 1, n)
    /\ merge' = [merge EXCEPT !.pc = "false", !.full = TRUE]
    /\ UNCHANGED <<store, writer>>

MergeReturns ==
    /\ merge.pc = "reading" /\ merge.next = Total
    /\ merge' = [merge EXCEPT !.pc = "true"]
    /\ UNCHANGED <<store, writer, output>>

\* the disk is full when the stream is closed, with less than a chunk in its buffer: the
\* call has returned true
MergeCloseFails(n) ==
    /\ merge.pc = "reading" /\ merge.next = Total /\ n <= Len(output)
    /\ output' = SubSeq(output, 1, Len(output) - n)
    /\ merge' = [merge EXCEPT !.pc = "true", !.full = TRUE]
    /\ UNCHANGED <<store, writer>>

ChunkNext ==
    \/ \E w \in Writers :
          \/ \E i \in Indexes, data \in ChunkData : OpenChunk(w, i, data)
          \/ \E n \in 1 .. ChunkSize - 1 : WritePart(w, n)
          \/ WriteChunk(w)
          \/ WriteFails(w)
    \/ ProcessDies
    \/ MergeBegins
    \/ MergeSize
    \/ MergeRead
    \/ \E n \in 0 .. ChunkSize - 1 : MergeWriteFails(n)
    \/ MergeReturns
    \/ \E n \in 1 .. ChunkSize - 1 : MergeCloseFails(n)

ChunkSpec == ChunkInit /\ [][ChunkNext]_chunkVars

-----------------------------------------------------------------------------
(***************************************************************************)
(* merge_chunks verifies nothing and locks nothing: what it needs is that  *)
(* each chunk is right when its turn comes and that no write_chunk is on   *)
(* it from the taking of its size to its read.  Then, on a disk with room, *)
(* it returns true and its output is the file, short last chunk included,  *)
(* whatever writers do to the chunks before and after their turn and       *)
(* whatever crashes, failed writes and earlier merges left behind.         *)
(***************************************************************************)
MergedIsTheFile ==
    merge.sound /\ ~merge.full /\ merge.pc \notin {"reading", "sized"} =>
        merge.pc = "true" /\ output = Content

(***************************************************************************)
(* What the steps of a download promise (command_handler.cpp:420,          *)
(* "Reassemble chunks into the complete file"): a merge that returns true, *)
(* on a disk with room, has written a file of the right size.  Where every *)
(* write_chunk is given the right data, merge_chunks breaks it: it takes a *)
(* chunk that is being written, or that a crash left half written, for the *)
(* whole chunk.                                                            *)
(***************************************************************************)
ReassembledIsComplete ==
    merge.pc = "true" /\ ~merge.full => Len(output) = Len(Content)
=============================================================================
