------------------------------ MODULE Storage ------------------------------
(***************************************************************************)
(* The file index (file_index.cpp) and the commands share and download     *)
(* (command_handler.cpp), which are the callers of add_file and get_file.  *)
(*                                                                         *)
(* Each share command is a process of its own that works on the same       *)
(* SQLite file as the others: its reads of the shared file and its SQL     *)
(* statements are separate steps, every statement commits by itself, a     *)
(* statement may fail (another process has the database locked), and the   *)
(* process may die between any two steps.  The user may rewrite the file   *)
(* at any time.  No connection turns foreign keys on, so the ON DELETE     *)
(* CASCADE of the table chunks never acts.                                 *)
(***************************************************************************)
EXTENDS ChunkFiles, FiniteSets, Functions

CONSTANTS
    Procs,          \* share commands that may run at the same time
    Paths,          \* files the user has on disk
    Contents,       \* contents a file can have (also: the file hashes)
    MaxNow,         \* bound: files added to the index (and values of created_at)
    MaxEdits        \* bound: times the user rewrites a file

Gone == <<"gone">>  \* there is no file at that path
NoPath == "none"    \* the file_path of a file that is still to be downloaded

ASSUME StorageAssumption ==
    /\ \A c \in Contents : c \in Seq(STRING)
    /\ Gone \notin Contents /\ NoPath \notin Paths
    /\ \A c \in Contents : c \notin (Paths \cup {NoPath}) \X Nat   \* "_" is no hex digit
    /\ MaxNow \in Nat /\ MaxEdits \in Nat

VARIABLES
    disk,       \* path -> content, or Gone
    edits,      \* history: path -> times the user has rewritten it
    files,      \* table files: file_hash -> the metadata in its blob
    chunks,     \* table chunks: the <<file_hash, chunk_index>> with is_available = 1
    share,      \* process -> where its share command stands
    clock,      \* the time, as far as file ids and created_at tell it
    shared      \* history: hashes shared with success, and neither removed nor torn since

indexVars == <<disk, edits, files, chunks, share, clock, shared>>

\* FileMetadata: file_id is the name and the time of the share; seen and hashed_at are
\* history, the edits of the path when its size and when its hash were read
Metadata ==
    [file_id: (Paths \cup {NoPath}) \X Nat, file_path: Paths \cup {NoPath},
     file_size: Nat, chunk_hashes: Seq(Seq(STRING)), created_at: Nat,
     seen: Nat, hashed_at: Nat]

\* metadata with no chunk hashes yet
Unread(id, path, size, edit) ==
    [file_id |-> id, file_path |-> path, file_size |-> size, chunk_hashes |-> <<>>,
     created_at |-> 0, seen |-> edit, hashed_at |-> 0]
Blank == Unread(<<NoPath, 0>>, NoPath, 0, 0)

\* the user rewrote the file while share was reading it
Torn(meta) == meta.seen # meta.hashed_at

Idle == [pc |-> "idle", meta |-> Blank, hash |-> <<>>, next |-> 0, lost |-> FALSE]

IndexTypeOK ==
    /\ disk \in [Paths -> Contents \cup {Gone}]
    /\ edits \in [Paths -> 0 .. MaxEdits]
    /\ DOMAIN files \subseteq Contents
    /\ \A h \in DOMAIN files : files[h] \in Metadata
    /\ chunks \subseteq Contents \X Nat
    /\ share \in [Procs -> [pc: {"idle", "sized", "chunked", "hashed", "adding"}, meta: Metadata,
                            hash: Contents \cup {<<>>}, next: Nat, lost: BOOLEAN]]
    /\ \A p \in Procs : share[p].next <= Len(share[p].meta.chunk_hashes)
    /\ clock \in 0 .. MaxNow
    /\ shared \subseteq Contents

IndexInit ==
    /\ disk \in [Paths -> Contents]
    /\ edits = [q \in Paths |-> 0]
    /\ files = <<>> /\ chunks = {}
    /\ share = [p \in Procs |-> Idle]
    /\ clock = 0
    /\ shared = {}

-----------------------------------------------------------------------------
(* ShareCommandHandler::execute and the ChunkManager::chunk_file it calls. *)

At(p, pc) == share[p].pc = pc
Become(p, s) == share' = [share EXCEPT ![p] = s]

\* both tests that the file exists, and its size
ShareSize(p, q) ==
    /\ At(p, "idle") /\ disk[q] # Gone /\ clock < MaxNow
    /\ clock' = clock + 1
    /\ Become(p, [Idle EXCEPT !.pc = "sized",
                              !.meta = Unread(<<q, clock'>>, q, Len(disk[q]), edits[q])])
    /\ UNCHANGED <<disk, edits, files, chunks, shared>>

\* get_chunk_hashes: a file that cannot be opened has no chunks
ShareChunks(p) ==
    LET q == share[p].meta.file_path
    IN  /\ At(p, "sized")
        /\ Become(p, [share[p] EXCEPT !.pc = "chunked",
                      !.meta.chunk_hashes = IF disk[q] = Gone THEN <<>>
                                            ELSE split_file(disk[q])])
        /\ UNCHANGED <<disk, edits, files, chunks, clock, shared>>

\* hash_file reads the file once more, and fails when it is gone
ShareHash(p) ==
    LET q == share[p].meta.file_path
    IN  /\ At(p, "chunked")
        /\ Become(p, IF disk[q] = Gone THEN Idle
                     ELSE [share[p] EXCEPT !.pc = "hashed", !.hash = disk[q],
                                           !.meta.created_at = clock,
                                           !.meta.hashed_at = edits[q]])
        /\ UNCHANGED <<disk, edits, files, chunks, clock, shared>>

-----------------------------------------------------------------------------
(* FileIndex::add_file, called by the share command. *)

\* INSERT OR REPLACE: the row of an equal content is replaced, whoever shared it
PutRow(hash, meta) ==
    files' = [h \in DOMAIN files \cup {hash} |-> IF h = hash THEN meta ELSE files[h]]

AddRow(p) ==
    /\ At(p, "hashed")
    /\ PutRow(share[p].hash, share[p].meta)
    /\ shared' = IF Torn(share[p].meta) THEN shared \ {share[p].hash} ELSE shared
    /\ Become(p, [share[p] EXCEPT !.pc = "adding"])
    /\ UNCHANGED <<disk, edits, chunks, clock>>

\* the statement fails: add_file and the command report an error
AddRowFails(p) ==
    /\ At(p, "hashed")
    /\ Become(p, Idle)
    /\ UNCHANGED <<disk, edits, files, chunks, clock, shared>>

MoreChunks(p) == share[p].next < Len(share[p].meta.chunk_hashes)

\* mutant: chunks are counted from 1
Bug_AddChunk(p) ==
    /\ At(p, "adding") /\ MoreChunks(p)
    /\ chunks' = chunks \cup {<<share[p].hash, share[p].next + 1>>}
    /\ Become(p, [share[p] EXCEPT !.next = @ + 1])
    /\ UNCHANGED <<disk, edits, files, clock, shared>>

AddChunk(p) ==
    /\ At(p, "adding") /\ MoreChunks(p)
    /\ chunks' = chunks \cup {<<share[p].hash, share[p].next>>}
    /\ Become(p, [share[p] EXCEPT !.next = @ + 1])
    /\ UNCHANGED <<disk, edits, files, clock, shared>>

\* the failure of a chunk's statement is ignored
AddChunkFails(p) ==
    /\ At(p, "adding") /\ MoreChunks(p)
    /\ Become(p, [share[p] EXCEPT !.next = @ + 1, !.lost = TRUE])
    /\ UNCHANGED <<disk, edits, files, chunks, clock, shared>>

\* for the history: nobody removed the row, or replaced it by a torn one
CleanRow(h) == h \in DOMAIN files /\ ~Torn(files[h])

\* add_file returns true and the command reports success
AddReturns(p) ==
    /\ At(p, "adding") /\ ~MoreChunks(p)
    /\ shared' = IF ~share[p].lost /\ ~Torn(share[p].meta) /\ CleanRow(share[p].hash)
                 THEN shared \cup {share[p].hash} ELSE shared
    /\ Become(p, Idle)
    /\ UNCHANGED <<disk, edits, files, chunks, clock>>

\* the process dies: the statements it has executed stay
Crash(p) ==
    /\ ~At(p, "idle")
    /\ Become(p, Idle)
    /\ UNCHANGED <<disk, edits, files, chunks, clock, shared>>

-----------------------------------------------------------------------------
(* The other calls of FileIndex, one statement each. *)

\* add_file for a file to be downloaded: no chunk hashes, so the row is all there is to add
AddForDownload(h) ==
    /\ clock < MaxNow
    /\ clock' = clock + 1
    /\ PutRow(h, [Unread(<<NoPath, clock'>>, NoPath, Len(h), 0) EXCEPT !.created_at = clock'])
    /\ UNCHANGED <<disk, edits, chunks, share, shared>>

update_chunk_progress(h, i) ==
    /\ chunks' = chunks \cup {<<h, i>>}
    /\ UNCHANGED <<disk, edits, files, share, clock, shared>>

\* DELETE FROM files: the rows of chunks stay
remove_file(h) ==
    /\ files' = Restrict(files, DOMAIN files \ {h})
    /\ shared' = shared \ {h}
    /\ UNCHANGED <<disk, edits, chunks, share, clock>>

RowsOf(h) == {k \in chunks : k[1] = h}

\* mutant: <= in the HAVING clause
Bug_Incomplete(h) == Cardinality(RowsOf(h)) <= total_chunks(files[h])

\* the HAVING clause: it counts rows, whatever their chunk_index
Incomplete(h) == Cardinality(RowsOf(h)) < total_chunks(files[h])

cleanup_incomplete_files(cutoff) ==
    /\ files' = Restrict(files, {h \in DOMAIN files :
                                    files[h].created_at >= cutoff \/ ~Incomplete(h)})
    /\ UNCHANGED <<disk, edits, chunks, share, clock, shared>>

get_missing_chunks(h) ==
    IF h \notin DOMAIN files THEN {}
    ELSE {i \in 0 .. total_chunks(files[h]) - 1 : <<h, i>> \notin chunks}

\* DownloadCommandHandler::execute: the argument is a hash or a file id; what comes out is
\* the present content of the file_path
download(arg) ==
    LET byId == {h \in DOMAIN files : files[h].file_id = arg}
        found == IF arg \in DOMAIN files THEN {arg} ELSE byId
    IN  {[hash |-> h, content |-> disk[files[h].file_path]] :
            h \in {g \in found : /\ files[g].file_path # NoPath
                                 /\ disk[files[g].file_path] # Gone}}

-----------------------------------------------------------------------------
UserWrites(q, c) ==
    /\ edits[q] < MaxEdits /\ disk[q] # c
    /\ disk' = [disk EXCEPT ![q] = c]
    /\ edits' = [edits EXCEPT ![q] = @ + 1]
    /\ UNCHANGED <<files, chunks, share, clock, shared>>

ShareStep(p) ==
    \/ \E q \in Paths : ShareSize(p, q)
    \/ ShareChunks(p)
    \/ ShareHash(p)
    \/ AddRow(p)
    \/ AddRowFails(p)
    \/ AddChunk(p)
    \/ AddChunkFails(p)
    \/ AddReturns(p)
    \/ Crash(p)

IndexStep ==
    \E h \in Contents :
        \/ AddForDownload(h)
        \/ \E i \in 0 .. Len(split_file(h)) : update_chunk_progress(h, i)

\* everything but a removal by hand
Keep ==
    \/ \E p \in Procs : ShareStep(p)
    \/ IndexStep
    \/ \E cutoff \in 1 .. clock + 1 : cleanup_incomplete_files(cutoff)
    \/ \E q \in Paths, c \in Contents \cup {Gone} : UserWrites(q, c)

IndexNext ==
    \/ Keep
    \/ \E h \in Contents : remove_file(h)

IndexSpec == IndexInit /\ [][IndexNext]_indexVars

-----------------------------------------------------------------------------
FromShare(h) == files[h].file_path # NoPath

(***************************************************************************)
(* chunk_file reads the file three times (its size, its chunks, its hash). *)
(* Unless the user rewrites the file in between, the row that add_file     *)
(* leaves describes one content: its chunks are the chunks of the content  *)
(* with that hash, is_complete and get_chunk_size agree with them, and as  *)
(* long as the file is not rewritten later, download gets that content by  *)
(* the hash and by the file id - whichever commands replaced the row,      *)
(* failed or died in between.                                              *)
(***************************************************************************)
SharedRowsAgree ==
    \A h \in DOMAIN files :
        LET row == files[h]
        IN  FromShare(h) /\ ~Torn(row) =>
               /\ row.chunk_hashes = split_file(h) /\ row.file_size = Len(h)
               /\ metadata_complete(row) <=> h # <<>>
               /\ \A i \in 0 .. Len(row.chunk_hashes) - 1 :
                     get_chunk_size(row, i) = Len(row.chunk_hashes[i + 1])
               /\ edits[row.file_path] = row.hashed_at =>
                     download(h) = {[hash |-> h, content |-> h]} /\ download(row.file_id) = download(h)

(***************************************************************************)
(* A content counts as shared once a command reports success, all of its   *)
(* statements have worked, and its row is still there, untorn, when        *)
(* add_file returns.  It then stays available until the file is removed:   *)
(* get_missing_chunks reports nothing missing and cleanup_incomplete_files *)
(* spares the row, whatever other commands share the same content, die     *)
(* half way or add it for download.  (A later share whose file is          *)
(* rewritten under it ends this: it may replace the row by one with a size *)
(* that is not the content's.)  This says nothing of a command that        *)
(* reports success although a chunk's statement failed or the cleanup took *)
(* its row before the last chunk: ReportedIsAvailable is about those.      *)
(***************************************************************************)
SharedStaysAvailable ==
    \A h \in shared : h \in DOMAIN files /\ get_missing_chunks(h) = {}

(***************************************************************************)
(* What the share command tells the user when add_file has returned true   *)
(* (command_handler.cpp:76, "File is now available for download by         *)
(* peers."), for a file nobody rewrote while it was read: the file is in   *)
(* the index and none of its chunks is missing.  add_file has no           *)
(* transaction and ignores the result of the chunks' statements, so a      *)
(* failed statement, or a cleanup between the row and its last chunk,      *)
(* breaks it even though nobody removes a file.                            *)
(***************************************************************************)
ReportedIsAvailable ==
    [][\A p \in Procs : AddReturns(p) /\ ~Torn(share[p].meta) =>
          share[p].hash \in DOMAIN files /\ get_missing_chunks(share[p].hash) = {}]_indexVars

(***************************************************************************)
(* cleanup_incomplete_files removes only files that lack a chunk, although *)
(* its SQL only compares a number of rows with a quotient of sizes, and    *)
(* rows of chunks outlive the files they belonged to.                      *)
(***************************************************************************)
CleanupSparesComplete ==
    [][\A cutoff \in 1 .. clock + 1 : cleanup_incomplete_files(cutoff) =>
          \A h \in DOMAIN files \ DOMAIN files' : get_missing_chunks(h) # {}]_indexVars

=============================================================================
