------------------------ MODULE TransferSessionProofs ------------------------
(***************************************************************************)
(* Safety of TransferSession for every bitset capacity, every set of files *)
(* and metadata, every set of chunk messages and every window size.        *)
(***************************************************************************)
EXTENDS TransferSession, FiniteSetTheorems, TLAPS

\* What the loop has passed is requested, and only that can be received.
ChunksRequested ==
    /\ session.received \subseteq session.requested
    /\ session.requested \subseteq 0 .. LoopLimit(session) - 1
    /\ 0 .. session.next - 1 \subseteq session.requested

(***************************************************************************)
(* The inductive invariant.  The bound on next_chunk_to_request_ is what   *)
(* keeps the request loop inside the file and the bitset.                  *)
(***************************************************************************)
IInv ==
    /\ TypeOK
    /\ ChunksRequested
    /\ session.next <= LoopLimit(session)
    /\ CompletedIsWhole
    /\ VerifiedContent

-----------------------------------------------------------------------------
\* A bitset over 0 .. n-1 has n bits.
LEMMA BitsetSize ==
    ASSUME NEW n \in Nat
    PROVE  IsFiniteSet(0 .. n - 1) /\ Cardinality(0 .. n - 1) = n
BY FS_Interval

(***************************************************************************)
(* A bitset over 0 .. n-1 with n bits set has them all set: why counting   *)
(* received_chunks_ against chunk_count decides completion.                *)
(***************************************************************************)
LEMMA FullBitset ==
    ASSUME NEW n \in Nat, NEW S \in SUBSET (0 .. n - 1), Cardinality(S) = n
    PROVE  S = 0 .. n - 1
<1>1. IsFiniteSet(0 .. n - 1) /\ Cardinality(0 .. n - 1) = n
  BY BitsetSize
<1>2. QED
  BY <1>1, FS_Subset

\* The loop of request_next_chunks ends inside the file and inside the bitset.
LEMMA LoopLimitType ==
    ASSUME NEW s \in Session(Metas \cup Unset)
    PROVE  /\ s.meta.chunk_count \in Nat
           /\ LoopLimit(s) \in Nat
           /\ LoopLimit(s) <= s.meta.chunk_count
           /\ LoopLimit(s) <= Capacity
<1>1. s.meta \in FileMetadata(Files)
  BY MetasAssumption DEF Session
<1>2. s.meta.chunk_count \in Nat
  BY <1>1 DEF FileMetadata
<1>3. QED
  BY <1>2, CapacityAssumption DEF LoopLimit

-----------------------------------------------------------------------------
LEMMA InitIInv == Init => IInv
<1> SUFFICES ASSUME Init PROVE IInv
  OBVIOUS
<1>1. PICK m \in Unset : session = NewSession(m)
  BY DEF Init
<1>2. TypeOK
  BY <1>1 DEF Init, TypeOK, NewSession, Session, TransferState
<1>3. LoopLimit(session) \in Nat
  BY <1>2, LoopLimitType DEF TypeOK
<1>4. /\ session.received = {} /\ session.requested = {}
      /\ session.next = 0 /\ session.state = "INACTIVE"
  BY <1>1 DEF NewSession
<1>5. ChunksRequested
  BY <1>4 DEF ChunksRequested
<1>6. QED
  BY <1>2, <1>3, <1>4, <1>5 DEF IInv, CompletedIsWhole, VerifiedContent

\* start_transfer forgets the bits, the bytes and the position of the last file.
LEMMA StartTransferIInv ==
    ASSUME IInv, NEW m \in Metas, StartTransfer(m)
    PROVE  IInv'
<1>1. session' = start_transfer(session, m) /\ content' = content /\ starts' = starts + 1
  BY DEF StartTransfer
<1>2. /\ session'.received = {} /\ session'.requested = {} /\ session'.meta = m
      /\ session'.next = 0 /\ session'.state = "REQUESTING"
  BY <1>1 DEF start_transfer
<1>3. TypeOK'
  BY <1>1 DEF IInv, TypeOK, start_transfer, Session, TransferState
<1>4. LoopLimit(session') \in Nat
  BY <1>3, LoopLimitType DEF TypeOK
<1>5. ChunksRequested'
  BY <1>2 DEF ChunksRequested
<1>6. QED
  BY <1>2, <1>3, <1>4, <1>5 DEF IInv, CompletedIsWhole, VerifiedContent

\* The request loop marks exactly the gaps it passes, so nothing below its new
\* position is left unrequested.
LEMMA RequestNextChunksIInv ==
    ASSUME IInv, NEW w \in Windows, RequestNextChunks(w)
    PROVE  IInv'
<1> DEFINE s == session
<1>1. PICK n \in s.next .. LoopLimit(s) : session' = request_next_chunks(s, w, n)
  BY DEF RequestNextChunks
<1>2. CanRequest(s) /\ content' = content /\ starts' = starts
  BY DEF RequestNextChunks
<1>3. /\ s \in Session(Metas \cup Unset) /\ s.next \in Nat
      /\ s.requested \in SUBSET Nat /\ s.received \in SUBSET Nat
  BY DEF IInv, TypeOK, Session
<1>4. /\ LoopLimit(s) \in Nat
      /\ LoopLimit(s) <= s.meta.chunk_count
  BY <1>3, LoopLimitType
<1> DEFINE asked == AskedUpTo(s, n)
<1>5. asked \subseteq 0 .. LoopLimit(s) - 1
  BY <1>1, <1>3, <1>4 DEF AskedUpTo
<1>6. /\ session'.requested = s.requested \cup asked
      /\ session'.fresh = s.fresh \cup asked
      /\ session'.received = s.received /\ session'.meta = s.meta
      /\ session'.next = n /\ session'.bytes = s.bytes
      /\ session'.state \in {s.state, "TRANSFERRING"}
  BY <1>1, <1>3 DEF request_next_chunks, Session
<1>7. session'.state # "COMPLETED"
  BY <1>2, <1>6 DEF CanRequest
<1>8. TypeOK'
  <2>1. asked \in SUBSET Nat /\ n \in Nat
    BY <1>1, <1>3, <1>4, <1>5
  <2>2. session' \in Session(Metas \cup Unset)
    BY <1>1, <1>3, <2>1 DEF request_next_chunks, Session, TransferState
  <2>3. QED
    BY <1>2, <2>2 DEF IInv, TypeOK
<1>9. LoopLimit(session') = LoopLimit(s)
  BY <1>6 DEF LoopLimit
<1>10. ChunksRequested'
  <2>1. /\ s.received \subseteq s.requested
        /\ s.requested \subseteq 0 .. LoopLimit(s) - 1
        /\ 0 .. s.next - 1 \subseteq s.requested
    BY DEF IInv, ChunksRequested
  <2>2. 0 .. n - 1 \subseteq s.requested \cup asked
    BY <1>1, <1>3, <1>4, <2>1 DEF AskedUpTo
  <2>3. QED
    BY <1>5, <1>6, <1>9, <2>1, <2>2 DEF ChunksRequested
<1>11. VerifiedContent'
  BY <1>2, <1>6 DEF IInv, VerifiedContent
<1>12. session'.next <= LoopLimit(session')
  BY <1>1, <1>3, <1>4, <1>6, <1>9
<1>13. QED
  BY <1>7, <1>8, <1>10, <1>11, <1>12 DEF IInv, CompletedIsWhole

\* A request from a peer marks one bit, and only inside the file and the bitset.
LEMMA MarkChunkRequestedIInv ==
    ASSUME IInv, NEW i \in Indices, MarkChunkRequested(i)
    PROVE  IInv'
<1> DEFINE s == session
<1>1. /\ session' = mark_chunk_requested(s, i) /\ content' = content /\ starts' = starts
  BY DEF MarkChunkRequested
<1>2. s \in Session(Metas \cup Unset)
  BY DEF IInv, TypeOK
<1>3. CASE session' = s
  BY <1>1, <1>3 DEF IInv, TypeOK, ChunksRequested, CompletedIsWhole, VerifiedContent
<1>4. CASE session' # s
  <2>1. /\ i < s.meta.chunk_count /\ i < Capacity
        /\ session' = [s EXCEPT !.requested = @ \cup {i}, !.fresh = @ \cup {i}]
    BY <1>1, <1>4 DEF mark_chunk_requested
  <2>2. i \in 0 .. LoopLimit(s) - 1
    <3>1. s.meta.chunk_count \in Nat
      BY <1>2, LoopLimitType
    <3>2. i \in Nat
      BY CapacityAssumption DEF Indices
    <3>3. QED
      BY <2>1, <3>1, <3>2, CapacityAssumption DEF LoopLimit
  <2>3. /\ session'.requested = s.requested \cup {i}
        /\ session'.received = s.received /\ session'.meta = s.meta
        /\ session'.next = s.next /\ session'.state = s.state
    BY <1>2, <2>1 DEF Session
  <2>4. i \in Nat
    BY CapacityAssumption DEF Indices
  <2>5. session' \in Session(Metas \cup Unset)
    BY <1>2, <2>1, <2>4 DEF Session
  <2>6. LoopLimit(session') = LoopLimit(s)
    BY <2>3 DEF LoopLimit
  <2>7. ChunksRequested'
    BY <2>2, <2>3, <2>6 DEF IInv, ChunksRequested
  <2>8. QED
    BY <1>1, <2>3, <2>5, <2>6, <2>7 DEF IInv, TypeOK, CompletedIsWhole, VerifiedContent
<1>5. QED
  BY <1>3, <1>4

\* A chunk is accepted only if requested and, where a hash is known, only with
\* the body of that chunk of the current file; completion is decided by count.
LEMMA HandleChunkReceivedIInv ==
    ASSUME IInv, NEW i \in Indices, NEW d \in [size: Sizes, body: Bodies],
           HandleChunkReceived(i, d)
    PROVE  IInv'
<1> DEFINE s == session
<1>1. /\ session' = handle_chunk_received(s, i, d) /\ starts' = starts
      /\ content' = IF AcceptsChunk(s, i, d) /\ i \in s.meta.hashed
                    THEN [content EXCEPT ![i] = d.body] ELSE content
  BY DEF HandleChunkReceived
<1>2. s \in Session(Metas \cup Unset) /\ content \in [Indices -> Bodies \cup {NoBody}]
  BY DEF IInv, TypeOK
<1>3. CASE ~AcceptsChunk(s, i, d)
  <2>1. session' = s /\ content' = content
    BY <1>1, <1>3 DEF handle_chunk_received
  <2>2. QED
    BY <1>1, <2>1 DEF IInv, TypeOK, ChunksRequested, CompletedIsWhole, VerifiedContent
<1>4. CASE AcceptsChunk(s, i, d)
  <2> DEFINE got == s.received \cup {i}
             st == IF Cardinality(got) = s.meta.chunk_count THEN "COMPLETED" ELSE s.state
  <2>1. session' = [s EXCEPT !.received = got, !.bytes = s.bytes + d.size, !.state = st]
    BY <1>1, <1>2, <1>4 DEF handle_chunk_received, Session
  <2>2. content' = IF i \in s.meta.hashed THEN [content EXCEPT ![i] = d.body] ELSE content
    BY <1>1, <1>4
  <2>3. i \in Nat /\ d.size \in Nat /\ d.body \in Bodies
    <3>1. i \in Nat
      BY CapacityAssumption DEF Indices
    <3>2. d.size \in Nat /\ d.body \in Bodies
      BY SizesAssumption
    <3>3. QED
      BY <3>1, <3>2
  <2>4. st \in TransferState
    BY <1>2 DEF Session, TransferState
  <2>5. session' \in Session(Metas \cup Unset)
    <3>1. got \in SUBSET Nat /\ s.bytes + d.size \in Nat
      BY <1>2, <2>3 DEF Session
    <3> HIDE DEF st, got
    <3>2. QED
      BY <1>2, <2>1, <2>4, <3>1 DEF Session
  <2>6. /\ session'.requested = s.requested
        /\ session'.received = got /\ session'.meta = s.meta
        /\ session'.next = s.next /\ session'.state = st
    BY <1>2, <2>1 DEF Session
  <2>7. TypeOK'
    BY <1>1, <1>2, <2>2, <2>3, <2>5 DEF IInv, TypeOK
  <2>8. LoopLimit(session') = LoopLimit(s)
    BY <2>6 DEF LoopLimit
  <2>9. i \in s.requested /\ i < s.meta.chunk_count /\ validate_chunk(s.meta, i, d)
    BY <1>4 DEF AcceptsChunk
  <2>10. ChunksRequested'
    BY <2>6, <2>8, <2>9 DEF IInv, ChunksRequested
  <2>11. session'.next <= LoopLimit(session')
    BY <2>6, <2>8 DEF IInv
  <2>12. got \subseteq 0 .. s.meta.chunk_count - 1
    <3>1. s.requested \subseteq 0 .. LoopLimit(s) - 1 /\ s.received \subseteq s.requested
      BY DEF IInv, ChunksRequested
    <3>2. LoopLimit(s) \in Nat /\ LoopLimit(s) <= s.meta.chunk_count /\ s.meta.chunk_count \in Nat
      BY <1>2, LoopLimitType
    <3>3. QED
      BY <2>9, <3>1, <3>2
  <2>13. CompletedIsWhole'
    <3>1. s.meta.chunk_count \in Nat
      BY <1>2, LoopLimitType
    <3>2. CASE Cardinality(got) = s.meta.chunk_count
      <4>1. got = 0 .. s.meta.chunk_count - 1
        <5> HIDE DEF got
        <5>1. QED
          BY <2>12, <3>1, <3>2, FullBitset
      <4>2. QED
        BY <2>6, <4>1 DEF CompletedIsWhole
    <3>3. CASE Cardinality(got) # s.meta.chunk_count
      <4>1. SUFFICES ASSUME s.state = "COMPLETED"
                     PROVE  FALSE
        BY <2>6, <3>3 DEF CompletedIsWhole
      <4>2. s.received = 0 .. s.meta.chunk_count - 1
        BY <4>1 DEF IInv, CompletedIsWhole
      <4>3. got = 0 .. s.meta.chunk_count - 1
        BY <2>12, <4>2
      <4>4. Cardinality(0 .. s.meta.chunk_count - 1) = s.meta.chunk_count
        BY <3>1, BitsetSize
      <4>5. QED
        BY <3>3, <4>3, <4>4
    <3>4. QED
      BY <3>2, <3>3
  <2>14. VerifiedContent'
    <3>1. SUFFICES ASSUME NEW j \in got \cap s.meta.hashed
                   PROVE  content'[j] = <<s.meta.file, j>>
      BY <2>6 DEF VerifiedContent
    <3>2. CASE j = i
      BY <1>2, <2>2, <2>9, <3>2 DEF validate_chunk
    <3>3. CASE j # i
      <4>1. content'[j] = content[j]
        BY <1>2, <2>2, <3>3
      <4>2. QED
        BY <3>1, <3>3, <4>1 DEF IInv, VerifiedContent
    <3>4. QED
      BY <3>2, <3>3
  <2>15. QED
    BY <2>7, <2>10, <2>11, <2>13, <2>14 DEF IInv
<1>5. QED
  BY <1>3, <1>4

\* Pause, resume, retry and the clock touch neither bit sets nor contents.
LEMMA OtherIInv ==
    ASSUME IInv,
           \/ Pause \/ Resume \/ ClockTick
           \/ \E i \in Indices : RetryChunk(i)
    PROVE  IInv'
<1> DEFINE s == session
<1>1. s \in Session(Metas \cup Unset)
  BY DEF IInv, TypeOK
<1>2. /\ session' \in Session(Metas \cup Unset)
      /\ session'.requested = s.requested /\ session'.received = s.received
      /\ session'.meta = s.meta /\ session'.next = s.next
      /\ session'.state \in {s.state, "PAUSED", "TRANSFERRING"}
  <2>1. CASE Pause
    BY <1>1, <2>1 DEF Pause, Session, TransferState
  <2>2. CASE Resume
    BY <1>1, <2>2 DEF Resume, Session, TransferState
  <2>3. CASE ClockTick
    BY <1>1, <2>3 DEF ClockTick, expire, Session
  <2>4. CASE \E i \in Indices : RetryChunk(i)
    <3>1. PICK i \in Indices : RetryChunk(i)
      BY <2>4
    <3>2. i \in Nat
      BY CapacityAssumption DEF Indices
    <3>3. QED
      BY <1>1, <3>1, <3>2 DEF RetryChunk, retry_chunk, Session
  <2>5. QED
    BY <2>1, <2>2, <2>3, <2>4
<1>3. content' = content /\ starts' = starts
  BY DEF Pause, Resume, ClockTick, RetryChunk
<1>4. LoopLimit(session') = LoopLimit(s)
  BY <1>2 DEF LoopLimit
<1>5. ChunksRequested' /\ session'.next <= LoopLimit(session')
  BY <1>2, <1>4 DEF IInv, ChunksRequested
<1>6. QED
  BY <1>2, <1>3, <1>5 DEF IInv, TypeOK, CompletedIsWhole, VerifiedContent

-----------------------------------------------------------------------------
\* Every step of the session, its owner and the network keeps the invariant.
LEMMA NextIInv == IInv /\ [Next]_vars => IInv'
<1> SUFFICES ASSUME IInv, [Next]_vars PROVE IInv'
  OBVIOUS
<1>1. CASE UNCHANGED vars
  BY <1>1 DEF vars, IInv, TypeOK, ChunksRequested, CompletedIsWhole, VerifiedContent
<1>2. CASE Next
  BY <1>2, StartTransferIInv, RequestNextChunksIInv, MarkChunkRequestedIInv,
     HandleChunkReceivedIInv, OtherIInv DEF Next
<1>3. QED
  BY <1>1, <1>2

(***************************************************************************)
(* Type correctness of a session under every sequence of calls its owner   *)
(* and the network can make.                                               *)
(***************************************************************************)
THEOREM TypeCorrect == Spec => []TypeOK
<1>1. IInv => TypeOK
  BY DEF IInv
<1>2. QED
  BY <1>1, InitIInv, NextIInv, PTL DEF Spec

(***************************************************************************)
(* No chunk that the request loop has passed is left unrequested, in a     *)
(* file that fits the bitset none of them is out of sight of               *)
(* get_timed_out_chunks, and no chunk counts as received without having    *)
(* been requested.                                                         *)
(***************************************************************************)
THEOREM ChunksTracked == Spec => []NoChunkForgotten
<1>1. IInv => NoChunkForgotten
  <2> SUFFICES ASSUME IInv PROVE NoChunkForgotten
    OBVIOUS
  <2>1. session.meta.chunk_count \in Nat
    BY MetasAssumption DEF IInv, TypeOK, Session, FileMetadata
  <2>2. QED
    BY <2>1, CapacityAssumption
       DEF IInv, ChunksRequested, NoChunkForgotten, get_timed_out_chunks
<1>2. QED
  BY <1>1, InitIInv, NextIInv, PTL DEF Spec

(***************************************************************************)
(* A session that says COMPLETED holds every chunk of its file.            *)
(***************************************************************************)
THEOREM CompletionSound == Spec => []CompletedIsWhole
<1>1. IInv => CompletedIsWhole
  BY DEF IInv
<1>2. QED
  BY <1>1, InitIInv, NextIInv, PTL DEF Spec

(***************************************************************************)
(* Where hashes are known, no late, damaged or foreign chunk is taken for  *)
(* a chunk of the file being transferred.                                  *)
(***************************************************************************)
THEOREM ContentSound == Spec => []VerifiedContent
<1>1. IInv => VerifiedContent
  BY DEF IInv
<1>2. QED
  BY <1>1, InitIInv, NextIInv, PTL DEF Spec
(***************************************************************************)
(* Within one transfer nothing that was received is given up and           *)
(* COMPLETED is final, although the handlers do not test the state.        *)
(***************************************************************************)
THEOREM TransferMonotone == Spec => NoRegress
<1> DEFINE Keeps == /\ session.received \subseteq session'.received
                    /\ session.state = "COMPLETED" => session'.state = "COMPLETED"
<1>1. ASSUME IInv, Next, starts' = starts
      PROVE  Keeps
  <2>1. session \in Session(Metas \cup Unset) /\ starts \in Nat
    BY <1>1 DEF IInv, TypeOK
  <2>2. ASSUME NEW m \in Metas, StartTransfer(m)
        PROVE  Keeps
    <3>1. starts' = starts + 1
      BY <2>2 DEF StartTransfer
    <3>2. QED
      BY <1>1, <2>1, <3>1
  <2>3. ASSUME NEW w \in Windows, RequestNextChunks(w)
        PROVE  Keeps
    BY <2>1, <2>3 DEF RequestNextChunks, CanRequest, request_next_chunks, Session
  <2>4. ASSUME NEW i \in Indices, MarkChunkRequested(i)
        PROVE  Keeps
    BY <2>1, <2>4 DEF MarkChunkRequested, mark_chunk_requested, Session
  <2>5. ASSUME NEW i \in Indices, NEW d \in [size: Sizes, body: Bodies],
               HandleChunkReceived(i, d)
        PROVE  Keeps
    BY <2>1, <2>5 DEF HandleChunkReceived, handle_chunk_received, Session
  <2>6. CASE Pause \/ Resume
    BY <2>1, <2>6 DEF Pause, Resume, Session
  <2>7. ASSUME NEW i \in Indices, RetryChunk(i)
        PROVE  Keeps
    BY <2>1, <2>7 DEF RetryChunk, retry_chunk, Session
  <2>8. CASE ClockTick
    BY <2>1, <2>8 DEF ClockTick, expire, Session
  <2>9. QED
    BY <1>1, <2>2, <2>3, <2>4, <2>5, <2>6, <2>7, <2>8 DEF Next
<1>2. IInv /\ [Next]_vars => [starts' = starts => Keeps]_vars
  BY <1>1
<1>3. QED
  BY <1>2, InitIInv, NextIInv, PTL DEF Spec, NoRegress
=============================================================================
