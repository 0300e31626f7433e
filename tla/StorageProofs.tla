---------------------------- MODULE StorageProofs ----------------------------
(***************************************************************************)
(* The file index under concurrent share commands, failing statements,     *)
(* crashes and a user who rewrites the files: for any number of commands,  *)
(* any paths, contents and chunk size.  At the end, the chunk files of a   *)
(* file of any size under any number of writers (ChunkManager).            *)
(***************************************************************************)
EXTENDS Storage, ChunkManager, FiniteSetTheorems, SequenceTheorems, TLAPS

\* Metadata m, hashed to h, describes the content h, and the file still has it unless it
\* was rewritten since.
Describes(m, h, dsk, ed) ==
    /\ ~Torn(m) => m.chunk_hashes = split_file(h) /\ m.file_size = Len(h)
    /\ m.hashed_at <= ed[m.file_path]
    /\ ed[m.file_path] = m.hashed_at => dsk[m.file_path] = h

\* What a share command has read so far is true of a file that was not rewritten since.
SourceGood(s, dsk, ed) ==
    s.pc # "idle" =>
        /\ s.meta.file_path \in Paths
        /\ s.meta.seen <= ed[s.meta.file_path]
        /\ s.pc \in {"sized", "chunked"} /\ s.meta.seen = ed[s.meta.file_path] =>
              /\ dsk[s.meta.file_path] # Gone
              /\ s.meta.file_size = Len(dsk[s.meta.file_path])
              /\ s.pc = "chunked" => s.meta.chunk_hashes = split_file(dsk[s.meta.file_path])
        /\ s.pc \in {"hashed", "adding"} =>
              s.hash \in Contents /\ Describes(s.meta, s.hash, dsk, ed)

RowGood(h, m, dsk, ed) ==
    IF m.file_path # NoPath THEN Describes(m, h, dsk, ed)
    ELSE ~Torn(m) /\ m.file_size = Len(h)

BeforeRow == {"sized", "chunked", "hashed"}

\* A command that lost no statement has put the rows of the chunks it is past.
AddingGood(s, rows) ==
    /\ s.pc \in BeforeRow => s.next = 0
    /\ s.pc = "adding" /\ ~s.lost => \A i \in 0 .. s.next - 1 : <<s.hash, i>> \in rows

Sources == \A p \in Procs : SourceGood(share[p], disk, edits)
Rows == \A h \in DOMAIN files : RowGood(h, files[h], disk, edits)
Adding == \A p \in Procs : AddingGood(share[p], chunks)

\* The chunks of a shared content are there, and its row has the content's size.
SharedWhole ==
    \A h \in shared :
        /\ h \in DOMAIN files /\ ~Torn(files[h])
        /\ \A i \in 0 .. Len(split_file(h)) - 1 : <<h, i>> \in chunks

\* The time in a file id tells commands and rows apart, until a command has added its row.
Stamp(m) == m.file_id[2]
Ids ==
    /\ \A h \in DOMAIN files : Stamp(files[h]) <= clock
    /\ \A h, g \in DOMAIN files : Stamp(files[h]) = Stamp(files[g]) => h = g
    /\ \A p \in Procs : share[p].pc # "idle" => Stamp(share[p].meta) <= clock
    /\ \A p, r \in Procs :
          /\ share[p].pc # "idle" /\ share[r].pc # "idle"
          /\ Stamp(share[p].meta) = Stamp(share[r].meta)
          => p = r
    /\ \A p \in Procs : share[p].pc \in BeforeRow =>
          \A h \in DOMAIN files : Stamp(files[h]) # Stamp(share[p].meta)

IInv ==
    /\ IndexTypeOK
    /\ IsFiniteSet(chunks)
    /\ Sources
    /\ Rows
    /\ Adding
    /\ SharedWhole
    /\ Ids

-----------------------------------------------------------------------------
\* What \div and % are.
LEMMA Division ==
    ASSUME NEW n \in Nat, NEW d \in Nat \ {0}
    PROVE  /\ n \div d \in Nat /\ n % d \in 0 .. d - 1
           /\ n = d * (n \div d) + (n % d)
BY SMT

\* How many chunks cover a file of L units, and that one fewer would not.
LEMMA Chunked ==
    ASSUME NEW L \in Nat
    PROVE  LET C == (L + ChunkSize - 1) \div ChunkSize
           IN  C \in Nat /\ L <= C * ChunkSize /\ C * ChunkSize <= L + ChunkSize - 1
<1> DEFINE n == L + ChunkSize - 1
           C == n \div ChunkSize
<1>1. n \in Nat
  BY ChunkSizeAssumption
<1>2. C \in Nat /\ n % ChunkSize \in 0 .. ChunkSize - 1 /\ n = ChunkSize * C + (n % ChunkSize)
  BY <1>1, ChunkSizeAssumption, Division
<1>3. ChunkSize * C = C * ChunkSize /\ C * ChunkSize \in Nat
  <2> HIDE DEF C
  <2>1. QED BY <1>2, ChunkSizeAssumption
<1> HIDE DEF C
<1>4. QED
  BY <1>2, <1>3, ChunkSizeAssumption DEF C

\* Multiplication by a natural, for the solver.
LEMMA Times ==
    ASSUME NEW a \in Int, NEW b \in Int, NEW d \in Nat
    PROVE  /\ a * d \in Int /\ (a + 1) * d = a * d + d /\ (a - 1) * d = a * d - d
           /\ a <= b => a * d <= b * d
           /\ a \in Nat => a * d \in Nat
<1>1. a <= b => a * d <= b * d
  <2> SUFFICES ASSUME a <= b PROVE a * d <= b * d
    OBVIOUS
  <2>1. b - a \in Nat
    OBVIOUS
  <2>2. (b - a) * d \in Nat
    <3> DEFINE e == b - a
    <3>1. e \in Nat BY <2>1
    <3> HIDE DEF e
    <3>2. e * d \in Nat
      BY <3>1
    <3>3. QED BY <3>2 DEF e
  <2>3. (b - a) * d = b * d - a * d
    OBVIOUS
  <2>4. QED
    BY <2>2, <2>3
<1>2. a * d \in Int /\ (a + 1) * d = a * d + d /\ (a - 1) * d = a * d - d
  OBVIOUS
<1>3. QED
  BY <1>1, <1>2

\* split_file gives a sequence of ceil(Len / ChunkSize) chunks.
LEMMA SplitLength ==
    ASSUME NEW h \in Seq(STRING)
    PROVE  /\ split_file(h) \in Seq(Seq(STRING))
           /\ Len(split_file(h)) = (Len(h) + ChunkSize - 1) \div ChunkSize
           /\ Len(split_file(h)) \in Nat
           /\ DOMAIN split_file(h) = 1 .. Len(split_file(h))
           /\ Len(h) <= Len(split_file(h)) * ChunkSize
           /\ Len(split_file(h)) * ChunkSize <= Len(h) + ChunkSize - 1
<1> DEFINE C == (Len(h) + ChunkSize - 1) \div ChunkSize
<1>1. C \in Nat /\ Len(h) <= C * ChunkSize /\ C * ChunkSize <= Len(h) + ChunkSize - 1
  BY Chunked
<1> HIDE DEF C
<1>2. split_file(h) = [k \in 1 .. C |->
         SubSeq(h, (k - 1) * ChunkSize + 1, Lesser(k * ChunkSize, Len(h)))]
  BY DEF split_file, C
<1>3. ASSUME NEW k \in 1 .. C
      PROVE  SubSeq(h, (k - 1) * ChunkSize + 1, Lesser(k * ChunkSize, Len(h))) \in Seq(STRING)
  <2>1. (k - 1) * ChunkSize \in Nat /\ k * ChunkSize \in Nat
    <3>1. k - 1 \in Nat /\ k - 1 \in Int /\ k \in Nat /\ ChunkSize \in Nat
      BY <1>1, ChunkSizeAssumption
    <3>2. QED
      BY <3>1, Times
  <2> DEFINE from == (k - 1) * ChunkSize + 1
             to == Lesser(k * ChunkSize, Len(h))
  <2>2. from \in 1 .. from /\ from \in Nat /\ from >= 1 /\ to \in Nat /\ to <= Len(h)
    BY <2>1 DEF Lesser
  <2> HIDE DEF from, to
  <2>3. SubSeq(h, from, to) \in Seq(STRING)
    BY <2>2
  <2>4. QED
    BY <2>3 DEF from, to
<1>4. split_file(h) \in Seq(Seq(STRING)) /\ Len(split_file(h)) = C /\ DOMAIN split_file(h) = 1 .. C
  <2> DEFINE f == [k \in 1 .. C |->
         SubSeq(h, (k - 1) * ChunkSize + 1, Lesser(k * ChunkSize, Len(h)))]
  <2>1. f \in [1 .. C -> Seq(STRING)]
    BY <1>3
  <2> HIDE DEF f
  <2>2. f \in Seq(Seq(STRING)) /\ Len(f) = C /\ DOMAIN f = 1 .. C
    BY <1>1, <2>1
  <2>3. QED
    BY <1>2, <2>2 DEF f
<1>5. QED
  BY <1>1, <1>4 DEF C

\* Every chunk but a short last one has ChunkSize units.
LEMMA PieceLength ==
    ASSUME NEW h \in Seq(STRING), NEW k \in DOMAIN split_file(h)
    PROVE  LET C == Len(split_file(h))
               rest == Len(h) % ChunkSize
           IN  Len(split_file(h)[k]) = IF k < C \/ rest = 0 THEN ChunkSize ELSE rest
<1> DEFINE C == Len(split_file(h))
           L == Len(h)
           rest == L % ChunkSize
           q == L \div ChunkSize
           P == (k - 1) * ChunkSize
           Q == C * ChunkSize
<1>1. /\ L \in Nat /\ ChunkSize \in Nat /\ ChunkSize >= 1
      /\ C \in Nat /\ k \in 1 .. C
      /\ L <= Q /\ Q <= L + ChunkSize - 1
  <2>1. L \in Nat /\ ChunkSize \in Nat /\ ChunkSize >= 1
    BY ChunkSizeAssumption
  <2>2. C \in Nat /\ k \in 1 .. C /\ L <= Q /\ Q <= L + ChunkSize - 1
    BY SplitLength
  <2>3. QED
    BY <2>1, <2>2
<1>2. split_file(h)[k] = SubSeq(h, P + 1, Lesser(k * ChunkSize, L))
  BY DEF split_file
<1>3. q \in Nat /\ rest \in 0 .. ChunkSize - 1 /\ L = q * ChunkSize + rest
  <2>0. L \in Nat /\ ChunkSize \in Nat \ {0}
    BY <1>1
  <2>1. q \in Nat /\ rest \in 0 .. ChunkSize - 1 /\ L = ChunkSize * q + rest
    <3> HIDE DEF L
    <3>1. QED
      BY <2>0, Division
  <2> HIDE DEF q, rest, L
  <2>2. ChunkSize * q = q * ChunkSize
    BY <1>1, <2>1
  <2>3. QED
    BY <2>1, <2>2
<1> HIDE DEF C, L, rest, q, Q
<1>4. /\ P \in Nat /\ k * ChunkSize = P + ChunkSize
      /\ k < C => k * ChunkSize <= Q - ChunkSize
      /\ k = C => k * ChunkSize = Q
  <2>1. k - 1 \in Nat /\ k \in Int /\ C \in Int /\ k - 1 \in Int /\ C - 1 \in Int
    BY <1>1
  <2>2. P \in Nat /\ P = k * ChunkSize - ChunkSize /\ k * ChunkSize \in Int
    BY <1>1, <2>1, Times
  <2>3. (C - 1) * ChunkSize = Q - ChunkSize
    BY <1>1, <2>1, Times DEF Q
  <2>4. k <= C - 1 => k * ChunkSize <= (C - 1) * ChunkSize
    BY <1>1, <2>1, Times
  <2> HIDE DEF P
  <2>5. k < C => k <= C - 1
    BY <1>1
  <2>6. QED
    BY <1>1, <2>2, <2>3, <2>4, <2>5 DEF Q
<1> DEFINE to == Lesser(k * ChunkSize, L)
<1> HIDE DEF P
<1>5. to \in Nat /\ to <= L /\ P + 1 \in Nat /\ P + 1 >= 1
  BY <1>1, <1>4 DEF Lesser
<1>6. Q \in Int
  BY <1>1 DEF Q
<1>7. CASE k < C
  <2>1. to = P + ChunkSize
    BY <1>1, <1>4, <1>6, <1>7 DEF Lesser
  <2> HIDE DEF to
  <2>2. Len(SubSeq(h, P + 1, to)) = ChunkSize
    BY <1>1, <1>4, <1>5, <2>1 DEF L
  <2>3. QED
    BY <1>2, <1>7, <2>2 DEF to, C, L, rest
<1>8. CASE k = C
  <2>1. to = L /\ Q = P + ChunkSize
    BY <1>1, <1>4, <1>6, <1>8 DEF Lesser
  <2>2. P < L
    BY <1>1, <1>4, <1>6, <2>1
  <2> HIDE DEF to
  <2>3. Len(SubSeq(h, P + 1, to)) = L - P
    BY <1>1, <1>4, <1>5, <2>1, <2>2 DEF L
  <2>4. L - P = IF rest = 0 THEN ChunkSize ELSE rest
    <3>1. q <= k - 1 => q * ChunkSize <= P
      BY <1>1, <1>3, Times DEF P
    <3>2. k - 1 <= q => P <= q * ChunkSize
      BY <1>1, <1>3, Times DEF P
    <3>3. k <= q => k * ChunkSize <= q * ChunkSize
      BY <1>1, <1>3, Times
    <3>4. q <= k => q * ChunkSize <= k * ChunkSize
      BY <1>1, <1>3, Times
    <3>5. q * ChunkSize \in Nat
      BY <1>1, <1>3, Times
    <3> DEFINE qc == q * ChunkSize
               kc == k * ChunkSize
    <3> HIDE DEF qc, kc
    <3>6. q <= k - 1 \/ k <= q
      BY <1>1, <1>3
    <3>7. CASE q <= k - 1
      <4>1. qc <= P /\ kc = P + ChunkSize /\ L = qc + rest /\ qc \in Nat /\ L <= kc /\ P < L
        BY <1>1, <1>3, <1>4, <1>8, <2>2, <3>1, <3>5, <3>7 DEF qc, kc
      <4>2. q + 1 <= k - 1 => qc + ChunkSize <= P
        BY <1>1, <1>3, Times DEF P, qc
      <4>3. ~(q + 1 <= k - 1)
        BY <1>1, <1>3, <1>4, <4>1, <4>2
      <4>4. q = k - 1
        BY <1>1, <1>3, <3>7, <4>3
      <4>5. qc = P
        BY <4>4 DEF qc, P
      <4>6. QED
        BY <1>1, <1>3, <1>4, <2>2, <4>1, <4>5
    <3>8. CASE k <= q
      <4>1. kc <= qc /\ kc = P + ChunkSize /\ L = qc + rest /\ qc \in Nat /\ L <= kc
        BY <1>1, <1>3, <1>4, <1>8, <3>3, <3>5, <3>8 DEF qc, kc
      <4>2. rest = 0 /\ L = kc
        BY <1>1, <1>3, <1>4, <4>1
      <4>3. QED
        BY <1>1, <1>4, <4>1, <4>2
    <3>9. QED
      BY <3>6, <3>7, <3>8
  <2>5. Len(split_file(h)[k]) = IF rest = 0 THEN ChunkSize ELSE rest
    BY <1>2, <2>3, <2>4 DEF to
  <2>6. ~(k < C)
    BY <1>1, <1>8
  <2>7. QED
    BY <2>5, <2>6 DEF C, L, rest
<1>9. QED
  BY <1>1, <1>7, <1>8

\* Size and chunk hashes of one content: the helpers of FileMetadata agree with them.
LEMMA RowSizes ==
    ASSUME NEW h \in Seq(STRING), NEW row,
           row.chunk_hashes = split_file(h), row.file_size = Len(h)
    PROVE  /\ metadata_complete(row) <=> h # <<>>
           /\ total_chunks(row) = Len(split_file(h))
           /\ \A i \in 0 .. Len(row.chunk_hashes) - 1 :
                 get_chunk_size(row, i) = Len(row.chunk_hashes[i + 1])
<1> DEFINE C == Len(split_file(h))
<1>1. /\ C \in Nat /\ Len(h) \in Nat /\ ChunkSize \in Nat /\ ChunkSize >= 1
      /\ split_file(h) \in Seq(Seq(STRING)) /\ DOMAIN split_file(h) = 1 .. C
      /\ C = (Len(h) + ChunkSize - 1) \div ChunkSize
      /\ Len(h) <= C * ChunkSize /\ C * ChunkSize <= Len(h) + ChunkSize - 1
  BY SplitLength, ChunkSizeAssumption
<1>2. total_chunks(row) = C
  BY <1>1 DEF total_chunks
<1>3. C = 0 <=> h = <<>>
  <2> HIDE DEF C
  <2>1. C = 0 => C * ChunkSize = 0
    BY <1>1
  <2>2. C >= 1 => 1 * ChunkSize <= C * ChunkSize
    <3>1. 1 \in Int /\ C \in Int
      BY <1>1
    <3>2. QED
      BY <1>1, <3>1, Times
  <2>3. C * ChunkSize \in Int
    BY <1>1, Times
  <2>4. h = <<>> <=> Len(h) = 0
    OBVIOUS
  <2>5. QED
    BY <1>1, <2>1, <2>2, <2>3, <2>4
<1>4. metadata_complete(row) <=> h # <<>>
  BY <1>1, <1>2, <1>3 DEF metadata_complete
<1>5. ASSUME NEW i \in 0 .. C - 1
      PROVE  get_chunk_size(row, i) = Len(split_file(h)[i + 1])
  <2>1. i + 1 \in DOMAIN split_file(h) /\ C # 0 /\ i \in Int
    BY <1>1
  <2>2. Len(split_file(h)[i + 1]) =
           IF i + 1 < C \/ Len(h) % ChunkSize = 0 THEN ChunkSize ELSE Len(h) % ChunkSize
    BY <2>1, PieceLength
  <2> HIDE DEF C
  <2>3. i + 1 < C <=> i < C - 1
    BY <1>1, <2>1
  <2>4. ~(i < C - 1) => i = C - 1
    BY <1>1, <2>1
  <2>5. QED
    BY <2>1, <2>2, <2>3, <2>4 DEF get_chunk_size, C
<1>6. QED
  BY <1>2, <1>4, <1>5

\* A count of rows that is too small leaves a chunk out, whatever rows there are besides.
LEMMA CountsRows ==
    ASSUME IsFiniteSet(chunks), NEW h, NEW t \in Nat,
           \A i \in 0 .. t - 1 : <<h, i>> \in chunks
    PROVE  ~(Cardinality(RowsOf(h)) < t)
<1> SUFFICES ASSUME Cardinality(RowsOf(h)) < t PROVE FALSE
  OBVIOUS
<1> DEFINE S == 0 .. t - 1
           f == [i \in S |-> <<h, i>>]
<1>1. IsFiniteSet(RowsOf(h)) /\ Cardinality(RowsOf(h)) \in Nat
  BY FS_Subset, FS_CardinalityType DEF RowsOf
<1>2. IsFiniteSet(S) /\ Cardinality(S) = t
  <2>1. 0 \in Int /\ t - 1 \in Int
    OBVIOUS
  <2>2. IsFiniteSet(S) /\ Cardinality(S) = IF 0 > t - 1 THEN 0 ELSE (t - 1) - 0 + 1
    BY <2>1, FS_Interval
  <2> HIDE DEF S
  <2>3. QED
    BY <1>1, <2>2
<1>3. f \in [S -> RowsOf(h)]
  BY DEF RowsOf
<1> HIDE DEF f, S
<1>4. \E x, y \in S : x # y /\ f[x] = f[y]
  BY <1>1, <1>2, <1>3, FS_PigeonHole
<1>5. QED
  BY <1>4 DEF f

-----------------------------------------------------------------------------
ShareType ==
    [pc: {"idle", "sized", "chunked", "hashed", "adding"}, meta: Metadata,
     hash: Contents \cup {<<>>}, next: Nat, lost: BOOLEAN]

LEMMA BlankType == Blank \in Metadata /\ Idle \in ShareType /\ ~Torn(Blank)
BY DEF Blank, Unread, Metadata, Idle, ShareType, Torn

LEMMA IdleGood ==
    /\ Idle.pc = "idle" /\ Idle.next <= Len(Idle.meta.chunk_hashes)
    /\ \A dsk, ed : SourceGood(Idle, dsk, ed)
    /\ \A rows : AddingGood(Idle, rows)
BY DEF Idle, Blank, Unread, SourceGood, AddingGood, BeforeRow

LEMMA InitIInv == IndexInit => IInv
<1> SUFFICES ASSUME IndexInit PROVE IInv
  OBVIOUS
<1>1. \A p \in Procs : share[p] = Idle
  BY DEF IndexInit
<1>2. DOMAIN files = {}
  BY DEF IndexInit
<1>3. IndexTypeOK
  <2>1. share \in [Procs -> ShareType]
    BY BlankType DEF IndexInit
  <2>2. \A p \in Procs : share[p].next <= Len(share[p].meta.chunk_hashes)
    BY <1>1, IdleGood
  <2>3. edits \in [Paths -> 0 .. MaxEdits] /\ clock \in 0 .. MaxNow
    BY StorageAssumption DEF IndexInit
  <2>4. QED
    BY <1>2, <2>1, <2>2, <2>3 DEF IndexTypeOK, IndexInit, ShareType
<1>4. IsFiniteSet(chunks)
  BY FS_EmptySet DEF IndexInit
<1>5. Sources /\ Adding
  BY <1>1, IdleGood DEF Sources, Adding
<1>6. Rows
  BY <1>2 DEF Rows
<1>7. SharedWhole
  BY DEF SharedWhole, IndexInit
<1>8. Ids
  BY <1>1, <1>2, IdleGood DEF Ids, BeforeRow
<1>9. QED
  BY <1>3, <1>4, <1>5, <1>6, <1>7, <1>8 DEF IInv

-----------------------------------------------------------------------------
\* A command is the only one to change its own state.
LEMMA OthersStay ==
    ASSUME IInv, NEW p \in Procs, NEW s, share' = [share EXCEPT ![p] = s]
    PROVE  share'[p] = s /\ \A r \in Procs \ {p} : share'[r] = share[r]
BY DEF IInv, IndexTypeOK

\* Parts of the invariant that a step of one command keeps, from what its state becomes.
LEMMA OneShare ==
    ASSUME IInv, NEW p \in Procs, NEW s \in ShareType, share' = [share EXCEPT ![p] = s],
           s.next <= Len(s.meta.chunk_hashes)
    PROVE  /\ (share \in [Procs -> ShareType])'
           /\ \A r \in Procs : share'[r].next <= Len(share'[r].meta.chunk_hashes)
           /\ UNCHANGED <<disk, edits>> /\ SourceGood(s, disk, edits) => Sources'
           /\ chunks \subseteq chunks' /\ AddingGood(s, chunks') => Adding'
<1>1. share'[p] = s /\ \A r \in Procs \ {p} : share'[r] = share[r]
  BY OthersStay
<1>2. share' \in [Procs -> ShareType]
  BY DEF IInv, IndexTypeOK, ShareType
<1>3. \A r \in Procs : share'[r].next <= Len(share'[r].meta.chunk_hashes)
  BY <1>1 DEF IInv, IndexTypeOK
<1>4. ASSUME UNCHANGED <<disk, edits>>, SourceGood(s, disk, edits)
      PROVE  Sources'
  <2>1. ASSUME NEW r \in Procs
        PROVE  SourceGood(share'[r], disk, edits)
    <3>1. CASE r = p
      BY <1>1, <1>4, <3>1
    <3>2. CASE r # p
      <4>1. SourceGood(share[r], disk, edits) /\ share'[r] = share[r]
        BY <1>1, <3>2 DEF IInv, Sources
      <4>2. QED
        BY <4>1
    <3>3. QED
      BY <3>1, <3>2
  <2>2. \A r \in Procs : SourceGood(share'[r], disk', edits')
    BY <1>4, <2>1
  <2>3. QED
    BY <2>2 DEF Sources, SourceGood, Describes, Torn
<1>5. ASSUME chunks \subseteq chunks', AddingGood(s, chunks')
      PROVE  Adding'
  <2>1. ASSUME NEW r \in Procs
        PROVE  AddingGood(share'[r], chunks')
    <3>1. CASE r = p
      BY <1>1, <1>5, <3>1
    <3>2. CASE r # p
      <4>1. AddingGood(share[r], chunks) /\ share'[r] = share[r]
        BY <1>1, <3>2 DEF IInv, Adding
      <4>2. QED
        BY <1>5, <4>1 DEF AddingGood
    <3>3. QED
      BY <3>1, <3>2
  <2>2. QED
    BY <2>1 DEF Adding, AddingGood
<1>6. QED
  BY <1>2, <1>3, <1>4, <1>5

\* A command that goes idle, or goes on under its file id without adding a row.
LEMMA SameIds ==
    ASSUME IInv, NEW p \in Procs, NEW s, share' = [share EXCEPT ![p] = s],
           UNCHANGED <<files, clock>>,
           \/ s.pc = "idle"
           \/ /\ share[p].pc # "idle" /\ Stamp(s.meta) = Stamp(share[p].meta)
              /\ s.pc \in BeforeRow => share[p].pc \in BeforeRow
    PROVE  Ids'
<1>1. share'[p] = s /\ \A r \in Procs \ {p} : share'[r] = share[r]
  BY OthersStay
<1>2. \A r \in Procs : share'[r].pc # "idle" =>
         share[r].pc # "idle" /\ Stamp(share'[r].meta) = Stamp(share[r].meta)
  BY <1>1
<1>3. \A r \in Procs : share'[r].pc \in BeforeRow =>
         share[r].pc \in BeforeRow /\ Stamp(share'[r].meta) = Stamp(share[r].meta)
  BY <1>1 DEF BeforeRow
<1>4. Ids /\ files' = files /\ clock' = clock
  BY DEF IInv
<1>5. QED
  BY <1>2, <1>3, <1>4 DEF Ids, Stamp

\* Steps that change nothing but where one command stands.
LEMMA OnlyShare ==
    ASSUME IInv, NEW p \in Procs, NEW s \in ShareType, share' = [share EXCEPT ![p] = s],
           UNCHANGED <<disk, edits, files, chunks, clock, shared>>,
           s.next <= Len(s.meta.chunk_hashes),
           SourceGood(s, disk, edits), AddingGood(s, chunks),
           \/ s.pc = "idle"
           \/ /\ share[p].pc # "idle" /\ Stamp(s.meta) = Stamp(share[p].meta)
              /\ s.pc \in BeforeRow => share[p].pc \in BeforeRow
    PROVE  IInv'
<1>1. /\ share' \in [Procs -> ShareType]
      /\ \A r \in Procs : share'[r].next <= Len(share'[r].meta.chunk_hashes)
      /\ Sources' /\ Adding'
  BY OneShare
<1>2. Ids'
  BY SameIds
<1>3. IndexTypeOK'
  BY <1>1 DEF IInv, IndexTypeOK, ShareType
<1>4. Rows' /\ SharedWhole' /\ IsFiniteSet(chunks')
  <2>1. Rows'
    BY DEF IInv, Rows, RowGood, Describes, Torn
  <2>2. SharedWhole'
    BY DEF IInv, SharedWhole, Torn
  <2>3. QED
    BY <2>1, <2>2 DEF IInv
<1>5. QED
  BY <1>1, <1>2, <1>3, <1>4 DEF IInv

LEMMA GoesIdle ==
    ASSUME IInv, NEW p \in Procs, Become(p, Idle),
           UNCHANGED <<disk, edits, files, chunks, clock, shared>>
    PROVE  IInv'
<1>1. Idle \in ShareType /\ share' = [share EXCEPT ![p] = Idle]
  BY BlankType DEF Become
<1>2. QED
  BY <1>1, IdleGood, OnlyShare

\* What the type invariant says of one command.
LEMMA OneType ==
    ASSUME IInv, NEW p \in Procs
    PROVE  /\ share[p] \in ShareType /\ share[p].meta \in Metadata
           /\ share[p].next <= Len(share[p].meta.chunk_hashes)
           /\ share[p].pc # "idle" =>
                 /\ share[p].meta.file_path \in Paths
                 /\ disk[share[p].meta.file_path] \in Contents \cup {Gone}
                 /\ edits[share[p].meta.file_path] \in Nat
                 /\ share[p].meta.seen <= edits[share[p].meta.file_path]
           /\ share[p].pc \in BeforeRow => share[p].next = 0
<1>1. share[p] \in ShareType /\ share[p].meta \in Metadata
  BY DEF IInv, IndexTypeOK, ShareType
<1>2. share[p].next <= Len(share[p].meta.chunk_hashes)
  BY DEF IInv, IndexTypeOK
<1>3. share[p].pc # "idle" => /\ share[p].meta.file_path \in Paths
                              /\ share[p].meta.seen <= edits[share[p].meta.file_path]
  BY DEF IInv, Sources, SourceGood
<1>4. QED
  BY <1>1, <1>2, <1>3, StorageAssumption DEF IInv, IndexTypeOK, Adding, AddingGood

LEMMA ShareChunksPreserves ==
    ASSUME IInv, NEW p \in Procs, ShareChunks(p)
    PROVE  IInv'
<1> DEFINE m == share[p].meta
           q == m.file_path
           cut == IF disk[q] = Gone THEN <<>> ELSE split_file(disk[q])
           n == [m EXCEPT !.chunk_hashes = cut]
           s == [share[p] EXCEPT !.pc = "chunked", !.meta = n]
<1>1. /\ share[p].pc = "sized" /\ share[p] \in ShareType /\ m \in Metadata
      /\ q \in Paths /\ disk[q] \in Contents \cup {Gone} /\ edits[q] \in Nat
      /\ m.seen <= edits[q] /\ share[p].next = 0
  BY OneType DEF ShareChunks, At, BeforeRow
<1>2. cut \in Seq(Seq(STRING))
  <2>1. CASE disk[q] = Gone
    BY <2>1
  <2>2. CASE disk[q] # Gone
    <3>1. disk[q] \in Seq(STRING)
      BY <1>1, <2>2, StorageAssumption
    <3>2. QED
      BY <2>2, <3>1, SplitLength
  <2>3. QED
    BY <2>1, <2>2
<1>3. share' = [share EXCEPT ![p] = s]
  BY DEF ShareChunks, Become
<1>4. /\ n \in Metadata /\ n.file_path = q /\ n.seen = m.seen /\ n.file_size = m.file_size
      /\ n.chunk_hashes = cut /\ n.file_id = m.file_id
  <2> HIDE DEF cut
  <2>1. QED
    BY <1>1, <1>2 DEF Metadata
<1>5. s \in ShareType /\ s.pc = "chunked" /\ s.meta = n /\ s.next = 0
  <2> HIDE DEF n
  <2>1. QED
    BY <1>1, <1>4 DEF ShareType
<1>6. SourceGood(s, disk, edits)
  <2>1. m.seen = edits[q] => disk[q] # Gone /\ m.file_size = Len(disk[q])
    BY <1>1 DEF IInv, Sources, SourceGood
  <2> HIDE DEF n, s, m, q
  <2>2. QED
    BY <1>1, <1>4, <1>5, <2>1 DEF SourceGood
<1>7. s.next <= Len(s.meta.chunk_hashes) /\ AddingGood(s, chunks)
  <2> HIDE DEF n, s, m, q, cut
  <2>1. QED
    BY <1>2, <1>4, <1>5 DEF AddingGood
<1>8. Stamp(s.meta) = Stamp(share[p].meta) /\ share[p].pc \in BeforeRow /\ share[p].pc # "idle"
  <2> HIDE DEF n, s
  <2>1. QED
    BY <1>1, <1>4, <1>5 DEF Stamp, BeforeRow
<1>9. UNCHANGED <<disk, edits, files, chunks, clock, shared>>
  BY DEF ShareChunks
<1> HIDE DEF s
<1>10. QED
  BY <1>3, <1>5, <1>6, <1>7, <1>8, <1>9, OnlyShare

LEMMA ShareHashPreserves ==
    ASSUME IInv, NEW p \in Procs, ShareHash(p)
    PROVE  IInv'
<1> DEFINE m == share[p].meta
           q == m.file_path
           n == [m EXCEPT !.created_at = clock, !.hashed_at = edits[q]]
           s == [share[p] EXCEPT !.pc = "hashed", !.hash = disk[q], !.meta = n]
<1>1. /\ share[p].pc = "chunked" /\ share[p] \in ShareType /\ m \in Metadata
      /\ q \in Paths /\ disk[q] \in Contents \cup {Gone} /\ edits[q] \in Nat
      /\ m.seen <= edits[q] /\ share[p].next = 0 /\ clock \in Nat
  BY OneType, StorageAssumption DEF ShareHash, At, BeforeRow, IInv, IndexTypeOK
<1>2. UNCHANGED <<disk, edits, files, chunks, clock, shared>>
  BY DEF ShareHash
<1>3. CASE disk[q] = Gone
  <2>1. Become(p, Idle)
    BY <1>3 DEF ShareHash
  <2>2. QED
    BY <1>2, <2>1, GoesIdle
<1>4. CASE disk[q] # Gone
  <2>1. share' = [share EXCEPT ![p] = s]
    BY <1>4 DEF ShareHash, Become
  <2>2. /\ n \in Metadata /\ n.file_path = q /\ n.seen = m.seen /\ n.file_size = m.file_size
        /\ n.chunk_hashes = m.chunk_hashes /\ n.file_id = m.file_id /\ n.hashed_at = edits[q]
    BY <1>1 DEF Metadata
  <2>3. /\ s \in ShareType /\ s.pc = "hashed" /\ s.meta = n /\ s.next = 0 /\ s.hash = disk[q]
        /\ disk[q] \in Contents
    <3> HIDE DEF n
    <3>1. QED
      BY <1>1, <1>4, <2>2 DEF ShareType
  <2>4. m.seen = edits[q] => m.chunk_hashes = split_file(disk[q]) /\ m.file_size = Len(disk[q])
    BY <1>1 DEF IInv, Sources, SourceGood
  <2>5. m.chunk_hashes \in Seq(Seq(STRING))
    BY <1>1 DEF Metadata
  <2> HIDE DEF m, q, n, s
  <2>6. Describes(n, disk[q], disk, edits)
    BY <1>1, <2>2, <2>4 DEF Describes, Torn
  <2>7. SourceGood(s, disk, edits)
    BY <1>1, <2>2, <2>3, <2>6 DEF SourceGood
  <2>8. s.next <= Len(s.meta.chunk_hashes) /\ AddingGood(s, chunks)
    BY <2>2, <2>3, <2>5 DEF AddingGood
  <2>9. Stamp(s.meta) = Stamp(share[p].meta) /\ share[p].pc \in BeforeRow /\ share[p].pc # "idle"
    BY <1>1, <2>2, <2>3 DEF Stamp, BeforeRow, m
  <2>10. QED
    BY <1>2, <2>1, <2>3, <2>7, <2>8, <2>9, OnlyShare
<1>5. QED
  BY <1>3, <1>4

LEMMA ShareSizePreserves ==
    ASSUME IInv, NEW p \in Procs, NEW q \in Paths, ShareSize(p, q)
    PROVE  IInv'
<1> DEFINE m == Unread(<<q, clock + 1>>, q, Len(disk[q]), edits[q])
           s == [Idle EXCEPT !.pc = "sized", !.meta = m]
<1>1. /\ share[p].pc = "idle" /\ disk[q] \in Contents /\ disk[q] # Gone /\ clock \in 0 .. MaxNow
      /\ clock < MaxNow /\ edits[q] \in 0 .. MaxEdits /\ clock' = clock + 1
  BY DEF ShareSize, At, IInv, IndexTypeOK
<1>2. UNCHANGED <<disk, edits, files, chunks, shared>>
  BY DEF ShareSize
<1>3. share' = [share EXCEPT ![p] = s]
  BY <1>1 DEF ShareSize, Become
<1>4. /\ m \in Metadata /\ m.file_id = <<q, clock + 1>> /\ m.file_path = q
      /\ m.file_size = Len(disk[q]) /\ m.seen = edits[q] /\ m.chunk_hashes = <<>>
  <2>1. Len(disk[q]) \in Nat /\ edits[q] \in Nat /\ clock + 1 \in Nat
    BY <1>1, StorageAssumption
  <2>2. QED
    BY <2>1 DEF Unread, Metadata
<1> HIDE DEF m
<1>5. s \in ShareType /\ s.pc = "sized" /\ s.meta = m /\ s.next = 0
  BY <1>4, BlankType DEF ShareType, Idle
<1> HIDE DEF s
<1>6. SourceGood(s, disk, edits) /\ AddingGood(s, chunks')
  BY <1>1, <1>4, <1>5 DEF SourceGood, AddingGood
<1>7. /\ share' \in [Procs -> ShareType]
      /\ \A r \in Procs : share'[r].next <= Len(share'[r].meta.chunk_hashes)
      /\ Sources' /\ Adding'
  <2>1. s.next <= Len(s.meta.chunk_hashes) /\ chunks \subseteq chunks'
    BY <1>2, <1>4, <1>5
  <2>2. QED
    BY <1>2, <1>3, <1>5, <1>6, <2>1, OneShare
<1>8. IndexTypeOK'
  <2>1. clock' \in 0 .. MaxNow
    BY <1>1, StorageAssumption
  <2>2. QED
    BY <1>2, <1>7, <2>1 DEF IInv, IndexTypeOK, ShareType
<1>9. Rows' /\ SharedWhole' /\ IsFiniteSet(chunks')
  <2>1. Rows'
    BY <1>2 DEF IInv, Rows, RowGood, Describes, Torn
  <2>2. SharedWhole'
    BY <1>2 DEF IInv, SharedWhole, Torn
  <2>3. QED
    BY <1>2, <2>1, <2>2 DEF IInv
<1>10. Ids'
  <2>1. share'[p] = s /\ \A r \in Procs \ {p} : share'[r] = share[r]
    BY <1>3, OthersStay
  <2>2. Stamp(s.meta) = clock + 1 /\ files' = files /\ clock' = clock + 1 /\ clock \in Nat
    BY <1>1, <1>2, <1>4, <1>5, StorageAssumption DEF Stamp
  <2>3. \A h \in DOMAIN files : Stamp(files[h]) \in Nat
    BY DEF IInv, IndexTypeOK, Metadata, Stamp
  <2>4. \A r \in Procs : Stamp(share[r].meta) \in Nat
    BY OneType DEF Metadata, Stamp
  <2>5. Ids
    BY DEF IInv
  <2>6. \A h \in DOMAIN files : Stamp(files[h]) < clock + 1
    BY <2>2, <2>3, <2>5 DEF Ids
  <2>7. \A r \in Procs \ {p} : share'[r].pc # "idle" => Stamp(share'[r].meta) < clock + 1
    BY <2>1, <2>2, <2>4, <2>5 DEF Ids
  <2> HIDE DEF s
  <2>8. (\A h \in DOMAIN files : Stamp(files[h]) <= clock)'
    BY <2>2, <2>3, <2>6 DEF Stamp
  <2>9. (\A h, g \in DOMAIN files : Stamp(files[h]) = Stamp(files[g]) => h = g)'
    BY <2>2, <2>5 DEF Ids, Stamp
  <2>10. ASSUME NEW r \in Procs, share'[r].pc # "idle"
         PROVE  Stamp(share'[r].meta) <= clock'
    BY <2>1, <2>2, <2>4, <2>7, <2>10
  <2>11. ASSUME NEW r \in Procs, NEW u \in Procs, share'[r].pc # "idle", share'[u].pc # "idle",
                Stamp(share'[r].meta) = Stamp(share'[u].meta)
         PROVE  r = u
    <3>1. CASE r # p /\ u # p
      BY <2>1, <2>5, <2>11, <3>1 DEF Ids
    <3>2. CASE r = p \/ u = p
      BY <2>1, <2>2, <2>4, <2>7, <2>11, <3>2
    <3>3. QED
      BY <3>1, <3>2
  <2>12. ASSUME NEW r \in Procs, share'[r].pc \in BeforeRow, NEW h \in DOMAIN files
         PROVE  Stamp(files[h]) # Stamp(share'[r].meta)
    <3>1. CASE r # p
      BY <2>1, <2>5, <2>12, <3>1 DEF Ids
    <3>2. CASE r = p
      BY <2>1, <2>2, <2>3, <2>6, <3>2
    <3>3. QED
      BY <3>1, <3>2
  <2>13. QED
    BY <2>2, <2>8, <2>9, <2>10, <2>11, <2>12 DEF Ids, Stamp
<1>11. QED
  BY <1>7, <1>8, <1>9, <1>10 DEF IInv

\* What is known of a command that has chunks to add.
LEMMA MoreToAdd ==
    ASSUME IInv, NEW p \in Procs, At(p, "adding"), MoreChunks(p), NEW lost \in BOOLEAN
    PROVE  LET old == share[p]
               s == [old EXCEPT !.next = old.next + 1, !.lost = lost]
           IN  /\ s \in ShareType /\ s.pc = "adding" /\ s.meta = old.meta /\ s.hash = old.hash
               /\ s.next = old.next + 1 /\ s.lost = lost /\ old.next \in Nat
               /\ s.next <= Len(s.meta.chunk_hashes) /\ SourceGood(s, disk, edits)
               /\ old.hash \in Contents /\ AddingGood(old, chunks)
<1> DEFINE old == share[p]
           s == [old EXCEPT !.next = old.next + 1, !.lost = lost]
<1>1. old.pc = "adding" /\ old.next < Len(old.meta.chunk_hashes)
  BY DEF At, MoreChunks
<1>2. old \in ShareType /\ old.meta \in Metadata
  BY OneType
<1>3. old.next \in Nat /\ Len(old.meta.chunk_hashes) \in Nat
  BY <1>2 DEF ShareType, Metadata
<1>4. SourceGood(old, disk, edits) /\ AddingGood(old, chunks)
  BY DEF IInv, Sources, Adding
<1>5. old.hash \in Contents
  BY <1>1, <1>4 DEF SourceGood
<1>6. /\ s.pc = "adding" /\ s.meta = old.meta /\ s.hash = old.hash
      /\ s.next = old.next + 1 /\ s.lost = lost
  BY <1>1, <1>2 DEF ShareType
<1>7. s \in ShareType
  <2> DEFINE n == old.next + 1
  <2>1. n \in Nat
    BY <1>3
  <2> HIDE DEF n, old
  <2>2. [old EXCEPT !.next = n, !.lost = TRUE] \in ShareType
    BY <1>2, <2>1 DEF ShareType
  <2>3. [old EXCEPT !.next = n, !.lost = FALSE] \in ShareType
    BY <1>2, <2>1 DEF ShareType
  <2>4. lost = TRUE \/ lost = FALSE
    OBVIOUS
  <2>5. QED
    BY <2>2, <2>3, <2>4 DEF n
<1> HIDE DEF s, old
<1>8. SourceGood(s, disk, edits) /\ s.next <= Len(s.meta.chunk_hashes)
  BY <1>1, <1>3, <1>4, <1>6 DEF SourceGood
<1>9. QED
  BY <1>3, <1>4, <1>5, <1>6, <1>7, <1>8 DEF s, old

LEMMA AddChunkFailsPreserves ==
    ASSUME IInv, NEW p \in Procs, AddChunkFails(p)
    PROVE  IInv'
<1> DEFINE old == share[p]
           s == [old EXCEPT !.next = old.next + 1, !.lost = TRUE]
<1>1. /\ s \in ShareType /\ s.pc = "adding" /\ s.meta = old.meta /\ s.lost = TRUE
      /\ s.next <= Len(s.meta.chunk_hashes) /\ SourceGood(s, disk, edits)
  BY MoreToAdd DEF AddChunkFails
<1>2. share' = [share EXCEPT ![p] = s] /\ UNCHANGED <<disk, edits, files, chunks, clock, shared>>
  BY DEF AddChunkFails, Become
<1>3. old.pc = "adding"
  BY DEF AddChunkFails, At
<1> HIDE DEF s
<1>4. AddingGood(s, chunks)
  BY <1>1 DEF AddingGood, BeforeRow
<1>5. QED
  BY <1>1, <1>2, <1>3, <1>4, OnlyShare DEF BeforeRow

\* More rows of chunks hurt nobody.
LEMMA MoreRows ==
    ASSUME IInv, NEW h \in Contents, NEW i \in Nat, chunks' = chunks \cup {<<h, i>>},
           UNCHANGED <<files, shared>>
    PROVE  chunks' \subseteq Contents \X Nat /\ IsFiniteSet(chunks') /\ SharedWhole'
<1>1. chunks' \subseteq Contents \X Nat
  BY DEF IInv, IndexTypeOK
<1>2. IsFiniteSet(chunks')
  BY FS_AddElement DEF IInv
<1>3. SharedWhole'
  BY DEF IInv, SharedWhole, Torn
<1>4. QED
  BY <1>1, <1>2, <1>3

LEMMA AddChunkPreserves ==
    ASSUME IInv, NEW p \in Procs, AddChunk(p)
    PROVE  IInv'
<1> DEFINE old == share[p]
           s == [old EXCEPT !.next = old.next + 1, !.lost = old.lost]
<1>0. old \in ShareType /\ old.lost \in BOOLEAN /\ old.pc = "adding"
  BY OneType DEF ShareType, AddChunk, At
<1>1. /\ s \in ShareType /\ s.pc = "adding" /\ s.meta = old.meta /\ s.hash = old.hash
      /\ s.next = old.next + 1 /\ s.lost = old.lost /\ old.next \in Nat
      /\ s.next <= Len(s.meta.chunk_hashes) /\ SourceGood(s, disk, edits)
      /\ old.hash \in Contents /\ AddingGood(old, chunks)
  BY <1>0, MoreToAdd DEF AddChunk
<1>2. /\ share' = [share EXCEPT ![p] = s] /\ chunks' = chunks \cup {<<old.hash, old.next>>}
      /\ UNCHANGED <<disk, edits, files, clock, shared>>
  <2>1. s = [old EXCEPT !.next = old.next + 1]
    BY <1>0 DEF ShareType
  <2> HIDE DEF s
  <2>2. QED
    BY <2>1 DEF AddChunk, Become
<1> HIDE DEF s
<1>3. AddingGood(s, chunks')
  <2>1. ASSUME ~s.lost, NEW i \in 0 .. s.next - 1
        PROVE  <<s.hash, i>> \in chunks'
    <3> HIDE DEF old
    <3>1. CASE i = old.next
      BY <1>1, <1>2, <3>1
    <3>2. CASE i # old.next
      <4>1. i \in 0 .. old.next - 1
        BY <1>1, <3>2
      <4>2. QED
        BY <1>0, <1>1, <1>2, <2>1, <4>1 DEF AddingGood
    <3>3. QED
      BY <3>1, <3>2
  <2>2. QED
    BY <1>1, <2>1 DEF AddingGood, BeforeRow
<1>4. /\ share' \in [Procs -> ShareType]
      /\ \A r \in Procs : share'[r].next <= Len(share'[r].meta.chunk_hashes)
      /\ Sources' /\ Adding'
  BY <1>1, <1>2, <1>3, OneShare
<1>5. chunks' \subseteq Contents \X Nat /\ IsFiniteSet(chunks') /\ SharedWhole'
  BY <1>1, <1>2, MoreRows
<1>6. Ids'
  BY <1>0, <1>1, <1>2, SameIds DEF BeforeRow
<1>7. IndexTypeOK'
  BY <1>2, <1>4, <1>5 DEF IInv, IndexTypeOK, ShareType
<1>8. Rows'
  BY <1>2 DEF IInv, Rows, RowGood, Describes, Torn
<1>9. QED
  BY <1>4, <1>5, <1>6, <1>7, <1>8 DEF IInv

LEMMA AddReturnsPreserves ==
    ASSUME IInv, NEW p \in Procs, AddReturns(p)
    PROVE  IInv'
<1> DEFINE old == share[p]
           m == old.meta
<1>1. /\ old.pc = "adding" /\ old \in ShareType /\ m \in Metadata /\ old.next \in Nat
      /\ old.next <= Len(m.chunk_hashes) /\ ~(old.next < Len(m.chunk_hashes))
      /\ Len(m.chunk_hashes) \in Nat
  <2>1. old.pc = "adding" /\ ~(old.next < Len(m.chunk_hashes))
    BY DEF AddReturns, At, MoreChunks
  <2>2. QED
    BY <2>1, OneType DEF ShareType, Metadata
<1>2. old.next = Len(m.chunk_hashes)
  BY <1>1
<1>3. share' = [share EXCEPT ![p] = Idle] /\ UNCHANGED <<disk, edits, files, chunks, clock>>
  BY DEF AddReturns, Become
<1>4. old.hash \in Contents /\ Describes(m, old.hash, disk, edits) /\ AddingGood(old, chunks)
  BY <1>1 DEF IInv, Sources, SourceGood, Adding
<1>5. SharedWhole' /\ shared' \subseteq Contents
  <2>1. CASE shared' = shared
    BY <1>3, <2>1 DEF IInv, SharedWhole, Torn, IndexTypeOK
  <2>2. CASE /\ ~old.lost /\ ~Torn(m) /\ CleanRow(old.hash)
             /\ shared' = shared \cup {old.hash}
    <3>1. m.chunk_hashes = split_file(old.hash)
      BY <1>4, <2>2 DEF Describes
    <3>2. \A i \in 0 .. Len(split_file(old.hash)) - 1 : <<old.hash, i>> \in chunks
      BY <1>1, <1>2, <1>4, <2>2, <3>1 DEF AddingGood
    <3>3. \A h \in shared' : /\ h \in DOMAIN files /\ ~Torn(files[h])
                             /\ \A i \in 0 .. Len(split_file(h)) - 1 : <<h, i>> \in chunks
      BY <2>2, <3>2 DEF IInv, SharedWhole, CleanRow
    <3>4. SharedWhole'
      BY <1>3, <3>3 DEF SharedWhole, Torn
    <3>5. QED
      BY <1>4, <2>2, <3>4 DEF IInv, IndexTypeOK
  <2>3. QED
    BY <2>1, <2>2 DEF AddReturns
<1>6. /\ share' \in [Procs -> ShareType]
      /\ \A r \in Procs : share'[r].next <= Len(share'[r].meta.chunk_hashes)
      /\ Sources' /\ Adding'
  BY <1>3, BlankType, IdleGood, OneShare
<1>7. Ids'
  BY <1>3, IdleGood, SameIds
<1>8. IndexTypeOK'
  BY <1>3, <1>5, <1>6 DEF IInv, IndexTypeOK, ShareType
<1>9. Rows' /\ IsFiniteSet(chunks')
  BY <1>3 DEF IInv, Rows, RowGood, Describes, Torn
<1>10. QED
  BY <1>5, <1>6, <1>7, <1>8, <1>9 DEF IInv

-----------------------------------------------------------------------------
\* INSERT OR REPLACE of a good row.
LEMMA RowPut ==
    ASSUME IInv, NEW h \in Contents, NEW m \in Metadata, PutRow(h, m),
           RowGood(h, m, disk, edits), UNCHANGED <<disk, edits>>
    PROVE  /\ DOMAIN files' = DOMAIN files \cup {h} /\ files'[h] = m
           /\ \A g \in DOMAIN files \ {h} : files'[g] = files[g]
           /\ DOMAIN files' \subseteq Contents /\ \A g \in DOMAIN files' : files'[g] \in Metadata
           /\ Rows'
<1>1. /\ DOMAIN files' = DOMAIN files \cup {h} /\ files'[h] = m
      /\ \A g \in DOMAIN files \ {h} : files'[g] = files[g]
  BY DEF PutRow
<1>2. DOMAIN files' \subseteq Contents /\ \A g \in DOMAIN files' : files'[g] \in Metadata
  BY <1>1 DEF IInv, IndexTypeOK
<1>3. ASSUME NEW g \in DOMAIN files'
      PROVE  RowGood(g, files'[g], disk, edits)
  <2>1. CASE g = h
    BY <1>1, <2>1
  <2>2. CASE g # h
    <3>1. g \in DOMAIN files /\ files'[g] = files[g]
      BY <1>1, <2>2
    <3>2. RowGood(g, files[g], disk, edits)
      BY <3>1 DEF IInv, Rows
    <3>3. QED
      BY <3>1, <3>2
  <2>3. QED
    BY <2>1, <2>2
<1>4. \A g \in DOMAIN files' : RowGood(g, files'[g], disk', edits')
  BY <1>3
<1>5. Rows'
  BY <1>4 DEF Rows, RowGood, Describes, Torn
<1>6. QED
  BY <1>1, <1>2, <1>5

LEMMA AddRowPreserves ==
    ASSUME IInv, NEW p \in Procs, AddRow(p)
    PROVE  IInv'
<1> DEFINE old == share[p]
           m == old.meta
           h == old.hash
           s == [old EXCEPT !.pc = "adding"]
<1>1. /\ old.pc = "hashed" /\ old \in ShareType /\ m \in Metadata /\ old.next = 0
      /\ h \in Contents /\ Describes(m, h, disk, edits) /\ SourceGood(old, disk, edits)
      /\ m.file_path \in Paths /\ 0 <= Len(m.chunk_hashes)
  <2>1. old.pc = "hashed"
    BY DEF AddRow, At
  <2>2. SourceGood(old, disk, edits)
    BY DEF IInv, Sources
  <2>3. QED
    BY <2>1, <2>2, OneType DEF SourceGood, BeforeRow
<1>2. /\ share' = [share EXCEPT ![p] = s] /\ PutRow(h, m)
      /\ shared' = IF Torn(m) THEN shared \ {h} ELSE shared
      /\ UNCHANGED <<disk, edits, chunks, clock>>
  BY DEF AddRow, Become
<1>3. s \in ShareType /\ s.pc = "adding" /\ s.meta = m /\ s.hash = h /\ s.next = 0
  BY <1>1 DEF ShareType
<1>4. RowGood(h, m, disk, edits)
  BY <1>1, StorageAssumption DEF RowGood
<1> HIDE DEF s, m, h
<1>5. SourceGood(s, disk, edits) /\ AddingGood(s, chunks')
  BY <1>1, <1>3 DEF SourceGood, AddingGood, BeforeRow, m, h
<1>6. /\ share' \in [Procs -> ShareType]
      /\ \A r \in Procs : share'[r].next <= Len(share'[r].meta.chunk_hashes)
      /\ Sources' /\ Adding'
  <2>1. s.next <= Len(s.meta.chunk_hashes) /\ chunks \subseteq chunks'
    BY <1>1, <1>2, <1>3
  <2>2. QED
    BY <1>2, <1>3, <1>5, <2>1, OneShare
<1>7. /\ DOMAIN files' = DOMAIN files \cup {h} /\ files'[h] = m
      /\ \A g \in DOMAIN files \ {h} : files'[g] = files[g]
      /\ DOMAIN files' \subseteq Contents /\ \A g \in DOMAIN files' : files'[g] \in Metadata
      /\ Rows'
  BY <1>1, <1>2, <1>4, RowPut
<1>8. IndexTypeOK'
  BY <1>2, <1>6, <1>7 DEF IInv, IndexTypeOK, ShareType
<1>9. SharedWhole'
  <2>1. ASSUME NEW g \in shared'
        PROVE  /\ g \in DOMAIN files' /\ ~Torn(files'[g])
               /\ \A i \in 0 .. Len(split_file(g)) - 1 : <<g, i>> \in chunks'
    <3>1. g \in shared /\ (g = h => ~Torn(m))
      BY <1>2
    <3>2. /\ g \in DOMAIN files /\ ~Torn(files[g])
          /\ \A i \in 0 .. Len(split_file(g)) - 1 : <<g, i>> \in chunks
      BY <3>1 DEF IInv, SharedWhole
    <3>3. g \in DOMAIN files' /\ ~Torn(files'[g])
      BY <1>7, <3>1, <3>2
    <3>4. QED
      BY <1>2, <3>2, <3>3
  <2>2. QED
    BY <2>1 DEF SharedWhole, Torn
<1>10. Ids'
  <2>1. share'[p] = s /\ \A r \in Procs \ {p} : share'[r] = share[r]
    BY <1>2, OthersStay
  <2>2. Ids /\ clock' = clock /\ share[p].pc \in BeforeRow /\ share[p].pc # "idle"
        /\ Stamp(m) = Stamp(share[p].meta)
    BY <1>1, <1>2 DEF IInv, BeforeRow, m
  <2>3. \A r \in Procs : share'[r].pc # "idle" =>
           share[r].pc # "idle" /\ Stamp(share'[r].meta) = Stamp(share[r].meta)
    BY <1>3, <2>1, <2>2
  <2>4. \A r \in Procs : share'[r].pc \in BeforeRow => r # p /\ share[r].pc \in BeforeRow
    BY <1>3, <2>1, <2>2 DEF BeforeRow
  <2>5. \A g \in DOMAIN files' : \/ g = h /\ Stamp(files'[g]) = Stamp(share[p].meta)
                                 \/ /\ g # h /\ g \in DOMAIN files
                                    /\ Stamp(files'[g]) = Stamp(files[g])
    BY <1>7, <2>2
  <2>6. \A g \in DOMAIN files' : Stamp(files'[g]) <= clock
    BY <2>2, <2>5 DEF Ids
  <2>7. ASSUME NEW g \in DOMAIN files', NEW k \in DOMAIN files',
               Stamp(files'[g]) = Stamp(files'[k])
        PROVE  g = k
    BY <2>2, <2>5, <2>7 DEF Ids
  <2>8. \A r \in Procs : share'[r].pc # "idle" => Stamp(share'[r].meta) <= clock
    BY <2>2, <2>3 DEF Ids
  <2>9. ASSUME NEW r \in Procs, NEW u \in Procs, share'[r].pc # "idle", share'[u].pc # "idle",
               Stamp(share'[r].meta) = Stamp(share'[u].meta)
        PROVE  r = u
    BY <2>2, <2>3, <2>9 DEF Ids
  <2>10. ASSUME NEW r \in Procs, share'[r].pc \in BeforeRow, NEW g \in DOMAIN files'
         PROVE  Stamp(files'[g]) # Stamp(share'[r].meta)
    <3>1. r # p /\ share[r].pc \in BeforeRow /\ share[r].pc # "idle"
          /\ share'[r] = share[r]
      BY <2>1, <2>4, <2>10 DEF BeforeRow
    <3>2. QED
      BY <2>2, <2>5, <3>1 DEF Ids
  <2>11. QED
    BY <2>2, <2>6, <2>7, <2>8, <2>9, <2>10 DEF Ids, Stamp
<1>11. QED
  BY <1>2, <1>6, <1>7, <1>8, <1>9, <1>10 DEF IInv

\* The commands are where they were, and so are the files they read.
LEMMA SharesStay ==
    ASSUME IInv, UNCHANGED <<disk, edits, share>>, chunks \subseteq chunks'
    PROVE  Sources' /\ Adding'
<1>1. Sources'
  BY DEF IInv, Sources, SourceGood, Describes, Torn
<1>2. Adding'
  BY DEF IInv, Adding, AddingGood
<1>3. QED
  BY <1>1, <1>2

LEMMA AddForDownloadPreserves ==
    ASSUME IInv, NEW h \in Contents, AddForDownload(h)
    PROVE  IInv'
<1> DEFINE b == Unread(<<NoPath, clock + 1>>, NoPath, Len(h), 0)
           m == [b EXCEPT !.created_at = clock + 1]
<1>1. clock \in Nat /\ clock + 1 \in 0 .. MaxNow /\ clock' = clock + 1 /\ Len(h) \in Nat
  BY StorageAssumption DEF AddForDownload, IInv, IndexTypeOK
<1>2. PutRow(h, m) /\ UNCHANGED <<disk, edits, chunks, share, shared>>
  BY <1>1 DEF AddForDownload
<1>3. b \in Metadata /\ Stamp(b) = clock + 1 /\ ~Torn(b) /\ b.file_size = Len(h)
      /\ b.file_path = NoPath
  BY <1>1 DEF Unread, Metadata, Stamp, Torn
<1> HIDE DEF b
<1>4. m \in Metadata /\ Stamp(m) = clock + 1 /\ ~Torn(m) /\ m.file_size = Len(h)
      /\ m.file_path = NoPath
  BY <1>1, <1>3 DEF Metadata, Stamp, Torn
<1> HIDE DEF m
<1>5. /\ DOMAIN files' = DOMAIN files \cup {h} /\ files'[h] = m
      /\ \A g \in DOMAIN files \ {h} : files'[g] = files[g]
      /\ DOMAIN files' \subseteq Contents /\ \A g \in DOMAIN files' : files'[g] \in Metadata
      /\ Rows'
  <2>1. RowGood(h, m, disk, edits)
    BY <1>4 DEF RowGood
  <2>2. QED
    BY <1>2, <1>4, <2>1, RowPut
<1>6. IndexTypeOK'
  BY <1>1, <1>2, <1>5 DEF IInv, IndexTypeOK
<1>7. Sources' /\ Adding'
  BY <1>2, SharesStay
<1>8. SharedWhole'
  <2>1. ASSUME NEW g \in shared'
        PROVE  /\ g \in DOMAIN files' /\ ~Torn(files'[g])
               /\ \A i \in 0 .. Len(split_file(g)) - 1 : <<g, i>> \in chunks'
    <3>1. /\ g \in DOMAIN files /\ ~Torn(files[g])
          /\ \A i \in 0 .. Len(split_file(g)) - 1 : <<g, i>> \in chunks
      BY <1>2 DEF IInv, SharedWhole
    <3>2. QED
      BY <1>2, <1>4, <1>5, <3>1
  <2>2. QED
    BY <2>1 DEF SharedWhole, Torn
<1>9. Ids'
  <2>1. Ids /\ share' = share
    BY <1>2 DEF IInv
  <2>2. \A g \in DOMAIN files : Stamp(files[g]) \in Nat
    BY DEF IInv, IndexTypeOK, Metadata, Stamp
  <2>3. \A r \in Procs : Stamp(share[r].meta) \in Nat
    BY OneType DEF Metadata, Stamp
  <2>4. \A g \in DOMAIN files' : \/ g = h /\ Stamp(files'[g]) = clock + 1
                                 \/ /\ g # h /\ g \in DOMAIN files
                                    /\ Stamp(files'[g]) = Stamp(files[g])
                                    /\ Stamp(files[g]) <= clock /\ Stamp(files[g]) \in Nat
    BY <1>4, <1>5, <2>1, <2>2 DEF Ids
  <2>5. \A r \in Procs : share[r].pc # "idle" =>
           Stamp(share[r].meta) <= clock /\ Stamp(share[r].meta) \in Nat
    BY <2>1, <2>3 DEF Ids
  <2>6. \A g \in DOMAIN files' : Stamp(files'[g]) <= clock'
    BY <1>1, <2>4
  <2>7. ASSUME NEW g \in DOMAIN files', NEW k \in DOMAIN files',
               Stamp(files'[g]) = Stamp(files'[k])
        PROVE  g = k
    <3>1. g = h <=> k = h
      BY <1>1, <2>4, <2>7
    <3>2. QED
      BY <2>1, <2>4, <2>7, <3>1 DEF Ids
  <2>8. \A r \in Procs : share[r].pc # "idle" => Stamp(share[r].meta) <= clock'
    BY <1>1, <2>5
  <2>9. ASSUME NEW r \in Procs, share[r].pc \in BeforeRow, NEW g \in DOMAIN files'
        PROVE  Stamp(files'[g]) # Stamp(share[r].meta)
    <3>1. share[r].pc # "idle"
      BY <2>9 DEF BeforeRow
    <3>2. CASE g = h
      BY <1>1, <2>4, <2>5, <3>1, <3>2
    <3>3. CASE g # h
      BY <2>1, <2>4, <2>9, <3>3 DEF Ids
    <3>4. QED
      BY <3>2, <3>3
  <2>10. QED
    BY <2>1, <2>6, <2>7, <2>8, <2>9 DEF Ids, Stamp
<1>10. QED
  BY <1>2, <1>5, <1>6, <1>7, <1>8, <1>9 DEF IInv

LEMMA UpdateChunkProgressPreserves ==
    ASSUME IInv, NEW h \in Contents, NEW i \in Nat, update_chunk_progress(h, i)
    PROVE  IInv'
<1>1. /\ chunks' = chunks \cup {<<h, i>>}
      /\ UNCHANGED <<disk, edits, files, share, clock, shared>>
  BY DEF update_chunk_progress
<1>2. chunks' \subseteq Contents \X Nat /\ IsFiniteSet(chunks') /\ SharedWhole'
  BY <1>1, MoreRows
<1>3. Sources' /\ Adding'
  BY <1>1, SharesStay
<1>4. IndexTypeOK'
  BY <1>1, <1>2 DEF IInv, IndexTypeOK
<1>5. Rows' /\ Ids'
  BY <1>1 DEF IInv, Rows, RowGood, Describes, Torn, Ids, Stamp
<1>6. QED
  BY <1>2, <1>3, <1>4, <1>5 DEF IInv

\* DELETE of rows: what is left is as it was.
LEMMA RowsDeleted ==
    ASSUME IInv, NEW K, K \subseteq DOMAIN files, files' = Restrict(files, K),
           UNCHANGED <<disk, edits, share, chunks, clock>>, shared' \subseteq shared,
           shared' \subseteq K
    PROVE  IInv'
<1>1. DOMAIN files' = K /\ \A g \in K : files'[g] = files[g]
  BY DEF Restrict
<1>2. IndexTypeOK'
  BY <1>1 DEF IInv, IndexTypeOK
<1>3. Sources' /\ Adding'
  BY SharesStay
<1>4. Rows'
  <2>1. \A g \in DOMAIN files' : RowGood(g, files'[g], disk, edits)
    BY <1>1 DEF IInv, Rows
  <2>2. \A g \in DOMAIN files' : RowGood(g, files'[g], disk', edits')
    BY <2>1
  <2>3. QED
    BY <2>2 DEF Rows, RowGood, Describes, Torn
<1>5. SharedWhole'
  <2>1. ASSUME NEW g \in shared'
        PROVE  /\ g \in DOMAIN files' /\ ~Torn(files'[g])
               /\ \A i \in 0 .. Len(split_file(g)) - 1 : <<g, i>> \in chunks'
    <3>1. g \in shared /\ g \in K /\ files'[g] = files[g]
      BY <1>1
    <3>2. QED
      BY <1>1, <3>1 DEF IInv, SharedWhole
  <2>2. QED
    BY <2>1 DEF SharedWhole, Torn
<1>6. Ids'
  BY <1>1 DEF IInv, Ids, Stamp
<1>7. QED
  BY <1>2, <1>3, <1>4, <1>5, <1>6 DEF IInv

LEMMA RemoveFilePreserves ==
    ASSUME IInv, NEW h \in Contents, remove_file(h)
    PROVE  IInv'
<1> DEFINE K == DOMAIN files \ {h}
<1>1. files' = Restrict(files, K) /\ K \subseteq DOMAIN files /\ shared' = shared \ {h}
      /\ UNCHANGED <<disk, edits, share, chunks, clock>>
  BY DEF remove_file
<1>2. shared' \subseteq K
  BY <1>1 DEF IInv, SharedWhole
<1> HIDE DEF K
<1>3. QED
  BY <1>1, <1>2, RowsDeleted

\* A file none of whose chunks is missing is not taken for incomplete.
LEMMA CompleteIsSpared ==
    ASSUME IInv, NEW h \in DOMAIN files,
           \A i \in 0 .. total_chunks(files[h]) - 1 : <<h, i>> \in chunks
    PROVE  ~Incomplete(h)
<1>1. files[h].file_size \in Nat
  BY DEF IInv, IndexTypeOK, Metadata
<1>2. total_chunks(files[h]) \in Nat
  BY <1>1, Chunked DEF total_chunks
<1>3. QED
  BY <1>2, CountsRows DEF Incomplete, IInv

\* The size in a row that is not torn gives the number of chunks of the content.
LEMMA TotalOfRow ==
    ASSUME IInv, NEW h \in DOMAIN files, ~Torn(files[h])
    PROVE  total_chunks(files[h]) = Len(split_file(h))
<1>1. files[h].file_size = Len(h) /\ h \in Seq(STRING)
  BY StorageAssumption DEF IInv, Rows, RowGood, Describes, IndexTypeOK
<1>2. QED
  BY <1>1, SplitLength DEF total_chunks

LEMMA CleanupPreserves ==
    ASSUME IInv, NEW cutoff, cleanup_incomplete_files(cutoff)
    PROVE  IInv'
<1> DEFINE K == {h \in DOMAIN files : files[h].created_at >= cutoff \/ ~Incomplete(h)}
<1>1. files' = Restrict(files, K) /\ K \subseteq DOMAIN files
      /\ UNCHANGED <<disk, edits, share, chunks, clock, shared>>
  BY DEF cleanup_incomplete_files
<1>2. shared \subseteq K
  <2>1. ASSUME NEW h \in shared
        PROVE  h \in DOMAIN files /\ ~Incomplete(h)
    <3>1. /\ h \in DOMAIN files /\ ~Torn(files[h])
          /\ \A i \in 0 .. Len(split_file(h)) - 1 : <<h, i>> \in chunks
      BY DEF IInv, SharedWhole
    <3>2. total_chunks(files[h]) = Len(split_file(h))
      BY <3>1, TotalOfRow
    <3>3. QED
      BY <3>1, <3>2, CompleteIsSpared
  <2>2. QED
    BY <2>1
<1> HIDE DEF K
<1>3. QED
  BY <1>1, <1>2, RowsDeleted

LEMMA UserWritesPreserves ==
    ASSUME IInv, NEW q \in Paths, NEW c \in Contents \cup {Gone}, UserWrites(q, c)
    PROVE  IInv'
<1>1. /\ disk' = [disk EXCEPT ![q] = c] /\ edits' = [edits EXCEPT ![q] = edits[q] + 1]
      /\ edits[q] < MaxEdits
      /\ UNCHANGED <<files, chunks, share, clock, shared>>
  BY DEF UserWrites, IInv, IndexTypeOK
<1>2. \A r \in Paths : edits[r] \in Nat /\ edits'[r] \in 0 .. MaxEdits
  BY <1>1, StorageAssumption DEF IInv, IndexTypeOK
<1>3. \A r \in Paths : \/ edits'[r] = edits[r] + 1
                       \/ edits'[r] = edits[r] /\ disk'[r] = disk[r]
  BY <1>1 DEF IInv, IndexTypeOK
<1>4. IndexTypeOK'
  <2>1. disk' \in [Paths -> Contents \cup {Gone}] /\ edits' \in [Paths -> 0 .. MaxEdits]
    BY <1>1, <1>2 DEF IInv, IndexTypeOK
  <2>2. QED
    BY <1>1, <2>1 DEF IInv, IndexTypeOK
<1>5. ASSUME NEW m \in Metadata, NEW h, m.file_path \in Paths, Describes(m, h, disk, edits)
      PROVE  Describes(m, h, disk', edits')
  <2>1. m.hashed_at \in Nat /\ m.hashed_at <= edits[m.file_path]
    BY <1>5 DEF Metadata, Describes
  <2>2. /\ m.hashed_at <= edits'[m.file_path]
        /\ edits'[m.file_path] = m.hashed_at => /\ edits[m.file_path] = m.hashed_at
                                                /\ disk'[m.file_path] = disk[m.file_path]
    BY <1>2, <1>3, <1>5, <2>1
  <2>3. QED
    BY <1>5, <2>2 DEF Describes
<1>6. Rows'
  <2>1. ASSUME NEW h \in DOMAIN files
        PROVE  RowGood(h, files[h], disk', edits')
    <3>1. files[h] \in Metadata /\ RowGood(h, files[h], disk, edits)
      BY DEF IInv, IndexTypeOK, Rows
    <3>2. files[h].file_path \in Paths \cup {NoPath}
      BY <3>1 DEF Metadata
    <3>3. QED
      BY <1>5, <3>1, <3>2 DEF RowGood
  <2>2. QED
    BY <1>1, <2>1 DEF Rows, RowGood, Describes, Torn
<1>7. Sources'
  <2>1. ASSUME NEW p \in Procs, share[p].pc # "idle"
        PROVE  SourceGood(share[p], disk', edits')
    <3> DEFINE s == share[p]
               f == s.meta.file_path
    <3>1. s.meta \in Metadata /\ f \in Paths /\ s.meta.seen <= edits[f] /\ s.meta.seen \in Nat
      BY <2>1, OneType DEF Metadata
    <3>2. SourceGood(s, disk, edits)
      BY DEF IInv, Sources
    <3>3. /\ s.meta.seen <= edits'[f]
          /\ s.meta.seen = edits'[f] => s.meta.seen = edits[f] /\ disk'[f] = disk[f]
      BY <1>2, <1>3, <3>1
    <3>4. s.pc \in {"hashed", "adding"} =>
             s.hash \in Contents /\ Describes(s.meta, s.hash, disk', edits')
      BY <1>5, <2>1, <3>1, <3>2 DEF SourceGood
    <3> HIDE DEF s
    <3>5. QED
      BY <2>1, <3>1, <3>2, <3>3, <3>4 DEF SourceGood, s
  <2>2. \A p \in Procs : SourceGood(share[p], disk', edits')
    BY <2>1 DEF SourceGood
  <2>3. QED
    BY <1>1, <2>2 DEF Sources, SourceGood, Describes, Torn
<1>8. Adding' /\ SharedWhole' /\ Ids' /\ IsFiniteSet(chunks')
  BY <1>1 DEF IInv, Adding, AddingGood, SharedWhole, Torn, Ids, Stamp
<1>9. QED
  BY <1>4, <1>6, <1>7, <1>8 DEF IInv

-----------------------------------------------------------------------------
LEMMA NextIInv == IInv /\ [IndexNext]_indexVars => IInv'
<1> SUFFICES ASSUME IInv, [IndexNext]_indexVars PROVE IInv'
  OBVIOUS
<1>1. ASSUME NEW p \in Procs, ShareStep(p)
      PROVE  IInv'
  <2>1. ASSUME NEW q \in Paths, ShareSize(p, q)
        PROVE  IInv'
    BY <2>1, ShareSizePreserves
  <2>2. CASE AddRowFails(p) \/ Crash(p)
    BY <2>2, GoesIdle DEF AddRowFails, Crash
  <2>3. QED
    BY <1>1, <2>1, <2>2, ShareChunksPreserves, ShareHashPreserves, AddRowPreserves,
       AddChunkPreserves, AddChunkFailsPreserves, AddReturnsPreserves DEF ShareStep
<1>2. ASSUME NEW h \in Contents, AddForDownload(h) \/ remove_file(h)
      PROVE  IInv'
  BY <1>2, AddForDownloadPreserves, RemoveFilePreserves
<1>3. ASSUME NEW h \in Contents, NEW i \in 0 .. Len(split_file(h)), update_chunk_progress(h, i)
      PROVE  IInv'
  <2>1. i \in Nat
    BY StorageAssumption, SplitLength
  <2>2. QED
    BY <1>3, <2>1, UpdateChunkProgressPreserves
<1>4. ASSUME NEW cutoff, cleanup_incomplete_files(cutoff)
      PROVE  IInv'
  BY <1>4, CleanupPreserves
<1>5. ASSUME NEW q \in Paths, NEW c \in Contents \cup {Gone}, UserWrites(q, c)
      PROVE  IInv'
  BY <1>5, UserWritesPreserves
<1>6. CASE UNCHANGED indexVars
  <2>1. IndexTypeOK'
    BY <1>6 DEF indexVars, IInv, IndexTypeOK
  <2>2. Sources' /\ Adding'
    BY <1>6, SharesStay DEF indexVars
  <2>3. Rows'
    BY <1>6 DEF indexVars, IInv, Rows, RowGood, Describes, Torn
  <2>4. SharedWhole' /\ Ids' /\ IsFiniteSet(chunks')
    BY <1>6 DEF indexVars, IInv, SharedWhole, Torn, Ids, Stamp
  <2>5. QED
    BY <2>1, <2>2, <2>3, <2>4 DEF IInv
<1>7. QED
  BY <1>1, <1>2, <1>3, <1>4, <1>5, <1>6 DEF IndexNext, Keep, IndexStep

LEMMA Invariance == IndexSpec => []IInv
BY InitIInv, NextIInv, PTL DEF IndexSpec

(***************************************************************************)
(* The tables and the share commands keep their types through failing      *)
(* statements and crashes.                                                 *)
(***************************************************************************)
THEOREM TypeCorrect == IndexSpec => []IndexTypeOK
<1>1. IInv => IndexTypeOK
  BY DEF IInv
<1>2. QED
  BY <1>1, Invariance, PTL

\* What download finds: by hash and by file id the same row.
LEMMA DownloadFinds ==
    ASSUME IInv, NEW h \in DOMAIN files, FromShare(h),
           edits[files[h].file_path] = files[h].hashed_at
    PROVE  /\ download(h) = {[hash |-> h, content |-> h]}
           /\ download(files[h].file_id) = {[hash |-> h, content |-> h]}
<1> DEFINE id == files[h].file_id
           path == files[h].file_path
           found == {h}
           usable == {g \in found : files[g].file_path # NoPath /\ disk[files[g].file_path] # Gone}
           out == {[hash |-> g, content |-> disk[files[g].file_path]] : g \in usable}
<1>1. h \in Contents /\ files[h] \in Metadata /\ path # NoPath
  BY DEF IInv, IndexTypeOK, FromShare
<1>2. disk[path] = h
  <2>1. Describes(files[h], h, disk, edits)
    BY <1>1 DEF IInv, Rows, RowGood
  <2>2. QED
    BY <2>1 DEF Describes
<1>3. h # Gone
  BY <1>1, StorageAssumption
<1>4. out = {[hash |-> h, content |-> h]}
  <2>1. usable = {h}
    BY <1>1, <1>2, <1>3
  <2> HIDE DEF usable
  <2>2. QED
    BY <1>2, <2>1
<1>5. download(h) = out
  BY DEF download
<1>6. id \notin DOMAIN files
  <2>1. id \in (Paths \cup {NoPath}) \X Nat
    BY <1>1 DEF Metadata
  <2>2. DOMAIN files \subseteq Contents
    BY DEF IInv, IndexTypeOK
  <2>3. QED
    BY <2>1, <2>2, StorageAssumption
<1>7. {g \in DOMAIN files : files[g].file_id = id} = {h}
  BY DEF IInv, Ids, Stamp
<1>8. download(id) = out
  <2> HIDE DEF id
  <2>1. QED
    BY <1>6, <1>7 DEF download
<1>9. QED
  BY <1>4, <1>5, <1>8

(***************************************************************************)
(* ShareCommandHandler::execute and ChunkManager::chunk_file read the file *)
(* three times; unless the user rewrites it in between, the row that       *)
(* add_file leaves describes one content, for every content, path and      *)
(* chunk size, and however commands replace one another's rows, fail or    *)
(* die.                                                                    *)
(***************************************************************************)
THEOREM RowsDescribeOneContent == IndexSpec => []SharedRowsAgree
<1>1. IInv => SharedRowsAgree
  <2> SUFFICES ASSUME IInv, NEW h \in DOMAIN files, FromShare(h), ~Torn(files[h])
               PROVE  LET row == files[h]
                      IN  /\ row.chunk_hashes = split_file(h) /\ row.file_size = Len(h)
                          /\ metadata_complete(row) <=> h # <<>>
                          /\ \A i \in 0 .. Len(row.chunk_hashes) - 1 :
                                get_chunk_size(row, i) = Len(row.chunk_hashes[i + 1])
                          /\ edits[row.file_path] = row.hashed_at =>
                                /\ download(h) = {[hash |-> h, content |-> h]}
                                /\ download(row.file_id) = download(h)
    BY DEF SharedRowsAgree
  <2> DEFINE row == files[h]
  <2>1. row.chunk_hashes = split_file(h) /\ row.file_size = Len(h)
    BY DEF IInv, Rows, RowGood, Describes, FromShare
  <2>2. h \in Seq(STRING)
    BY StorageAssumption DEF IInv, IndexTypeOK
  <2>3. /\ metadata_complete(row) <=> h # <<>>
        /\ \A i \in 0 .. Len(row.chunk_hashes) - 1 :
              get_chunk_size(row, i) = Len(row.chunk_hashes[i + 1])
    BY <2>1, <2>2, RowSizes
  <2>4. edits[row.file_path] = row.hashed_at =>
           /\ download(h) = {[hash |-> h, content |-> h]}
           /\ download(row.file_id) = download(h)
    BY DownloadFinds
  <2>5. QED
    BY <2>1, <2>3, <2>4
<1>2. QED
  BY <1>1, Invariance, PTL

(***************************************************************************)
(* A share that succeeded with every one of its statements done, and its   *)
(* row still in place and untorn when add_file returned, stays available   *)
(* until it is removed or a torn share replaces the row:                   *)
(* get_missing_chunks finds all of its chunks and cleanup_incomplete_files *)
(* spares it, whatever other share commands do with the same content.      *)
(***************************************************************************)
THEOREM SharedAlwaysAvailable == IndexSpec => []SharedStaysAvailable
<1>1. IInv => SharedStaysAvailable
  <2> SUFFICES ASSUME IInv, NEW h \in shared
               PROVE  h \in DOMAIN files /\ get_missing_chunks(h) = {}
    BY DEF SharedStaysAvailable
  <2>1. /\ h \in DOMAIN files /\ ~Torn(files[h])
        /\ \A i \in 0 .. Len(split_file(h)) - 1 : <<h, i>> \in chunks
    BY DEF IInv, SharedWhole
  <2>2. total_chunks(files[h]) = Len(split_file(h))
    BY <2>1, TotalOfRow
  <2>3. QED
    BY <2>1, <2>2 DEF get_missing_chunks
<1>2. QED
  BY <1>1, Invariance, PTL

(***************************************************************************)
(* The HAVING clause of cleanup_incomplete_files only counts rows, yet it  *)
(* deletes only files that lack a chunk: t chunks need t different rows.   *)
(***************************************************************************)
THEOREM CleanupIsSafe == IndexSpec => CleanupSparesComplete
<1>1. ASSUME IInv, NEW cutoff, cleanup_incomplete_files(cutoff),
             NEW h \in DOMAIN files \ DOMAIN files'
      PROVE  get_missing_chunks(h) # {}
  <2>1. Incomplete(h)
    BY <1>1 DEF cleanup_incomplete_files, Restrict
  <2>2. PICK i \in 0 .. total_chunks(files[h]) - 1 : <<h, i>> \notin chunks
    BY <1>1, <2>1, CompleteIsSpared
  <2>3. QED
    BY <2>2 DEF get_missing_chunks
<1>2. IInv => [\A cutoff \in 1 .. clock + 1 : cleanup_incomplete_files(cutoff) =>
                  \A h \in DOMAIN files \ DOMAIN files' : get_missing_chunks(h) # {}]_indexVars
  BY <1>1
<1>3. QED
  BY <1>2, Invariance, PTL DEF CleanupSparesComplete

-----------------------------------------------------------------------------
(* The chunk files. *)

\* the output after n chunks
Prefix(n) == SubSeq(Content, 1, Lesser(n * ChunkSize, Len(Content)))

\* the chunk that a sound call is about to read is right, and nobody writes it
SoundChunk ==
    merge.sound /\ merge.pc = "sized" =>
        Settled(merge.next) /\ merge.size = Len(Stored(merge.next))

\* a sound call has written the file so far
Merging ==
    merge.sound /\ ~merge.full =>
        /\ merge.pc \in {"reading", "sized"} => output = Prefix(merge.next)
        /\ merge.pc \notin {"reading", "sized"} => merge.pc = "true" /\ output = Content

ChunkIInv == ChunkTypeOK /\ SoundChunk /\ Merging

LEMMA TotalType == Total \in Nat /\ Hashes \in Seq(Seq(STRING)) /\ DOMAIN Hashes = 1 .. Total
BY ChunksAssumption, SplitLength DEF Total, Hashes

\* two adjacent pieces of a sequence
LEMMA Adjacent ==
    ASSUME NEW h \in Seq(STRING), NEW a \in Nat, NEW b \in Nat, a <= b, b <= Len(h)
    PROVE  SubSeq(h, 1, a) \o SubSeq(h, a + 1, b) = SubSeq(h, 1, b)
<1> DEFINE x == SubSeq(h, 1, a)
           y == SubSeq(h, a + 1, b)
           z == SubSeq(h, 1, b)
<1>1. x \in Seq(STRING) /\ Len(x) = a /\ \A i \in 1 .. a : x[i] = h[i]
    OBVIOUS
<1>2. y \in Seq(STRING) /\ Len(y) = b - a /\ \A i \in 1 .. b - a : y[i] = h[a + i]
  <2>1. y = [i \in 1 .. (b - (a + 1) + 1) |-> h[i + (a + 1) - 1]]
      OBVIOUS
  <2>2. b - (a + 1) + 1 = b - a /\ b - a \in Nat
      OBVIOUS
  <2>3. \A i \in 1 .. b - a : i + (a + 1) - 1 = a + i /\ a + i \in 1 .. Len(h)
      OBVIOUS
  <2>4. y \in Seq(STRING) /\ Len(y) = b - a
      BY <2>1, <2>2, <2>3
  <2> HIDE DEF y
  <2> QED BY <2>1, <2>2, <2>3, <2>4
<1>3. z \in Seq(STRING) /\ Len(z) = b /\ \A i \in 1 .. b : z[i] = h[i]
    OBVIOUS
<1> HIDE DEF x, y, z
<1>4. /\ x \o y \in Seq(STRING) /\ Len(x \o y) = Len(x) + Len(y)
      /\ \A i \in 1 .. Len(x) + Len(y) :
            (x \o y)[i] = IF i <= Len(x) THEN x[i] ELSE y[i - Len(x)]
    BY <1>1, <1>2, ConcatProperties
<1>5. ASSUME NEW i \in 1 .. b PROVE (x \o y)[i] = z[i]
  <2>0. (x \o y)[i] = IF i <= a THEN x[i] ELSE y[i - a]
      BY <1>1, <1>2, <1>4
  <2>z. z[i] = h[i]
      BY <1>3
  <2>1. CASE i <= a
    <3>1. i \in 1 .. a
        BY <2>1
    <3>2. x[i] = h[i]
        BY <1>1, <3>1
    <3>3. (x \o y)[i] = x[i]
        BY <2>0, <2>1, Zenon
    <3> QED BY <2>z, <3>2, <3>3, Zenon
  <2>2. CASE i > a
    <3>1. i - a \in 1 .. b - a /\ a + (i - a) = i /\ ~(i <= a)
        BY <2>2
    <3>2. y[i - a] = h[a + (i - a)]
        BY <1>2, <3>1, Zenon
    <3>3. (x \o y)[i] = y[i - a]
        BY <2>0, <3>1, Zenon
    <3> QED BY <2>z, <3>1, <3>2, <3>3, Zenon
  <2>3. i <= a \/ i > a
      OBVIOUS
  <2> QED BY <2>1, <2>2, <2>3, Zenon
<1>6. x \o y = z
  <2>1. Len(x \o y) = Len(z) /\ Len(z) = b
      BY <1>1, <1>2, <1>3, <1>4
  <2> QED BY <1>3, <1>4, <1>5, <2>1, SeqEqual
<1> QED BY <1>6 DEF x, y, z

\* chunk n is not empty, and the file up to chunk n and the chunk are the file up to the next
LEMMA PrefixGrows ==
    ASSUME NEW n \in Indexes
    PROVE  /\ Hashes[n + 1] \in Seq(STRING) /\ Hashes[n + 1] # <<>>
           /\ Prefix(n) \o Hashes[n + 1] = Prefix(n + 1)
<1> DEFINE L == Len(Content)
           a == n * ChunkSize
           b == Lesser((n + 1) * ChunkSize, L)
<1>1. /\ Total \in Nat /\ n \in Nat /\ n + 1 <= Total /\ L \in Nat
      /\ ChunkSize \in Nat /\ ChunkSize > 0 /\ Content \in Seq(STRING)
    BY TotalType, ChunksAssumption, ChunkSizeAssumption DEF Indexes
<1>2. Total * ChunkSize <= L + ChunkSize - 1
    BY ChunksAssumption, SplitLength DEF Total, Hashes
<1>3. /\ (n + 1) * ChunkSize <= Total * ChunkSize /\ (n + 1) * ChunkSize = a + ChunkSize
      /\ a \in Nat /\ Total * ChunkSize \in Int
  <2>1. n \in Int /\ n + 1 \in Int /\ Total \in Int
      BY <1>1
  <2> QED BY <1>1, <2>1, Times
<1> HIDE DEF a
<1>4. a < L
    BY <1>1, <1>2, <1>3
<1>5. b \in Nat /\ a < b /\ b <= L
    BY <1>1, <1>3, <1>4 DEF Lesser
<1>6. Prefix(n) = SubSeq(Content, 1, a)
    BY <1>3, <1>4, <1>1 DEF Prefix, Lesser, a
<1>7. Prefix(n + 1) = SubSeq(Content, 1, b)
    BY DEF Prefix
<1>8. Hashes[n + 1] = SubSeq(Content, a + 1, b)
  <2>1. n + 1 \in 1 .. Total /\ (n + 1) - 1 = n
      BY <1>1
  <2>2. Total = (Len(Content) + ChunkSize - 1) \div ChunkSize
      BY ChunksAssumption, SplitLength DEF Total, Hashes
  <2>3. Hashes = [k \in 1 .. Total |->
                     SubSeq(Content, (k - 1) * ChunkSize + 1, Lesser(k * ChunkSize, L))]
      BY <2>2 DEF Hashes, split_file
  <2>4. Hashes[n + 1] = SubSeq(Content, ((n + 1) - 1) * ChunkSize + 1, b)
      BY <2>1, <2>3, Zenon
  <2> QED BY <2>1, <2>4 DEF a
<1> HIDE DEF b
<1>9. SubSeq(Content, a + 1, b) \in Seq(STRING) /\ SubSeq(Content, a + 1, b) # <<>>
  <2>1. SubSeq(Content, a + 1, b) \in Seq(STRING) /\ Len(SubSeq(Content, a + 1, b)) = b - a
      BY <1>1, <1>3, <1>5
  <2>2. b - a > 0
      BY <1>3, <1>5
  <2>3. Len(<<>>) # b - a
      BY <2>2
  <2> QED BY <2>1, <2>3
<1>10. SubSeq(Content, 1, a) \o SubSeq(Content, a + 1, b) = SubSeq(Content, 1, b)
    BY <1>1, <1>3, <1>5, Adjacent
<1> QED BY <1>6, <1>7, <1>8, <1>9, <1>10

\* all chunks are the file
LEMMA PrefixEnds == Prefix(0) = <<>> /\ Prefix(Total) = Content
<1> DEFINE L == Len(Content)
<1>1. L \in Nat /\ Content \in Seq(STRING) /\ ChunkSize \in Nat
    BY ChunksAssumption, ChunkSizeAssumption
<1>2. L <= Total * ChunkSize /\ Total \in Nat
    BY ChunksAssumption, SplitLength DEF Total, Hashes
<1>3. Total * ChunkSize \in Nat
    BY <1>1, <1>2, Times
<1>4. Lesser(Total * ChunkSize, L) = L
    BY <1>1, <1>2, <1>3 DEF Lesser
<1>5. SubSeq(Content, 1, L) = Content
    BY <1>1
<1>6. Lesser(0 * ChunkSize, L) = 0
    BY <1>1 DEF Lesser
<1>7. SubSeq(Content, 1, 0) = <<>>
    BY <1>1
<1> QED BY <1>4, <1>5, <1>6, <1>7 DEF Prefix

LEMMA ChunkInitIInv == ChunkInit => ChunkIInv
<1> SUFFICES ASSUME ChunkInit PROVE ChunkIInv
    OBVIOUS
<1>1. ChunkTypeOK
    BY TotalType DEF ChunkInit, ChunkTypeOK, MergeStates, NotMerging
<1>2. SoundChunk /\ Merging
    BY DEF ChunkInit, NotMerging, SoundChunk, Merging
<1> QED BY <1>1, <1>2 DEF ChunkIInv

LEMMA StoredType ==
    ASSUME ChunkTypeOK, NEW i
    PROVE  Stored(i) \in Seq(STRING) /\ Len(Stored(i)) \in Nat
<1>1. <<>> \in Seq(STRING)
    BY EmptySeq
<1>2. CASE i \in DOMAIN store
    BY <1>2 DEF ChunkTypeOK, Stored
<1>3. CASE i \notin DOMAIN store
    BY <1>1, <1>3 DEF Stored
<1> QED BY <1>2, <1>3

\* what read_chunk returns is as long as the size it took, and the file's content if it
\* still has that size
LEMMA ReadChunk ==
    ASSUME ChunkTypeOK, NEW i, NEW size \in Nat
    PROVE  /\ read_chunk(i, size) \in Seq(STRING) /\ Len(read_chunk(i, size)) = size
           /\ size = Len(Stored(i)) => read_chunk(i, size) = Stored(i)
<1> DEFINE file == Stored(i)
           Unit(k) == IF k <= Len(file) THEN file[k] ELSE Zero
           data == [k \in 1 .. size |-> Unit(k)]
<1>1. file \in Seq(STRING) /\ Len(file) \in Nat
    BY StoredType
<1> HIDE DEF file
<1>2. \A k \in 1 .. size : Unit(k) \in STRING
  <2>1. Zero \in STRING
      BY ChunksAssumption
  <2>2. ASSUME NEW k \in 1 .. size, k <= Len(file)
        PROVE  file[k] \in STRING
      BY <1>1, <2>2
  <2> QED BY <2>1, <2>2
<1>3. data \in [1 .. size -> STRING]
    BY <1>2
<1>4. data \in Seq(STRING) /\ Len(data) = size
    BY <1>3
<1>5. size = Len(file) => data = file
  <2>1. SUFFICES ASSUME size = Len(file) PROVE data = file
      OBVIOUS
  <2>2. \A k \in 1 .. size : data[k] = file[k]
      BY <1>1, <2>1
  <2>3. data = [k \in 1 .. size |-> data[k]] /\ file = [k \in 1 .. size |-> file[k]]
      BY <1>1, <2>1
  <2> QED BY <2>2, <2>3
<1> QED BY <1>4, <1>5 DEF read_chunk, file

\* what a writer leaves in a chunk file, and the other files
LEMMA PutType ==
    ASSUME ChunkTypeOK, NEW i \in Indexes, NEW data \in Seq(STRING), Put(i, data)
    PROVE  /\ DOMAIN store' \subseteq Indexes /\ \A k \in DOMAIN store' : store'[k] \in Seq(STRING)
           /\ \A k \in Indexes : k # i => Stored(k)' = Stored(k)
BY DEF ChunkTypeOK, Put, Stored

LEMMA WrittenType ==
    ASSUME ChunkTypeOK, NEW i, NEW data \in Seq(STRING)
    PROVE  Written(i, data) \in Seq(STRING)
<1>1. Stored(i) \in Seq(STRING) /\ Len(Stored(i)) \in Nat /\ Len(data) + 1 \in Nat
    BY StoredType
<1> HIDE DEF Stored
<1>2. SubSeq(Stored(i), Len(data) + 1, Len(Stored(i))) \in Seq(STRING)
    BY <1>1
<1> QED BY <1>1, <1>2 DEF Written

\* a writer that is inside write_chunk
LEMMA WriterType ==
    ASSUME ChunkTypeOK, NEW w \in Writers, writer[w] # NotWriting
    PROVE  writer[w].i \in Indexes /\ writer[w].data \in Seq(STRING)
BY ChunksAssumption DEF ChunkTypeOK

\* a step of a writer that is inside write_chunk touches no chunk that a sound call reads
LEMMA WriterIInv ==
    ASSUME ChunkIInv, NEW w \in Writers, writer[w] # NotWriting, UNCHANGED <<merge, output>>,
           writer' = writer \/ writer' = [writer EXCEPT ![w] = NotWriting],
           DOMAIN store' \subseteq Indexes, \A i \in DOMAIN store' : store'[i] \in Seq(STRING),
           \A k \in Indexes : k # writer[w].i => Stored(k)' = Stored(k)
    PROVE  ChunkIInv'
<1>0. ChunkTypeOK /\ writer \in [Writers -> {NotWriting} \cup [i: Indexes, data: ChunkData]]
    BY DEF ChunkIInv, ChunkTypeOK
<1>1. ChunkTypeOK'
    BY <1>0 DEF ChunkTypeOK
<1>2. ASSUME merge.sound, merge.pc = "sized"
      PROVE  Settled(merge.next)' /\ merge.size = Len(Stored(merge.next)')
  <2>1. Settled(merge.next) /\ merge.size = Len(Stored(merge.next)) /\ merge.next \in Indexes
      BY <1>0, <1>2, TotalType DEF ChunkIInv, SoundChunk, ChunkTypeOK, MergeStates, Indexes
  <2>2. writer[w].i # merge.next
      BY <2>1 DEF Settled
  <2>3. Stored(merge.next)' = Stored(merge.next)
      BY <2>1, <2>2
  <2>4. \A v \in Writers : writer'[v].i = writer[v].i \/ writer'[v].i = -1
      BY <1>0 DEF NotWriting
  <2>5. merge.next # -1
      BY <2>1, TotalType DEF Indexes
  <2>6. \A v \in Writers : writer'[v].i # merge.next
      BY <2>1, <2>4, <2>5 DEF Settled
  <2>7. verify_chunk(Stored(merge.next)', Hashes[merge.next + 1])
      BY <2>1, <2>3 DEF Settled
  <2> QED BY <2>1, <2>3, <2>6, <2>7 DEF Settled
<1>3. SoundChunk'
    BY <1>2 DEF SoundChunk
<1>4. Merging'
    BY DEF ChunkIInv, Merging
<1> QED BY <1>1, <1>3, <1>4 DEF ChunkIInv

LEMMA OpenChunkIInv ==
    ASSUME ChunkIInv, NEW w \in Writers, NEW i \in Indexes, NEW data \in ChunkData,
           OpenChunk(w, i, data)
    PROVE  ChunkIInv'
<1> DEFINE sd == merge.sound /\ ~(merge.pc = "sized" /\ merge.next = i)
<1>1. ChunkTypeOK /\ merge \in MergeStates
    BY DEF ChunkIInv, ChunkTypeOK
<1>2. /\ Put(i, <<>>) /\ <<>> \in Seq(STRING) /\ output' = output
      /\ merge' = [merge EXCEPT !.sound = sd]
      /\ writer' = [writer EXCEPT ![w] = [i |-> i, data |-> data]]
    BY DEF OpenChunk
<1>3. /\ DOMAIN store' \subseteq Indexes /\ \A k \in DOMAIN store' : store'[k] \in Seq(STRING)
      /\ \A k \in Indexes : k # i => Stored(k)' = Stored(k)
    BY <1>1, <1>2, PutType
<1>4. writer' \in [Writers -> {NotWriting} \cup [i: Indexes, data: ChunkData]]
    BY <1>1, <1>2 DEF ChunkTypeOK
<1>5. sd \in BOOLEAN
    BY <1>1 DEF MergeStates
<1>6. /\ merge' \in MergeStates /\ merge'.sound = sd /\ merge'.pc = merge.pc
      /\ merge'.next = merge.next /\ merge'.size = merge.size /\ merge'.full = merge.full
    BY <1>1, <1>2, <1>5 DEF MergeStates
<1>7. ChunkTypeOK'
    BY <1>1, <1>2, <1>3, <1>4, <1>6 DEF ChunkTypeOK
<1>8. SoundChunk'
  <2> SUFFICES ASSUME merge'.sound, merge'.pc = "sized"
               PROVE  Settled(merge.next)' /\ merge.size = Len(Stored(merge.next)')
      BY <1>6 DEF SoundChunk
  <2>1. merge.sound /\ merge.pc = "sized" /\ merge.next # i /\ merge.next \in Indexes
      BY <1>1, <1>6, TotalType DEF ChunkTypeOK, MergeStates, Indexes
  <2>2. Settled(merge.next) /\ merge.size = Len(Stored(merge.next))
      BY <2>1 DEF ChunkIInv, SoundChunk
  <2>3. Stored(merge.next)' = Stored(merge.next)
      BY <1>3, <1>6, <2>1
  <2>4. \A v \in Writers : writer'[v].i = writer[v].i \/ writer'[v].i = i
      BY <1>1, <1>2 DEF ChunkTypeOK
  <2>5. \A v \in Writers : writer'[v].i # merge.next
      BY <2>1, <2>2, <2>4 DEF Settled
  <2>6. verify_chunk(Stored(merge.next)', Hashes[merge.next + 1])
      BY <2>2, <2>3 DEF Settled
  <2>7. Settled(merge.next)'
      BY <1>6, <2>5, <2>6 DEF Settled
  <2> QED BY <2>2, <2>3, <2>7
<1>9. Merging'
    BY <1>2, <1>6 DEF ChunkIInv, Merging
<1> QED BY <1>7, <1>8, <1>9 DEF ChunkIInv

LEMMA MergeBeginsIInv ==
    ASSUME ChunkIInv, MergeBegins
    PROVE  ChunkIInv'
<1>1. ChunkTypeOK /\ output' = <<>> /\ UNCHANGED <<store, writer>>
    BY DEF ChunkIInv, MergeBegins
<1>2. merge' = [pc |-> "reading", next |-> 0, size |-> 0, sound |-> TRUE, full |-> FALSE]
    BY DEF MergeBegins, NotMerging
<1>3. ChunkTypeOK'
    BY <1>1, <1>2, TotalType DEF ChunkTypeOK, MergeStates
<1>4. SoundChunk'
    BY <1>2 DEF SoundChunk
<1>5. Merging'
    BY <1>1, <1>2, PrefixEnds DEF Merging
<1> QED BY <1>3, <1>4, <1>5 DEF ChunkIInv

\* a sound call finds the next chunk
LEMMA MergeSizeIInv ==
    ASSUME ChunkIInv, MergeSize
    PROVE  ChunkIInv'
<1> DEFINE n == merge.next
           ok == merge.sound /\ Settled(n)
           to == IF Stored(n) = <<>> THEN "false" ELSE "sized"
<1>1. /\ ChunkTypeOK /\ UNCHANGED <<store, writer, output>> /\ merge.pc = "reading" /\ n < Total
      /\ Merging /\ merge \in MergeStates
    BY DEF ChunkIInv, MergeSize, ChunkTypeOK
<1>2. /\ n \in Nat /\ n \in Indexes /\ Stored(n) \in Seq(STRING) /\ Len(Stored(n)) \in Nat
      /\ ok \in BOOLEAN
    BY <1>1, TotalType, StoredType DEF MergeStates, Indexes, Settled
<1>3. merge' = [merge EXCEPT !.pc = to, !.size = Len(Stored(n)), !.sound = ok]
    BY DEF MergeSize
<1> HIDE DEF ok
<1>4. /\ merge' \in MergeStates /\ merge'.pc = to /\ merge'.size = Len(Stored(n))
      /\ merge'.sound = ok /\ merge'.next = n /\ merge'.full = merge.full
    BY <1>1, <1>2, <1>3 DEF MergeStates
<1>5. ChunkTypeOK'
    BY <1>1, <1>4 DEF ChunkTypeOK
<1>6. Stored(n)' = Stored(n)
    BY <1>1, <1>4 DEF Stored
<1>7. Settled(n) => Settled(n)'
    BY <1>1, <1>4, <1>6 DEF Settled
<1>8. SoundChunk'
    BY <1>4, <1>6, <1>7 DEF SoundChunk, ok
<1>9. ok => Stored(n) = Hashes[n + 1] /\ Stored(n) # <<>>
  <2>1. ok => Stored(n) = Hashes[n + 1]
      BY DEF ok, Settled, verify_chunk
  <2> QED BY <1>2, <2>1, PrefixGrows
<1>10. Merging'
    BY <1>1, <1>4, <1>9 DEF Merging, ok
<1> QED BY <1>5, <1>8, <1>10 DEF ChunkIInv

\* the chunk that a sound call reads is the next one of the file
LEMMA MergeReadIInv ==
    ASSUME ChunkIInv, MergeRead
    PROVE  ChunkIInv'
<1> DEFINE n == merge.next
           chunk == read_chunk(n, merge.size)
<1>1. /\ ChunkTypeOK /\ UNCHANGED <<store, writer>> /\ merge.pc = "sized" /\ n < Total
      /\ Merging /\ SoundChunk /\ merge \in MergeStates
    BY DEF ChunkIInv, MergeRead, ChunkTypeOK
<1>2. /\ n \in Nat /\ n \in Indexes /\ Total \in Nat /\ n + 1 \in 0 .. Total
      /\ merge.size \in Nat /\ output \in Seq(STRING)
    BY <1>1, TotalType DEF ChunkTypeOK, MergeStates, Indexes
<1>3. chunk \in Seq(STRING)
    BY <1>1, <1>2, ReadChunk
<1>4. merge.sound => chunk = Hashes[n + 1]
    BY <1>1, <1>2, ReadChunk DEF SoundChunk, Settled, verify_chunk
<1>5. output' = output \o chunk /\ merge' = [merge EXCEPT !.pc = "reading", !.next = n + 1]
    BY DEF MergeRead
<1> HIDE DEF chunk
<1>6. /\ merge' \in MergeStates /\ merge'.sound = merge.sound /\ merge'.pc = "reading"
      /\ merge'.next = n + 1 /\ merge'.full = merge.full
    BY <1>1, <1>2, <1>5 DEF MergeStates
<1>7. output' \in Seq(STRING)
    BY <1>2, <1>3, <1>5
<1>8. ChunkTypeOK'
    BY <1>1, <1>6, <1>7 DEF ChunkTypeOK
<1>9. SoundChunk'
    BY <1>6 DEF SoundChunk
<1>10. merge.sound /\ ~merge.full => output' = Prefix(n + 1)
    BY <1>1, <1>2, <1>4, <1>5, PrefixGrows DEF Merging
<1>11. Merging'
    BY <1>6, <1>10 DEF Merging
<1> QED BY <1>8, <1>9, <1>11 DEF ChunkIInv

\* the last steps of a call, which leave the chunk files alone
LEMMA MergeEndsIInv ==
    ASSUME ChunkIInv, UNCHANGED <<store, writer>>, NEW to \in {"true", "false"},
           NEW full \in BOOLEAN, merge' = [merge EXCEPT !.pc = to, !.full = full],
           output' \in Seq(STRING),
           merge.sound /\ ~full => to = "true" /\ output' = Content
    PROVE  ChunkIInv'
<1>1. ChunkTypeOK /\ merge \in MergeStates
    BY DEF ChunkIInv, ChunkTypeOK
<1>2. merge' \in MergeStates /\ merge'.sound = merge.sound /\ merge'.pc = to /\ merge'.full = full
    BY <1>1 DEF MergeStates
<1>3. ChunkTypeOK'
    BY <1>1, <1>2 DEF ChunkTypeOK
<1>4. SoundChunk' /\ Merging'
    BY <1>2 DEF SoundChunk, Merging
<1> QED BY <1>3, <1>4 DEF ChunkIInv

LEMMA MergeWriteFailsIInv ==
    ASSUME ChunkIInv, NEW n \in 0 .. ChunkSize - 1, MergeWriteFails(n)
    PROVE  ChunkIInv'
<1> DEFINE chunk == read_chunk(merge.next, merge.size)
<1>1. /\ ChunkTypeOK /\ UNCHANGED <<store, writer>> /\ output \in Seq(STRING)
      /\ merge.size \in Nat /\ n < merge.size /\ n \in Nat
      /\ merge' = [merge EXCEPT !.pc = "false", !.full = TRUE]
    BY ChunkSizeAssumption DEF ChunkIInv, MergeWriteFails, ChunkTypeOK, MergeStates
<1>2. chunk \in Seq(STRING) /\ Len(chunk) = merge.size
    BY <1>1, ReadChunk
<1>3. output' = output \o SubSeq(chunk, 1, n)
    BY DEF MergeWriteFails
<1> HIDE DEF chunk
<1>4. SubSeq(chunk, 1, n) \in Seq(STRING)
    BY <1>1, <1>2
<1>5. output' \in Seq(STRING)
    BY <1>1, <1>3, <1>4
<1> QED BY <1>1, <1>5, MergeEndsIInv

LEMMA MergeReturnsIInv ==
    ASSUME ChunkIInv, MergeReturns
    PROVE  ChunkIInv'
<1>1. /\ ChunkTypeOK /\ Merging /\ UNCHANGED <<store, writer, output>> /\ output \in Seq(STRING)
      /\ merge.pc = "reading" /\ merge.next = Total /\ merge \in MergeStates
      /\ merge' = [merge EXCEPT !.pc = "true"]
    BY DEF ChunkIInv, MergeReturns, ChunkTypeOK
<1>2. merge.full \in BOOLEAN /\ merge' = [merge EXCEPT !.pc = "true", !.full = merge.full]
    BY <1>1 DEF MergeStates
<1>3. merge.sound /\ ~merge.full => output' = Content
    BY <1>1, PrefixEnds DEF Merging
<1> QED BY <1>1, <1>2, <1>3, MergeEndsIInv

LEMMA MergeCloseFailsIInv ==
    ASSUME ChunkIInv, NEW n \in 1 .. ChunkSize - 1, MergeCloseFails(n)
    PROVE  ChunkIInv'
<1>1. /\ ChunkTypeOK /\ UNCHANGED <<store, writer>> /\ output \in Seq(STRING)
      /\ merge' = [merge EXCEPT !.pc = "true", !.full = TRUE]
      /\ n <= Len(output) /\ output' = SubSeq(output, 1, Len(output) - n)
    BY DEF ChunkIInv, MergeCloseFails, ChunkTypeOK
<1>2. Len(output) - n \in Nat /\ Len(output) - n <= Len(output)
    BY <1>1, ChunkSizeAssumption
<1>3. output' \in Seq(STRING)
    BY <1>1, <1>2
<1> QED BY <1>1, <1>3, MergeEndsIInv

LEMMA ChunkNextIInv ==
    ASSUME ChunkIInv, [ChunkNext]_chunkVars
    PROVE  ChunkIInv'
<1>1. ChunkTypeOK /\ writer \in [Writers -> {NotWriting} \cup [i: Indexes, data: ChunkData]]
    BY DEF ChunkIInv, ChunkTypeOK
<1>2. ASSUME NEW w \in Writers, NEW n \in 1 .. ChunkSize - 1, WritePart(w, n)
      PROVE  ChunkIInv'
  <2>1. /\ writer[w] # NotWriting /\ UNCHANGED <<writer, merge, output>> /\ n \in Nat
        /\ n < Len(writer[w].data)
        /\ Put(writer[w].i, Written(writer[w].i, SubSeq(writer[w].data, 1, n)))
      BY <1>2, ChunkSizeAssumption DEF WritePart
  <2>2. writer[w].i \in Indexes /\ writer[w].data \in Seq(STRING)
      BY <1>1, <2>1, WriterType
  <2>3. SubSeq(writer[w].data, 1, n) \in Seq(STRING)
      BY <2>1, <2>2
  <2>4. Written(writer[w].i, SubSeq(writer[w].data, 1, n)) \in Seq(STRING)
      BY <1>1, <2>3, WrittenType
  <2>5. /\ DOMAIN store' \subseteq Indexes /\ \A i \in DOMAIN store' : store'[i] \in Seq(STRING)
        /\ \A k \in Indexes : k # writer[w].i => Stored(k)' = Stored(k)
      BY <1>1, <2>1, <2>2, <2>4, PutType
  <2> QED BY <1>1, <2>1, <2>5, WriterIInv
<1>3. ASSUME NEW w \in Writers, WriteChunk(w)
      PROVE  ChunkIInv'
  <2>1. /\ writer[w] # NotWriting /\ UNCHANGED <<merge, output>>
        /\ writer' = [writer EXCEPT ![w] = NotWriting]
        /\ Put(writer[w].i, Written(writer[w].i, writer[w].data))
      BY <1>3 DEF WriteChunk
  <2>2. writer[w].i \in Indexes /\ writer[w].data \in Seq(STRING)
      BY <1>1, <2>1, WriterType
  <2>3. Written(writer[w].i, writer[w].data) \in Seq(STRING)
      BY <1>1, <2>2, WrittenType
  <2>4. /\ DOMAIN store' \subseteq Indexes /\ \A i \in DOMAIN store' : store'[i] \in Seq(STRING)
        /\ \A k \in Indexes : k # writer[w].i => Stored(k)' = Stored(k)
      BY <1>1, <2>1, <2>2, <2>3, PutType
  <2> QED BY <2>1, <2>4, WriterIInv
<1>4. ASSUME NEW w \in Writers, WriteFails(w)
      PROVE  ChunkIInv'
  <2>1. /\ writer[w] # NotWriting /\ UNCHANGED <<store, merge, output>>
        /\ writer' = [writer EXCEPT ![w] = NotWriting]
      BY <1>4 DEF WriteFails
  <2>2. /\ DOMAIN store' \subseteq Indexes /\ \A i \in DOMAIN store' : store'[i] \in Seq(STRING)
        /\ \A k \in Indexes : k # writer[w].i => Stored(k)' = Stored(k)
      BY <1>1, <2>1 DEF ChunkTypeOK, Stored
  <2> QED BY <2>1, <2>2, WriterIInv
<1>5. CASE ProcessDies
  <2>1. ChunkTypeOK'
      BY <1>1, <1>5, TotalType DEF ProcessDies, NotMerging, ChunkTypeOK, MergeStates
  <2>2. SoundChunk' /\ Merging'
      BY <1>5 DEF ProcessDies, NotMerging, SoundChunk, Merging
  <2> QED BY <2>1, <2>2 DEF ChunkIInv
<1>6. CASE UNCHANGED chunkVars
  <2>1. ChunkTypeOK'
      BY <1>1, <1>6 DEF chunkVars, ChunkTypeOK
  <2>2. SoundChunk' /\ Merging'
      BY <1>6 DEF chunkVars, ChunkIInv, SoundChunk, Merging, Settled, Stored
  <2> QED BY <2>1, <2>2 DEF ChunkIInv
<1> QED BY <1>2, <1>3, <1>4, <1>5, <1>6, OpenChunkIInv, MergeBeginsIInv, MergeSizeIInv,
           MergeReadIInv, MergeWriteFailsIInv, MergeReturnsIInv, MergeCloseFailsIInv
       DEF ChunkNext

LEMMA ChunkInvariant == ChunkSpec => []ChunkIInv
BY ChunkInitIInv, ChunkNextIInv, PTL DEF ChunkSpec

(***************************************************************************)
(* Type correctness of the chunk files, the writers and the merge          *)
(* (ChunkManager), for every file, chunk size and number of writers.       *)
(***************************************************************************)
THEOREM ChunkTypeCorrect == ChunkSpec => []ChunkTypeOK
<1>1. ChunkIInv => ChunkTypeOK
    BY DEF ChunkIInv
<1> QED BY <1>1, ChunkInvariant, PTL

(***************************************************************************)
(* merge_chunks gives the file if each chunk is right, and not being       *)
(* written, from the taking of its size to its read: for a file of any     *)
(* size, empty or with a short last chunk, any chunk size and any writers. *)
(***************************************************************************)
THEOREM MergeGivesTheFile == ChunkSpec => []MergedIsTheFile
<1>1. ChunkIInv => MergedIsTheFile
    BY DEF ChunkIInv, Merging, MergedIsTheFile
<1> QED BY <1>1, ChunkInvariant, PTL
=============================================================================
