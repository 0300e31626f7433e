--------------------------- MODULE MessagingProofs ---------------------------
(***************************************************************************)
(* Proofs about the message queue (MessageQueue), and the wire formats     *)
(* with the reading side of a connection (Wire, Stream).                   *)
(***************************************************************************)
EXTENDS MessageQueue, Stream, FiniteSetTheorems, SequenceTheorems,
        NaturalsInduction, WellFoundedInduction, TLAPS

-----------------------------------------------------------------------------
(***************************************************************************)
(* MessageQueue.  Time never goes back, so a queue is sorted by time and   *)
(* what cleanup_old_messages takes out of the middle, as it looks, is      *)
(* always a prefix.  What was popped is older than what is left.           *)
(***************************************************************************)
SortedUpTo(s, t) ==
    /\ \A i \in 1 .. Len(s) : s[i].timestamp <= t
    /\ \A i, j \in 1 .. Len(s) : i <= j => s[i].timestamp <= s[j].timestamp

Numbered(s, n) == \A i \in 1 .. Len(s) : s[i].id = n - Len(s) + i

QueueGood(q, s, n, p, t) ==
    /\ s \in Seq(Queued) /\ Len(s) <= Limit(q) /\ Numbered(s, n) /\ SortedUpTo(s, t)
    /\ p <= n - Len(s)

QueueIInv == QueueTypeOK /\ \A q \in Queues : QueueGood(q, queue[q], pushed[q], popped[q], ticks)

\* A non-empty set of naturals has a least element.
LEMMA LeastNatural ==
    ASSUME NEW T \in SUBSET Nat, T # {}
    PROVE  \E x \in T : \A y \in T : x <= y
<1>1. PICK x \in T : \A y \in T : <<y, x>> \notin OpToRel(<, Nat)
    BY NatLessThanWellFounded, WFMin
<1>2. \A y \in T : ~(y < x)
    BY <1>1 DEF OpToRel
<1> QED BY <1>2

\* a suffix of a good queue is good
LEMMA SuffixGood ==
    ASSUME NEW q \in Queues, NEW s, NEW n \in Nat, NEW p \in Nat, NEW t \in Nat,
           QueueGood(q, s, n, p, t), NEW m \in 0 .. Len(s), NEW r \in Seq(Queued),
           Len(r) = Len(s) - m, \A k \in 1 .. Len(r) : r[k] = s[m + k]
    PROVE  QueueGood(q, r, n, p, t)
<1>1. /\ s \in Seq(Queued) /\ Len(s) \in Nat /\ Len(r) \in Nat /\ Len(s) <= Limit(q)
      /\ Numbered(s, n) /\ SortedUpTo(s, t) /\ p <= n - Len(s)
    BY DEF QueueGood
<1>2. Limit(q) \in Nat
    BY QueueAssumption DEF Limit
<1>3. \A k \in 1 .. Len(r) : m + k \in 1 .. Len(s)
    BY <1>1
<1>4. Numbered(r, n)
  <2>1. SUFFICES ASSUME NEW k \in 1 .. Len(r) PROVE r[k].id = n - Len(r) + k
      BY DEF Numbered
  <2>2. r[k] = s[m + k] /\ m + k \in 1 .. Len(s)
      BY <1>3
  <2>3. s[m + k].id = n - Len(s) + (m + k)
      BY <1>1, <2>2 DEF Numbered
  <2> QED BY <1>1, <2>2, <2>3
<1>5. SortedUpTo(r, t)
  <2>1. ASSUME NEW i \in 1 .. Len(r) PROVE r[i].timestamp <= t
    <3>1. r[i] = s[m + i] /\ m + i \in 1 .. Len(s)
        BY <1>3
    <3> QED BY <1>1, <3>1 DEF SortedUpTo
  <2>2. ASSUME NEW i \in 1 .. Len(r), NEW j \in 1 .. Len(r), i <= j
        PROVE  r[i].timestamp <= r[j].timestamp
    <3>1. r[i] = s[m + i] /\ m + i \in 1 .. Len(s) /\ r[j] = s[m + j] /\ m + j \in 1 .. Len(s)
        BY <1>3
    <3>2. m + i <= m + j
        BY <1>1, <2>2
    <3> QED BY <1>1, <3>1, <3>2 DEF SortedUpTo
  <2> QED BY <2>1, <2>2 DEF SortedUpTo
<1> QED BY <1>1, <1>2, <1>4, <1>5 DEF QueueGood

\* what clean_queue keeps of a queue that is sorted by time is a suffix
LEMMA CleanedIsSuffix ==
    ASSUME NEW s \in Seq(Queued), ticks \in Nat, SortedUpTo(s, ticks), NEW max_age \in Nat
    PROVE  /\ clean_queue(s, max_age) \in Seq(Queued)
           /\ \E m \in 0 .. Len(s) :
                 /\ Len(clean_queue(s, max_age)) = Len(s) - m
                 /\ \A k \in 1 .. Len(clean_queue(s, max_age)) :
                       clean_queue(s, max_age)[k] = s[m + k]
<1> DEFINE N == Len(s)
           Y == Young(s, max_age)
<1>1. N \in Nat /\ DOMAIN s = 1 .. N /\ Y \subseteq 1 .. N
    BY DEF Young
<1>2. ASSUME NEW i \in 1 .. N PROVE s[i] \in Queued /\ s[i].timestamp \in Nat
  <2>1. s[i] \in Queued
      BY ElementOfSeq
  <2> QED BY <2>1, QueueAssumption DEF Queued
<1>3. ASSUME NEW i \in Y, NEW j \in 1 .. N, i <= j PROVE j \in Y
  <2>1. i \in 1 .. N /\ ticks - s[i].timestamp <= max_age
      BY <1>1 DEF Young
  <2>2. s[i].timestamp <= s[j].timestamp
      BY <1>3, <2>1 DEF SortedUpTo
  <2>3. ticks - s[j].timestamp <= max_age
      BY <1>2, <2>1, <2>2
  <2> QED BY <1>1, <2>3 DEF Young
<1>4. PICK m \in 0 .. N : Y = (m + 1) .. N
  <2>1. CASE Y = {}
    <3>1. Y = (N + 1) .. N
        BY <1>1, <2>1
    <3> QED BY <1>1, <3>1
  <2>2. CASE Y # {}
    <3>1. Y \in SUBSET Nat
        BY <1>1
    <3>2. PICK a \in Y : \A y \in Y : a <= y
        BY <2>2, <3>1, LeastNatural
    <3>3. a \in 1 .. N
        BY <1>1
    <3>4. Y = a .. N
      <4>1. \A y \in Y : y \in a .. N
          BY <1>1, <3>2, <3>3
      <4>2. \A y \in a .. N : y \in Y
          BY <1>1, <1>3, <3>3
      <4> QED BY <3>3, <4>1, <4>2
    <3>5. a - 1 \in 0 .. N /\ (a - 1) + 1 = a
        BY <1>1, <3>3
    <3> QED BY <3>4, <3>5
  <2> QED BY <2>1, <2>2
<1> HIDE DEF N, Y
<1>5. Cardinality(Y) = N - m
  <2>1. m + 1 \in Int /\ N \in Int
      BY <1>1
  <2>2. Cardinality((m + 1) .. N) = IF m + 1 > N THEN 0 ELSE N - (m + 1) + 1
      BY <2>1, FS_Interval
  <2> QED BY <1>1, <1>4, <2>2
<1>6. ASSUME NEW i \in Y PROVE Cardinality({j \in Y : j <= i}) = i - m
  <2>1. {j \in Y : j <= i} = (m + 1) .. i
      BY <1>1, <1>4
  <2>2. m + 1 \in Int /\ i \in Int /\ m + 1 <= i
      BY <1>1, <1>4
  <2>3. Cardinality((m + 1) .. i) = IF m + 1 > i THEN 0 ELSE i - (m + 1) + 1
      BY <2>2, FS_Interval
  <2>4. i - (m + 1) + 1 = i - m /\ ~(m + 1 > i)
      BY <1>1, <2>2
  <2> QED BY <2>1, <2>3, <2>4
<1>7. ASSUME NEW k \in 1 .. N - m
      PROVE  (CHOOSE i \in Y : Cardinality({j \in Y : j <= i}) = k) = m + k
  <2>1. m + k \in Y
      BY <1>1, <1>4
  <2>2. Cardinality({j \in Y : j <= m + k}) = k
      BY <1>1, <1>6, <2>1
  <2>3. \A i \in Y : Cardinality({j \in Y : j <= i}) = k => i = m + k
      BY <1>1, <1>4, <1>6
  <2> QED BY <2>1, <2>2, <2>3
<1>8. clean_queue(s, max_age) = [k \in 1 .. N - m |-> s[m + k]]
  <2> DEFINE ch(k) == CHOOSE i \in Y : Cardinality({j \in Y : j <= i}) = k
  <2>1. clean_queue(s, max_age) = [k \in 1 .. Cardinality(Y) |-> s[ch(k)]]
      BY Zenon DEF clean_queue, Y
  <2>2. \A k \in 1 .. N - m : ch(k) = m + k
      BY <1>7
  <2> HIDE DEF ch
  <2> QED BY <1>5, <2>1, <2>2
<1>9. \A k \in 1 .. N - m : s[m + k] \in Queued
    BY <1>1, <1>2
<1>10. N - m \in Nat
    BY <1>1
<1>11. [k \in 1 .. N - m |-> s[m + k]] \in Seq(Queued) /\ Len([k \in 1 .. N - m |-> s[m + k]]) = N - m
    BY <1>9, <1>10
<1> QED BY <1>4, <1>8, <1>11 DEF N

LEMMA QueueInitIInv == QueueInit => QueueIInv
<1> SUFFICES ASSUME QueueInit PROVE QueueIInv
    OBVIOUS
<1>1. QueueTypeOK
    BY QueueAssumption DEF QueueInit, QueueTypeOK
<1>2. ASSUME NEW q \in Queues PROVE QueueGood(q, queue[q], pushed[q], popped[q], ticks)
  <2>1. queue[q] = <<>> /\ pushed[q] = 0 /\ popped[q] = 0
      BY DEF QueueInit
  <2>2. 0 <= Limit(q)
      BY QueueAssumption DEF Limit
  <2> QED BY <2>1, <2>2 DEF QueueGood, Numbered, SortedUpTo
<1> QED BY <1>1, <1>2 DEF QueueIInv

\* the parts of one queue
LEMMA QueueParts ==
    ASSUME QueueIInv, NEW q \in Queues
    PROVE  /\ queue \in [Queues -> Seq(Queued)] /\ queue[q] \in Seq(Queued)
           /\ pushed \in [Queues -> 0 .. MaxPushed] /\ popped \in [Queues -> 0 .. MaxPushed]
           /\ pushed[q] \in Nat /\ popped[q] \in Nat /\ Len(queue[q]) \in Nat
           /\ ticks \in Nat /\ ticks \in 0 .. MaxTicks
           /\ QueueGood(q, queue[q], pushed[q], popped[q], ticks)
BY QueueAssumption DEF QueueIInv, QueueTypeOK

\* a step that changes one queue
LEMMA OneQueue ==
    ASSUME QueueIInv, NEW q \in Queues, NEW s \in Seq(Queued), NEW n \in 0 .. MaxPushed,
           NEW p \in 0 .. MaxPushed,
           queue' = [queue EXCEPT ![q] = s], pushed' = [pushed EXCEPT ![q] = n],
           popped' = [popped EXCEPT ![q] = p], ticks' = ticks, QueueGood(q, s, n, p, ticks)
    PROVE  QueueIInv'
<1>1. QueueTypeOK'
    BY DEF QueueIInv, QueueTypeOK
<1>2. ASSUME NEW r \in Queues PROVE QueueGood(r, queue'[r], pushed'[r], popped'[r], ticks')
  <2>1. CASE r = q
    <3>1. queue'[r] = s /\ pushed'[r] = n /\ popped'[r] = p
        BY <2>1, QueueParts
    <3> QED BY <2>1, <3>1
  <2>2. CASE r # q
    <3>1. queue'[r] = queue[r] /\ pushed'[r] = pushed[r] /\ popped'[r] = popped[r]
        BY <2>2, QueueParts
    <3> QED BY <3>1, QueueParts
  <2> QED BY <2>1, <2>2
<1> QED BY <1>1, <1>2 DEF QueueIInv

\* a message that is pushed gets the next number and the latest time
LEMMA AppendGood ==
    ASSUME NEW q \in Queues, NEW s \in Seq(Queued), NEW n \in Nat, NEW p \in Nat, NEW t \in Nat,
           QueueGood(q, s, n, p, t), Len(s) < Limit(q), NEW e \in Queued,
           e.id = n + 1, e.timestamp = t
    PROVE  QueueGood(q, Append(s, e), n + 1, p, t)
<1> DEFINE r == Append(s, e)
<1>1. /\ r \in Seq(Queued) /\ Len(s) \in Nat /\ Len(r) = Len(s) + 1 /\ r[Len(s) + 1] = e
      /\ \A i \in 1 .. Len(s) : r[i] = s[i]
    OBVIOUS
<1>2. Len(s) <= Limit(q) /\ Numbered(s, n) /\ SortedUpTo(s, t) /\ p <= n - Len(s)
    BY DEF QueueGood
<1>3. Limit(q) \in Nat
    BY QueueAssumption DEF Limit
<1> HIDE DEF r
<1>4. ASSUME NEW i \in 1 .. Len(r) PROVE i \in 1 .. Len(s) \/ i = Len(s) + 1
    BY <1>1
<1>5. Numbered(r, n + 1)
  <2>1. SUFFICES ASSUME NEW i \in 1 .. Len(r) PROVE r[i].id = (n + 1) - Len(r) + i
      BY DEF Numbered
  <2>2. CASE i \in 1 .. Len(s)
    <3>1. r[i].id = n - Len(s) + i
        BY <1>1, <1>2, <2>2 DEF Numbered
    <3> QED BY <1>1, <3>1
  <2>3. CASE i = Len(s) + 1
      BY <1>1, <2>3
  <2> QED BY <1>4, <2>2, <2>3
<1>6. SortedUpTo(r, t)
  <2>1. ASSUME NEW i \in 1 .. Len(r) PROVE r[i].timestamp <= t
      BY <1>1, <1>2, <1>4 DEF SortedUpTo
  <2>2. ASSUME NEW i \in 1 .. Len(r), NEW j \in 1 .. Len(r), i <= j
        PROVE  r[i].timestamp <= r[j].timestamp
    <3>1. CASE j = Len(s) + 1
        BY <1>1, <2>1, <3>1
    <3>2. CASE j \in 1 .. Len(s)
      <4>1. i \in 1 .. Len(s)
          BY <1>1, <2>2, <3>2
      <4> QED BY <1>1, <1>2, <2>2, <3>2, <4>1 DEF SortedUpTo
    <3> QED BY <1>4, <3>1, <3>2
  <2> QED BY <2>1, <2>2 DEF SortedUpTo
<1>7. Len(r) <= Limit(q) /\ p <= (n + 1) - Len(r)
    BY <1>1, <1>2, <1>3
<1> QED BY <1>1, <1>5, <1>6, <1>7 DEF QueueGood, r

LEMMA TailGood ==
    ASSUME NEW q \in Queues, NEW s \in Seq(Queued), NEW n \in Nat, NEW p \in Nat, NEW t \in Nat,
           QueueGood(q, s, n, p, t), s # <<>>
    PROVE  /\ Tail(s) \in Seq(Queued) /\ Len(Tail(s)) = Len(s) - 1
           /\ QueueGood(q, Tail(s), n, p, t)
<1>1. /\ Tail(s) \in Seq(Queued) /\ Len(Tail(s)) = Len(s) - 1 /\ 1 \in 0 .. Len(s)
      /\ \A k \in 1 .. Len(Tail(s)) : Tail(s)[k] = s[1 + k]
    OBVIOUS
<1> QED BY <1>1, SuffixGood

LEMMA push_IInv ==
    ASSUME QueueIInv, NEW q \in Queues, push(q)
    PROVE  QueueIInv'
<1> DEFINE s == MakeRoom(q)
           e == [id |-> pushed[q] + 1, timestamp |-> ticks]
<1>1. /\ pushed[q] < MaxPushed /\ queue' = [queue EXCEPT ![q] = Append(s, e)]
      /\ pushed' = [pushed EXCEPT ![q] = pushed[q] + 1] /\ UNCHANGED <<ticks, popped>>
    BY DEF push
<1>2. Limit(q) \in Nat /\ Limit(q) >= 1
  <2>1. max_size \div 4 \in Nat /\ max_size \div 4 >= 1
      BY QueueAssumption
  <2> QED BY <2>1, QueueAssumption DEF Limit
<1>3. s \in Seq(Queued) /\ QueueGood(q, s, pushed[q], popped[q], ticks) /\ Len(s) < Limit(q)
  <2>1. CASE Len(queue[q]) >= Limit(q)
    <3>1. s = Tail(queue[q])
        BY <2>1 DEF MakeRoom
    <3>2. queue[q] # <<>>
        BY <1>2, <2>1, QueueParts
    <3>3. Len(queue[q]) <= Limit(q)
        BY QueueParts DEF QueueGood
    <3>4. s \in Seq(Queued) /\ Len(s) = Len(queue[q]) - 1
          /\ QueueGood(q, s, pushed[q], popped[q], ticks)
        BY <3>1, <3>2, QueueParts, TailGood
    <3> QED BY <1>2, <3>3, <3>4, QueueParts
  <2>2. CASE ~(Len(queue[q]) >= Limit(q))
    <3>1. s = queue[q]
        BY <2>2 DEF MakeRoom
    <3> QED BY <1>2, <2>2, <3>1, QueueParts
  <2> QED BY <2>1, <2>2
<1>4. pushed[q] + 1 \in 1 .. MaxPushed /\ pushed[q] + 1 \in 0 .. MaxPushed
    BY <1>1, QueueParts, QueueAssumption
<1>5. e \in Queued /\ e.id = pushed[q] + 1 /\ e.timestamp = ticks
    BY <1>4, QueueParts DEF Queued
<1> HIDE DEF s, e
<1>6. QueueGood(q, Append(s, e), pushed[q] + 1, popped[q], ticks)
    BY <1>3, <1>5, AppendGood, QueueParts
<1>7. Append(s, e) \in Seq(Queued)
    BY <1>3, <1>5
<1>8. popped' = [popped EXCEPT ![q] = popped[q]] /\ popped[q] \in 0 .. MaxPushed
    BY <1>1, QueueParts
<1> QED BY <1>1, <1>4, <1>6, <1>7, <1>8, OneQueue

LEMMA PopFrom_IInv ==
    ASSUME QueueIInv, NEW q \in Queues, PopFrom(q)
    PROVE  QueueIInv' /\ popped'[q] > popped[q] /\ popped' = [popped EXCEPT ![q] = popped'[q]]
<1> DEFINE s == queue[q]
           p == s[1].id
<1>1. /\ s # <<>> /\ queue' = [queue EXCEPT ![q] = Tail(s)]
      /\ popped' = [popped EXCEPT ![q] = p] /\ UNCHANGED <<ticks, pushed>>
    BY DEF PopFrom
<1>2. 1 \in 1 .. Len(s)
    BY <1>1, QueueParts
<1>3. s[1] \in Queued
    BY <1>2, QueueParts, ElementOfSeq
<1>4. p \in 1 .. MaxPushed /\ p \in 0 .. MaxPushed /\ p \in Nat
    BY <1>3, QueueAssumption DEF Queued
<1>5. Numbered(s, pushed[q]) /\ popped[q] <= pushed[q] - Len(s)
    BY QueueParts DEF QueueGood
<1>6. p = pushed[q] - Len(s) + 1
    BY <1>2, <1>5 DEF Numbered
<1>7. Tail(s) \in Seq(Queued) /\ QueueGood(q, Tail(s), pushed[q], popped[q], ticks)
      /\ Len(Tail(s)) = Len(s) - 1
    BY <1>1, QueueParts, TailGood
<1>8. Len(s) \in Nat /\ pushed[q] \in Nat /\ popped[q] \in Nat
    BY QueueParts
<1> HIDE DEF s, p
<1>9. QueueGood(q, Tail(s), pushed[q], p, ticks)
    BY <1>4, <1>6, <1>7, <1>8 DEF QueueGood
<1>10. pushed' = [pushed EXCEPT ![q] = pushed[q]] /\ pushed[q] \in 0 .. MaxPushed
    BY <1>1, QueueParts
<1>11. QueueIInv'
    BY <1>1, <1>4, <1>7, <1>9, <1>10, OneQueue
<1>12. popped'[q] = p
    BY <1>1, QueueParts
<1>13. p > popped[q]
    BY <1>4, <1>5, <1>6, <1>8
<1> QED BY <1>1, <1>11, <1>12, <1>13

LEMMA QueueNextIInv == QueueIInv /\ [QueueNext]_queueVars => QueueIInv'
<1> SUFFICES ASSUME QueueIInv, [QueueNext]_queueVars PROVE QueueIInv'
    OBVIOUS
<1>1. ASSUME NEW q \in Queues, push(q) PROVE QueueIInv'
    BY <1>1, push_IInv
<1>2. CASE pop
    BY <1>2, PopFrom_IInv DEF pop, Queues
<1>3. CASE clear
  <2>1. queue' = [q \in Queues |-> <<>>] /\ UNCHANGED <<ticks, pushed, popped>>
      BY <1>3 DEF clear
  <2>2. QueueTypeOK'
      BY <2>1 DEF QueueIInv, QueueTypeOK
  <2>3. ASSUME NEW q \in Queues PROVE QueueGood(q, queue'[q], pushed'[q], popped'[q], ticks')
    <3>1. queue'[q] = <<>> /\ pushed'[q] = pushed[q] /\ popped'[q] = popped[q] /\ ticks' = ticks
        BY <2>1
    <3>2. Len(queue[q]) <= Limit(q) /\ popped[q] <= pushed[q] - Len(queue[q])
        BY QueueParts DEF QueueGood
    <3>3. 0 <= Limit(q) /\ popped[q] <= pushed[q] - 0
      <4>1. Limit(q) \in Nat
          BY QueueAssumption DEF Limit
      <4> QED BY <3>2, <4>1, QueueParts
    <3> QED BY <3>1, <3>3 DEF QueueGood, Numbered, SortedUpTo
  <2> QED BY <2>2, <2>3 DEF QueueIInv
<1>4. ASSUME NEW max_age \in 0 .. MaxTicks, cleanup_old_messages(max_age) PROVE QueueIInv'
  <2>1. /\ queue' = [q \in Queues |-> clean_queue(queue[q], max_age)]
        /\ UNCHANGED <<ticks, pushed, popped>>
      BY <1>4 DEF cleanup_old_messages
  <2>2. ASSUME NEW q \in Queues
        PROVE  /\ clean_queue(queue[q], max_age) \in Seq(Queued)
               /\ QueueGood(q, clean_queue(queue[q], max_age), pushed[q], popped[q], ticks)
    <3>1. SortedUpTo(queue[q], ticks)
        BY QueueParts DEF QueueGood
    <3>2. max_age \in Nat
        BY QueueAssumption
    <3>3. clean_queue(queue[q], max_age) \in Seq(Queued)
        BY <3>1, <3>2, QueueParts, CleanedIsSuffix
    <3>4. PICK m \in 0 .. Len(queue[q]) :
              /\ Len(clean_queue(queue[q], max_age)) = Len(queue[q]) - m
              /\ \A k \in 1 .. Len(clean_queue(queue[q], max_age)) :
                    clean_queue(queue[q], max_age)[k] = queue[q][m + k]
        BY <3>1, <3>2, QueueParts, CleanedIsSuffix
    <3> QED BY <3>3, <3>4, QueueParts, SuffixGood
  <2>3. QueueTypeOK'
      BY <2>1, <2>2 DEF QueueIInv, QueueTypeOK
  <2>4. ASSUME NEW q \in Queues PROVE QueueGood(q, queue'[q], pushed'[q], popped'[q], ticks')
    <3>1. queue'[q] = clean_queue(queue[q], max_age)
        BY <2>1
    <3> QED BY <2>1, <2>2, <3>1
  <2> QED BY <2>3, <2>4 DEF QueueIInv
<1>5. CASE QueueClockTick
  <2>1. /\ UNCHANGED <<queue, pushed, popped>> /\ ticks' = ticks + 1 /\ ticks' \in 0 .. MaxTicks
      BY <1>5, QueueAssumption DEF QueueClockTick, QueueIInv, QueueTypeOK
  <2>2. QueueTypeOK'
      BY <2>1 DEF QueueIInv, QueueTypeOK
  <2>3. ASSUME NEW q \in Queues PROVE QueueGood(q, queue'[q], pushed'[q], popped'[q], ticks')
    <3>1. SortedUpTo(queue[q], ticks)
        BY QueueParts DEF QueueGood
    <3>2. ASSUME NEW i \in 1 .. Len(queue[q]) PROVE queue[q][i].timestamp <= ticks + 1
      <4>1. queue[q][i] \in Queued
          BY QueueParts, ElementOfSeq
      <4>2. queue[q][i].timestamp \in Nat /\ queue[q][i].timestamp <= ticks
          BY <3>1, <4>1, QueueAssumption DEF SortedUpTo, Queued
      <4> QED BY <4>2, QueueParts
    <3>3. SortedUpTo(queue[q], ticks + 1)
        BY <3>1, <3>2 DEF SortedUpTo
    <3> QED BY <2>1, <3>3, QueueParts DEF QueueGood
  <2> QED BY <2>2, <2>3 DEF QueueIInv
<1>6. CASE UNCHANGED queueVars
    BY <1>6 DEF queueVars, QueueIInv, QueueTypeOK, QueueGood
<1> QED BY <1>1, <1>2, <1>3, <1>4, <1>5, <1>6 DEF QueueNext

LEMMA QueueInvariant == QueueSpec => []QueueIInv
BY QueueInitIInv, QueueNextIInv, PTL DEF QueueSpec

(***************************************************************************)
(* A queue always is the last messages pushed to it, without a gap, and    *)
(* within its limit, for every capacity of at least four: the overflow of  *)
(* push, pop and cleanup_old_messages take the oldest only.                *)
(***************************************************************************)
THEOREM QueueHoldsTheNewest == QueueSpec => []HoldsTheNewest
<1>1. QueueIInv => HoldsTheNewest
    BY DEF QueueIInv, QueueGood, Numbered, HoldsTheNewest
<1> QED BY <1>1, QueueInvariant, PTL

(***************************************************************************)
(* Messages of one queue are delivered in the order they were pushed, none *)
(* twice, whatever was dropped between, and pop serves the priority queue  *)
(* first.                                                                  *)
(***************************************************************************)
THEOREM QueueDeliversInOrder == QueueSpec => DeliveredInOrder
<1> DEFINE P == \A q \in Queues : popped'[q] # popped[q] =>
                   /\ popped'[q] > popped[q]
                   /\ q = "normal" => queue["priority"] = <<>>
<1>1. ASSUME QueueIInv, QueueNext PROVE P
  <2>1. ASSUME NEW r \in Queues, PopFrom(r), r = "normal" => queue["priority"] = <<>> PROVE P
    <3>1. popped'[r] > popped[r]
        BY <1>1, <2>1, PopFrom_IInv
    <3>2. \A q \in Queues : q # r => popped'[q] = popped[q]
        BY <1>1, <2>1, QueueParts DEF PopFrom
    <3> QED BY <2>1, <3>1, <3>2
  <2>2. CASE pop
    <3>1. "priority" \in Queues /\ "normal" \in Queues /\ "priority" # "normal"
        BY DEF Queues
    <3> HIDE DEF P
    <3> QED BY <2>1, <2>2, <3>1 DEF pop
  <2>3. CASE UNCHANGED popped
      BY <2>3
  <2> QED BY <1>1, <2>2, <2>3 DEF QueueNext, push, clear, cleanup_old_messages, QueueClockTick
<1>2. QueueIInv /\ [QueueNext]_queueVars => [P]_queueVars
    BY <1>1
<1>3. QueueSpec => [][P]_queueVars
    BY <1>2, QueueInvariant, PTL DEF QueueSpec
<1> QED BY <1>3 DEF DeliveredInOrder

-----------------------------------------------------------------------------
(***************************************************************************)
(* The wire formats and the reading side of a connection.                  *)
(*                                                                         *)
(* What a writer writes is a row of pieces, and a reader takes one piece   *)
(* after the other.  Two facts carry over from the pieces to the whole:    *)
(*                                                                         *)
(*   - whole: of a piece followed by any bytes, the reader of the piece    *)
(*     gives back the value and leaves those bytes;                        *)
(*   - cut: of a piece that lacks bytes at its end, the reader of a format *)
(*     that is not lenient throws.                                         *)
(*                                                                         *)
(* They are shown for numbers, then for strings, tuples, lists, fields and *)
(* messages, each from the one before, and last for frames.  Then every    *)
(* state of a connection is some number of frames that were read, perhaps  *)
(* a header, and the bytes of the others.                                  *)
(***************************************************************************)

(* Sequences of bytes. *)

Byte == Nat
Bytes == Seq(Byte)

LEMMA CatBytes ==
    ASSUME NEW a \in Bytes, NEW b \in Bytes
    PROVE  /\ a \o b \in Bytes /\ Len(a \o b) = Len(a) + Len(b)
           /\ \A i \in 1 .. Len(a) : (a \o b)[i] = a[i]
           /\ \A i \in 1 .. Len(b) : (a \o b)[Len(a) + i] = b[i]
BY DEF Bytes

LEMMA SameBytes ==
    ASSUME NEW a \in Bytes, NEW b \in Bytes, Len(a) = Len(b),
           \A i \in 1 .. Len(a) : a[i] = b[i]
    PROVE  a = b
BY SeqEqual DEF Bytes

LEMMA CatEmpty ==
    ASSUME NEW a \in Bytes
    PROVE  a \o <<>> = a /\ <<>> \o a = a
BY DEF Bytes

LEMMA CatAssociative ==
    ASSUME NEW a \in Bytes, NEW b \in Bytes, NEW c \in Bytes
    PROVE  (a \o b) \o c = a \o (b \o c)
BY DEF Bytes

\* the two parts of a concatenation are found again by their length
LEMMA CatParts ==
    ASSUME NEW a \in Bytes, NEW b \in Bytes
    PROVE  SubSeq(a \o b, 1, Len(a)) = a /\ From(a \o b, Len(a)) = b
<1>1. SubSeq(a \o b, 1, Len(a)) = a
    BY DEF Bytes
<1>2. From(a \o b, Len(a)) = b
    BY DEF Bytes, From
<1> QED BY <1>1, <1>2

\* any cut point splits bytes into two parts
LEMMA SplitBytes ==
    ASSUME NEW a \in Bytes, NEW n \in 0 .. Len(a)
    PROVE  /\ SubSeq(a, 1, n) \in Bytes /\ From(a, n) \in Bytes
           /\ Len(SubSeq(a, 1, n)) = n /\ Len(From(a, n)) = Len(a) - n
           /\ a = SubSeq(a, 1, n) \o From(a, n)
<1>1. Len(a) \in Nat /\ n \in Nat /\ n <= Len(a)
    BY DEF Bytes
<1>2. SubSeq(a, 1, n) \in Bytes /\ Len(SubSeq(a, 1, n)) = n
    BY <1>1 DEF Bytes
<1>3. From(a, n) \in Bytes /\ Len(From(a, n)) = Len(a) - n
    BY <1>1 DEF Bytes, From
<1>4. a = SubSeq(a, 1, n) \o From(a, n)
  <2> DEFINE p == SubSeq(a, 1, n)
             q == From(a, n)
  <2>1. \A i \in 1 .. n : p[i] = a[i]
      BY <1>1 DEF Bytes
  <2>2. \A i \in 1 .. Len(a) - n : q[i] = a[n + i]
      BY <1>1 DEF Bytes, From
  <2>3. p \in Bytes /\ Len(p) = n /\ q \in Bytes /\ Len(q) = Len(a) - n
      BY <1>2, <1>3
  <2> HIDE DEF p, q
  <2>4. p \o q \in Bytes /\ Len(a) = Len(p \o q)
      BY <1>1, <2>3, CatBytes
  <2>5. \A i \in 1 .. Len(a) : a[i] = (p \o q)[i]
    <3> TAKE i \in 1 .. Len(a)
    <3>1. CASE i <= n
        BY <1>1, <2>1, <2>3, <3>1, CatBytes
    <3>2. CASE i > n
      <4>1. i - n \in 1 .. Len(q) /\ i = Len(p) + (i - n)
          BY <1>1, <2>3, <3>2
      <4>2. (p \o q)[Len(p) + (i - n)] = q[i - n]
          BY <2>3, <4>1, CatBytes
      <4> QED BY <1>1, <2>2, <2>3, <4>1, <4>2
    <3>3. i <= n \/ i > n
        BY <1>1
    <3> QED BY <3>1, <3>2, <3>3, Zenon
  <2>6. a = p \o q
      BY <2>4, <2>5, SameBytes
  <2> QED BY <2>6 DEF p, q
<1> QED BY <1>2, <1>3, <1>4

LEMMA CatCancels ==
    ASSUME NEW a \in Bytes, NEW b \in Bytes, NEW c \in Bytes, a \o b = a \o c
    PROVE  b = c
<1>1. From(a \o b, Len(a)) = b
    BY CatParts
<1>2. From(a \o c, Len(a)) = c
    BY CatParts
<1> QED BY <1>1, <1>2

\* two ways to split the same bytes
Overlap(a, b, c, d) ==
    \/ \E z \in Bytes : c = a \o z /\ b = z \o d
    \/ \E z \in Bytes : z # <<>> /\ a = c \o z /\ d = z \o b

\* of two splits of the same bytes, one is the finer at the front
LEMMA TwoSplits ==
    ASSUME NEW a \in Bytes, NEW b \in Bytes, NEW c \in Bytes, NEW d \in Bytes,
           a \o b = c \o d
    PROVE  Overlap(a, b, c, d)
<1>1. CASE Len(a) <= Len(c)
  <2> DEFINE z == From(c, Len(a))
  <2>1. z \in Bytes /\ c = SubSeq(c, 1, Len(a)) \o z /\ Len(SubSeq(c, 1, Len(a))) = Len(a)
      BY <1>1, SplitBytes DEF Bytes
  <2>2. SubSeq(c, 1, Len(a)) = a
      BY <1>1 DEF Bytes
  <2> HIDE DEF z
  <2>3. b = z \o d
    <3>z. z \in Bytes
        BY <2>1
    <3>0. z \o d \in Bytes
        BY <3>z, CatBytes
    <3>1. (a \o z) \o d = a \o (z \o d)
        BY <3>z, CatAssociative, ZenonT(60)
    <3>2. a \o b = a \o (z \o d)
        BY <2>1, <2>2, <3>1
    <3> QED BY <3>0, <3>2, CatCancels
  <2>4. z \in Bytes /\ c = a \o z /\ b = z \o d
      BY <2>1, <2>2, <2>3
  <2> QED BY <2>4, Zenon DEF Overlap
<1>2. CASE Len(a) > Len(c)
  <2> DEFINE z == From(a, Len(c))
  <2>1. z \in Bytes /\ a = SubSeq(a, 1, Len(c)) \o z /\ z # <<>>
      BY <1>2, SplitBytes DEF Bytes
  <2>2. SubSeq(a, 1, Len(c)) = c
      BY <1>2 DEF Bytes
  <2> HIDE DEF z
  <2>3. d = z \o b
    <3>z. z \in Bytes
        BY <2>1
    <3>0. z \o b \in Bytes
        BY <3>z, CatBytes
    <3>1. (c \o z) \o b = c \o (z \o b)
        BY <3>z, CatAssociative, ZenonT(60)
    <3>2. c \o d = c \o (z \o b)
        BY <2>1, <2>2, <3>1
    <3> QED BY <3>0, <3>2, CatCancels
  <2>4. z \in Bytes /\ z # <<>> /\ a = c \o z /\ d = z \o b
      BY <2>1, <2>2, <2>3
  <2> QED BY <2>4, Zenon DEF Overlap
<1>3. Len(a) <= Len(c) \/ Len(a) > Len(c)
    BY DEF Bytes
<1> QED BY <1>1, <1>2, <1>3, Zenon

-----------------------------------------------------------------------------
(* The loops of Wire. *)

\* induction over the steps of a loop
LEMMA StepByStep ==
    ASSUME NEW n \in Nat, NEW P, 0 \in P, \A k \in 1 .. n : k - 1 \in P => k \in P
    PROVE  \A k \in 0 .. n : k \in P
<1> DEFINE Bad == {k \in Nat : k <= n /\ k \notin P}
<1>1. SUFFICES ASSUME Bad # {} PROVE FALSE
    OBVIOUS
<1>2. PICK k \in Bad : \A j \in Bad : k <= j
    BY <1>1, LeastNatural
<1>3. k \in 1 .. n /\ k - 1 \in Nat /\ k - 1 <= n /\ k - 1 < k
    OBVIOUS
<1>4. k - 1 \in P
    BY <1>2, <1>3
<1> QED BY <1>3, <1>4

\* a loop whose steps stay within a set has results
Loop(X, n, x, step, r) ==
    /\ r \in [0 .. n -> X] /\ r[0] = x
    /\ \A k \in 1 .. n : r[k] = step[k][r[k - 1]]

LEMMA LoopExists ==
    ASSUME NEW X, NEW n \in Nat, NEW x \in X, NEW step \in [1 .. n -> [X -> X]]
    PROVE  \E r : Loop(X, n, x, step, r)
<1> DEFINE Until(m, r) == /\ r \in [0 .. m -> X] /\ r[0] = x
                          /\ \A k \in 1 .. m : r[k] = step[k][r[k - 1]]
           Bad == {m \in Nat : m <= n /\ ~\E r : Until(m, r)}
<1>1. \E r : Until(0, r)
  <2>1. Until(0, [k \in 0 .. 0 |-> x])
      OBVIOUS
  <2> QED BY <2>1
<1>2. ASSUME NEW m \in Nat, m < n, NEW r, Until(m, r) PROVE \E q : Until(m + 1, q)
  <2> DEFINE q == [k \in 0 .. m + 1 |-> IF k <= m THEN r[k] ELSE step[m + 1][r[m]]]
  <2>1. step[m + 1][r[m]] \in X
      BY <1>2
  <2>2. q \in [0 .. m + 1 -> X] /\ q[0] = x
      BY <1>2, <2>1
  <2>3. \A k \in 1 .. m + 1 : q[k] = step[k][q[k - 1]]
    <3> TAKE k \in 1 .. m + 1
    <3>1. CASE k <= m
      <4>1. k \in 0 .. m + 1 /\ k - 1 \in 0 .. m + 1 /\ k - 1 <= m /\ k \in 1 .. m
          BY <3>1
      <4>2. q[k] = r[k] /\ q[k - 1] = r[k - 1]
          BY <3>1, <4>1
      <4>3. r[k] = step[k][r[k - 1]]
          BY <1>2, <4>1
      <4> QED BY <4>2, <4>3
    <3>2. CASE k = m + 1
      <4>1. k \in 0 .. m + 1 /\ ~(k <= m) /\ k - 1 = m /\ m \in 0 .. m + 1 /\ m <= m
          BY <3>2
      <4>2. q[k] = step[m + 1][r[m]] /\ q[m] = r[m]
          BY <4>1
      <4> QED BY <3>2, <4>1, <4>2
    <3> QED BY <3>1, <3>2
  <2> HIDE DEF q
  <2> QED BY <2>2, <2>3
<1>3. Bad = {}
  <2>1. SUFFICES ASSUME Bad # {} PROVE FALSE
      OBVIOUS
  <2>2. PICK m \in Bad : \A k \in Bad : m <= k
      BY <2>1, LeastNatural
  <2>3. m \in Nat /\ m # 0 /\ m <= n
      BY <1>1
  <2>4. m - 1 \in Nat /\ m - 1 < n /\ m - 1 < m /\ (m - 1) + 1 = m
      BY <2>3
  <2>5. m - 1 \notin Bad
    <3> HIDE DEF Bad
    <3> QED BY <2>2, <2>3, <2>4
  <2>6. PICK r : Until(m - 1, r)
      BY <2>4, <2>5
  <2>7. \E q : Until((m - 1) + 1, q)
      BY <1>2, <2>4, <2>6
  <2> QED BY <2>3, <2>4, <2>7
<1>4. \E r : Until(n, r)
  <2>1. n \notin Bad
      BY <1>3
  <2> QED BY <2>1
<1> QED BY <1>4 DEF Loop

Shifting(w, v, s) == s = [k \in 0 .. w |-> IF k = 0 THEN v ELSE s[k - 1] \div Base]

\* a shift by one byte, and the byte that it drops
LEMMA Dividing ==
    ASSUME NEW v \in Nat
    PROVE  /\ v \div Base \in Nat /\ v % Base \in 0 .. Base - 1
           /\ v = (v \div Base) * Base + (v % Base)
BY WireAssumption

\* Shifts is what its recursion says (it exists: the steps stay within Nat)
LEMMA ShiftsStep ==
    ASSUME NEW w \in Nat, NEW v \in Nat
    PROVE  /\ Shifts(w, v) \in [0 .. w -> Nat] /\ Shifts(w, v)[0] = v
           /\ \A k \in 1 .. w : Shifts(w, v)[k] = Shifts(w, v)[k - 1] \div Base
<1> DEFINE s == CHOOSE s : Shifting(w, v, s)
<1>1. Shifts(w, v) = s
    BY Zenon DEF Shifts, Shifting
<1>2. PICK r : /\ r \in [0 .. w -> Nat] /\ r[0] = v
               /\ \A k \in 1 .. w : r[k] = [x \in Nat |-> x \div Base][r[k - 1]]
  <2> DEFINE step == [k \in 1 .. w |-> [x \in Nat |-> x \div Base]]
  <2>1. step \in [1 .. w -> [Nat -> Nat]]
      BY Dividing
  <2>2. \E r : Loop(Nat, w, v, step, r)
    <3> HIDE DEF step
    <3> QED BY <2>1, LoopExists
  <2> QED BY <2>2 DEF Loop
<1>3. \A k \in 1 .. w : k - 1 \in 0 .. w /\ r[k - 1] \in Nat /\ k \in 0 .. w /\ k # 0
    BY <1>2
<1>4. \A k \in 1 .. w : r[k] = r[k - 1] \div Base
    BY <1>2, <1>3
<1>5. \A k \in 0 .. w : r[k] = IF k = 0 THEN v ELSE r[k - 1] \div Base
    BY <1>2, <1>4
<1>6. Shifting(w, v, r)
    BY <1>2, <1>5 DEF Shifting
<1>7. s = [k \in 0 .. w |-> IF k = 0 THEN v ELSE s[k - 1] \div Base]
    BY <1>6, Zenon DEF Shifting
<1> HIDE DEF s
<1>8. \A k \in 0 .. w : s[k] = r[k]
  <2> DEFINE P == {k \in 0 .. w : s[k] = r[k]}
  <2>1. 0 \in P
      BY <1>2, <1>7
  <2>2. \A k \in 1 .. w : k - 1 \in P => k \in P
      BY <1>3, <1>4, <1>7
  <2> HIDE DEF P
  <2>3. \A k \in 0 .. w : k \in P
      BY <2>1, <2>2, StepByStep
  <2> QED BY <2>3 DEF P
<1>9. s = r
    BY <1>2, <1>7, <1>8
<1> QED BY <1>1, <1>2, <1>4, <1>9

Valuing(order, d, n, f) ==
    f = [k \in 0 .. n |->
            IF k = 0 THEN 0 ELSE f[k - 1] * Base + d[IF order = "big" THEN k ELSE n - k + 1]]

\* a number of w bytes takes w bytes
LEMMA DigitsAreBytes ==
    ASSUME NEW order, NEW w \in Nat, NEW v \in Nat
    PROVE  Digits(order, w, v) \in Bytes /\ Len(Digits(order, w, v)) = w
<1> DEFINE at(i) == IF order = "big" THEN w - i ELSE i - 1
<1>1. \A i \in 1 .. w : at(i) \in 0 .. w
    OBVIOUS
<1>2. \A i \in 1 .. w : Shifts(w, v)[at(i)] % Base \in Nat
  <2> TAKE i \in 1 .. w
  <2>1. Shifts(w, v)[at(i)] \in Nat
      BY <1>1, ShiftsStep, ZenonT(60)
  <2> HIDE DEF at
  <2> QED BY <2>1, Dividing
<1>3. Digits(order, w, v) = [i \in 1 .. w |-> Shifts(w, v)[at(i)] % Base]
    BY Zenon DEF Digits
<1> HIDE DEF at
<1> QED BY <1>2, <1>3 DEF Bytes, Byte

\* a number that fits its width is read back
LEMMA NumberOfDigits ==
    ASSUME NEW order, NEW w \in Nat, NEW v \in Nat, Fits(w, v)
    PROVE  Number(order, Digits(order, w, v)) = v
<1> DEFINE d == Digits(order, w, v)
           s == Shifts(w, v)
           f == CHOOSE f : Valuing(order, d, w, f)
           r == [k \in 0 .. w |-> s[w - k]]
           at(k) == IF order = "big" THEN k ELSE w - k + 1
<1>1. Number(order, d) = f[w]
  <2>1. Len(d) = w
      BY DigitsAreBytes
  <2> HIDE DEF d
  <2> QED BY <2>1, Zenon DEF Number, Valuing
<1>2. /\ s \in [0 .. w -> Nat] /\ s[0] = v /\ s[w] = 0
      /\ \A k \in 1 .. w : s[k] = s[k - 1] \div Base
    BY ShiftsStep DEF Fits
<1>3. ASSUME NEW k \in 1 .. w
      PROVE  r[k] = r[k - 1] * Base + d[at(k)] /\ r[k - 1] \in Nat
  <2>1. /\ w - k \in 0 .. w /\ w - (k - 1) \in 0 .. w /\ w - (k - 1) = (w - k) + 1
        /\ (w - k) + 1 \in 1 .. w /\ ((w - k) + 1) - 1 = w - k /\ at(k) \in 1 .. w
        /\ k \in 0 .. w /\ k - 1 \in 0 .. w
      OBVIOUS
  <2>2. s[w - k] \in Nat /\ r[k] = s[w - k] /\ r[k - 1] = s[(w - k) + 1]
      BY <1>2, <2>1
  <2>3. r[k - 1] = s[w - k] \div Base
      BY <1>2, <2>1, <2>2
  <2>4. d[at(k)] = s[w - k] % Base
    <3>1. (IF order = "big" THEN w - at(k) ELSE at(k) - 1) = w - k
        BY <2>1
    <3>2. d[at(k)] = s[IF order = "big" THEN w - at(k) ELSE at(k) - 1] % Base
        BY <2>1, Zenon DEF Digits
    <3> QED BY <3>1, <3>2
  <2> QED BY <2>2, <2>3, <2>4, Dividing
<1> HIDE DEF d, s, r, f
<1>4. r[0] = 0 /\ r[w] = v /\ DOMAIN r = 0 .. w
  <2>1. w - 0 = w /\ w - w = 0 /\ 0 \in 0 .. w /\ w \in 0 .. w
      OBVIOUS
  <2> QED BY <1>2, <2>1 DEF r
<1>5. Valuing(order, d, w, r)
  <2>1. \A k \in 0 .. w : r[k] = IF k = 0 THEN 0 ELSE r[k - 1] * Base + d[at(k)]
      BY <1>3, <1>4
  <2>2. r = [k \in 0 .. w |-> r[k]]
      BY DEF r
  <2> HIDE DEF at
  <2>3. r = [k \in 0 .. w |-> IF k = 0 THEN 0 ELSE r[k - 1] * Base + d[at(k)]]
      BY <2>1, <2>2, Zenon
  <2> QED BY <2>3 DEF Valuing, at
<1>6. f = [k \in 0 .. w |-> IF k = 0 THEN 0 ELSE f[k - 1] * Base + d[at(k)]]
    BY <1>5, Zenon DEF Valuing, f
<1>7. \A k \in 0 .. w : k \in {j \in 0 .. w : f[j] = r[j]}
  <2> DEFINE P == {j \in 0 .. w : f[j] = r[j]}
  <2> HIDE DEF at
  <2>1. 0 \in P
      BY <1>4, <1>6
  <2>2. ASSUME NEW k \in 1 .. w, k - 1 \in P PROVE k \in P
    <3>1. k \in 0 .. w /\ k # 0
        OBVIOUS
    <3>2. f[k] = f[k - 1] * Base + d[at(k)]
        BY <1>6, <3>1
    <3> QED BY <1>3, <2>2, <3>1, <3>2
  <2> HIDE DEF P
  <2>3. \A k \in 0 .. w : k \in P
      BY <2>1, <2>2, StepByStep
  <2> QED BY <2>3 DEF P
<1> QED BY <1>1, <1>4, <1>7 DEF d

\* after[k] are the bytes that follow the first k of n pieces
Following(piece, n, after) ==
    /\ after \in [0 .. n -> Bytes] /\ after[n] = <<>>
    /\ \A k \in 0 .. n - 1 : after[k] = piece[k + 1] \o after[k + 1]

Joining(piece, n, f) ==
    f = [k \in 0 .. n |-> IF k = n THEN <<>> ELSE piece[k + 1] \o f[k + 1]]

\* Joined is what its recursion says
LEMMA JoinedBytes ==
    ASSUME NEW n \in Nat, NEW piece, Len(piece) = n, \A k \in 1 .. n : piece[k] \in Bytes
    PROVE  \E after : Following(piece, n, after) /\ Joined(piece) = after[0]
<1> DEFINE f == CHOOSE f : Joining(piece, n, f)
<1>1. Joined(piece) = f[0]
    BY Zenon DEF Joined, Joining
<1>2. PICK r : /\ r \in [0 .. n -> Bytes] /\ r[0] = <<>>
               /\ \A k \in 1 .. n : r[k] = piece[n - k + 1] \o r[k - 1]
  <2> DEFINE step == [k \in 1 .. n |-> [x \in Bytes |-> piece[n - k + 1] \o x]]
  <2>1. step \in [1 .. n -> [Bytes -> Bytes]]
    <3>1. \A k \in 1 .. n : n - k + 1 \in 1 .. n
        OBVIOUS
    <3>2. \A k \in 1 .. n : \A x \in Bytes : piece[n - k + 1] \o x \in Bytes
        BY <3>1, CatBytes
    <3> QED BY <3>2
  <2>2. <<>> \in Bytes
      BY DEF Bytes
  <2>3. PICK r : Loop(Bytes, n, <<>>, step, r)
    <3> HIDE DEF step
    <3> QED BY <2>1, <2>2, LoopExists
  <2>4. /\ r \in [0 .. n -> Bytes] /\ r[0] = <<>>
        /\ \A k \in 1 .. n : r[k] = step[k][r[k - 1]]
      BY <2>3, Zenon DEF Loop
  <2>5. \A k \in 1 .. n : r[k - 1] \in Bytes
      BY <2>4
  <2> QED BY <2>4, <2>5
<1> DEFINE a == [k \in 0 .. n |-> r[n - k]]
<1>3. Following(piece, n, a)
  <2>1. \A k \in 0 .. n : n - k \in 0 .. n
      OBVIOUS
  <2>2. a \in [0 .. n -> Bytes]
      BY <1>2, <2>1
  <2>3. a[n] = <<>>
      BY <1>2
  <2>4. ASSUME NEW k \in 0 .. n - 1 PROVE a[k] = piece[k + 1] \o a[k + 1]
    <3>1. /\ n - k \in 1 .. n /\ n - (n - k) + 1 = k + 1 /\ (n - k) - 1 = n - (k + 1)
          /\ k \in 0 .. n /\ k + 1 \in 0 .. n
        OBVIOUS
    <3>2. r[n - k] = piece[k + 1] \o r[n - (k + 1)]
        BY <1>2, <3>1
    <3> QED BY <3>1, <3>2
  <2> QED BY <2>2, <2>3, <2>4 DEF Following
<1>4. Joining(piece, n, a)
  <2>2. a = [k \in 0 .. n |-> a[k]]
      OBVIOUS
  <2> HIDE DEF a
  <2>1. \A k \in 0 .. n : a[k] = IF k = n THEN <<>> ELSE piece[k + 1] \o a[k + 1]
    <3> TAKE k \in 0 .. n
    <3>1. k = n \/ (k # n /\ k \in 0 .. n - 1)
        OBVIOUS
    <3> QED BY <1>3, <3>1 DEF Following
  <2>3. a = [k \in 0 .. n |-> IF k = n THEN <<>> ELSE piece[k + 1] \o a[k + 1]]
      BY <2>1, <2>2, Zenon
  <2> QED BY <2>3 DEF Joining
<1>5. f = [k \in 0 .. n |-> IF k = n THEN <<>> ELSE piece[k + 1] \o f[k + 1]]
  <2> HIDE DEF a
  <2> QED BY <1>4, Zenon DEF Joining
<1> HIDE DEF f, a
<1>6. \A k \in 0 .. n : k \in {j \in 0 .. n : f[n - j] = a[n - j]}
  <2> DEFINE P == {j \in 0 .. n : f[n - j] = a[n - j]}
  <2>1. 0 \in P
      BY <1>3, <1>5 DEF Following
  <2>2. ASSUME NEW k \in 1 .. n, k - 1 \in P PROVE k \in P
    <3>1. n - k \in 0 .. n - 1 /\ n - k \in 0 .. n /\ n - k # n /\ n - (k - 1) = (n - k) + 1
        OBVIOUS
    <3>2. f[n - k] = piece[(n - k) + 1] \o f[(n - k) + 1]
        BY <1>5, <3>1
    <3>3. a[n - k] = piece[(n - k) + 1] \o a[(n - k) + 1]
        BY <1>3, <3>1 DEF Following
    <3>4. f[n - (k - 1)] = a[n - (k - 1)]
        BY <2>2
    <3>5. f[n - k] = a[n - k]
        BY <3>1, <3>2, <3>3, <3>4
    <3>6. k \in 0 .. n
        OBVIOUS
    <3> QED BY <3>5, <3>6
  <2> HIDE DEF P
  <2>3. \A k \in 0 .. n : k \in P
      BY <2>1, <2>2, StepByStep
  <2> QED BY <2>3 DEF P
<1>7. f[0] = a[0]
  <2>1. f[n - n] = a[n - n]
      BY <1>6
  <2>2. n - n = 0
      OBVIOUS
  <2> QED BY <2>1, <2>2
<1> QED BY <1>1, <1>3, <1>7

\* pieces of at least m bytes
LEMMA JoinedLength ==
    ASSUME NEW n \in Nat, NEW piece, NEW after, Following(piece, n, after), NEW m \in Nat,
           \A k \in 1 .. n : piece[k] \in Bytes /\ Len(piece[k]) >= m
    PROVE  Len(after[0]) >= n * m
<1> DEFINE P == {j \in 0 .. n : Len(after[n - j]) >= j * m}
<1>1. 0 \in P
    BY DEF Following
<1>2. ASSUME NEW k \in 1 .. n, k - 1 \in P PROVE k \in P
  <2>1. /\ n - k \in 0 .. n - 1 /\ n - k \in 0 .. n /\ n - (k - 1) = (n - k) + 1
        /\ (n - k) + 1 \in 1 .. n /\ (n - k) + 1 \in 0 .. n
      OBVIOUS
  <2>2. after[n - k] = piece[(n - k) + 1] \o after[(n - k) + 1]
      BY <2>1 DEF Following
  <2>3. piece[(n - k) + 1] \in Bytes /\ after[(n - k) + 1] \in Bytes
      BY <2>1 DEF Following
  <2>4. Len(after[n - k]) = Len(piece[(n - k) + 1]) + Len(after[(n - k) + 1])
      BY <2>2, <2>3, CatBytes
  <2>5. Len(piece[(n - k) + 1]) >= m /\ Len(after[(n - k) + 1]) >= (k - 1) * m
      BY <1>2, <2>1
  <2>6. (k - 1) * m + m = k * m /\ (k - 1) * m \in Nat /\ k * m \in Nat
      OBVIOUS
  <2>7. Len(piece[(n - k) + 1]) \in Nat /\ Len(after[(n - k) + 1]) \in Nat
      BY <2>3 DEF Bytes
  <2>8. Len(after[n - k]) >= k * m
    <3> DEFINE x == (k - 1) * m
               y == k * m
               p == Len(piece[(n - k) + 1])
               q == Len(after[(n - k) + 1])
    <3>1. p \in Nat /\ q \in Nat /\ x \in Nat /\ y \in Nat /\ x + m = y /\ p >= m /\ q >= x
        BY <2>5, <2>6, <2>7
    <3> HIDE DEF x, y, p, q
    <3>2. p + q >= y
        BY <3>1
    <3> QED BY <2>4, <3>2 DEF p, q, y
  <2> QED BY <2>1, <2>8
<1> HIDE DEF P
<1>3. n \in P
  <2>1. \A k \in 0 .. n : k \in P
      BY <1>1, <1>2, StepByStep
  <2> QED BY <2>1
<1>4. n - n = 0
    OBVIOUS
<1> QED BY <1>3, <1>4 DEF P

-----------------------------------------------------------------------------
(***************************************************************************)
(* Reading one thing after the other.  A reader takes a piece whole when,  *)
(* of the piece and whatever follows, it makes the value of the piece and  *)
(* leaves what follows; it refuses a cut when it throws for every proper   *)
(* prefix of the piece.  Both carry over from the pieces to all of them.   *)
(***************************************************************************)
Cut(c, s) == \E y \in Bytes : y # <<>> /\ s = c \o y

\* read[k] is the result after k things, got[k] what the k-th gave
Reads(n, s, read, got) ==
    /\ read[0] = Result(TRUE, <<>>, s)
    /\ \A k \in 1 .. n : read[k] = Then(read[k - 1], got[k])

\* what follows a piece is left, and its value is v[k]
TakesPieces(n, piece, v, read, got) ==
    \A k \in 1 .. n : \A x \in Bytes :
        read[k - 1].rest = piece[k] \o x => got[k] = Result(TRUE, v[k], x)

RefusesCuts(n, piece, read, got) ==
    \A k \in 1 .. n : \A c \in Bytes :
        read[k - 1].rest = c /\ Cut(c, piece[k]) => ~got[k].ok

Values(v, n) == [i \in 1 .. n |-> v[i]]

\* left[k] are the bytes that are left after k things
Leaves(n, left, v, read, got) ==
    \A k \in 1 .. n : read[k - 1].rest = left[k - 1] => got[k] = Result(TRUE, v[k], left[k])

\* if every thing leaves what it should, all are read
LEMMA ReadsInTurn ==
    ASSUME NEW n \in Nat, NEW left, NEW v, NEW read, NEW got, Reads(n, left[0], read, got),
           Leaves(n, left, v, read, got)
    PROVE  read[n] = Result(TRUE, Values(v, n), left[n])
<1> DEFINE Upto(k) == [i \in 1 .. k |-> v[i]]
           P == {k \in 0 .. n : read[k] = Result(TRUE, Upto(k), left[k])}
<1>1. 0 \in P
  <2>1. Upto(0) = <<>>
      OBVIOUS
  <2>2. read[0] = Result(TRUE, Upto(0), left[0])
      BY <2>1 DEF Reads
  <2>3. 0 \in 0 .. n
      OBVIOUS
  <2> HIDE DEF Upto
  <2> QED BY <2>2, <2>3
<1>2. ASSUME NEW k \in 1 .. n, k - 1 \in P PROVE k \in P
  <2>1. k \in 0 .. n /\ k - 1 \in Nat
      OBVIOUS
  <2>2. Append(Upto(k - 1), v[k]) = Upto(k)
    <3>1. Len(Upto(k - 1)) = k - 1
        BY <2>1
    <3>2. Append(Upto(k - 1), v[k])
             = [i \in 1 .. (k - 1) + 1 |-> IF i <= k - 1 THEN v[i] ELSE v[k]]
        BY <2>1, <3>1
    <3> QED BY <3>2
  <2> HIDE DEF Upto
  <2>a. read[k - 1] = Result(TRUE, Upto(k - 1), left[k - 1])
      BY <1>2
  <2>3. /\ read[k - 1].ok /\ read[k - 1].value = Upto(k - 1)
        /\ read[k - 1].rest = left[k - 1]
      BY <2>a DEF Result
  <2>4. got[k] = Result(TRUE, v[k], left[k])
      BY <2>3 DEF Leaves
  <2>5. read[k] = Then(read[k - 1], got[k])
      BY DEF Reads
  <2>6. read[k] = Result(TRUE, Upto(k), left[k])
    <3>1. got[k].ok = TRUE /\ got[k].value = v[k] /\ got[k].rest = left[k]
        BY <2>4 DEF Result
    <3>2. read[k] = Result(got[k].ok, Append(read[k - 1].value, got[k].value), got[k].rest)
        BY <2>3, <2>5 DEF Then
    <3> QED BY <2>2, <2>3, <3>1, <3>2
  <2> QED BY <2>1, <2>6
<1> HIDE DEF P
<1>3. n \in P
  <2>1. \A k \in 0 .. n : k \in P
      BY <1>1, <1>2, StepByStep
  <2> QED BY <2>1
<1> QED BY <1>3 DEF P, Values

\* pieces that are each taken whole are taken together, and the rest is left
LEMMA ReadsWhole ==
    ASSUME NEW n \in Nat, NEW piece, \A k \in 1 .. n : piece[k] \in Bytes,
           NEW after, Following(piece, n, after), NEW rest \in Bytes, NEW v, NEW read, NEW got,
           Reads(n, after[0] \o rest, read, got), TakesPieces(n, piece, v, read, got)
    PROVE  read[n] = Result(TRUE, Values(v, n), rest)
<1> DEFINE left == [k \in 0 .. n |-> after[k] \o rest]
<1>1. \A k \in 0 .. n : left[k] = after[k] \o rest
    OBVIOUS
<1>2. left[0] = after[0] \o rest /\ left[n] = rest
  <2>1. 0 \in 0 .. n /\ n \in 0 .. n /\ after[n] \o rest = rest
      BY CatEmpty DEF Following
  <2> QED BY <1>1, <2>1
<1> HIDE DEF left
<1>3. ASSUME NEW k \in 1 .. n, read[k - 1].rest = left[k - 1]
      PROVE  got[k] = Result(TRUE, v[k], left[k])
  <2>1. k - 1 \in 0 .. n - 1 /\ (k - 1) + 1 = k /\ k \in 0 .. n /\ k - 1 \in 0 .. n
      OBVIOUS
  <2>2. after[k - 1] = piece[k] \o after[k] /\ after[k] \in Bytes /\ piece[k] \in Bytes
      BY <2>1 DEF Following
  <2>3. (piece[k] \o after[k]) \o rest = piece[k] \o (after[k] \o rest)
      BY <2>2, CatAssociative
  <2>4. after[k] \o rest \in Bytes
      BY <2>2, CatBytes
  <2>5. left[k] \in Bytes /\ read[k - 1].rest = piece[k] \o left[k]
      BY <1>1, <1>3, <2>1, <2>2, <2>3, <2>4
  <2> QED BY <2>5 DEF TakesPieces
<1>4. Reads(n, left[0], read, got)
    BY <1>2
<1>5. read[n] = Result(TRUE, Values(v, n), left[n])
  <2>1. Leaves(n, left, v, read, got)
      BY <1>3, Zenon DEF Leaves
  <2> QED BY <1>4, <2>1, ReadsInTurn
<1> QED BY <1>2, <1>5

CutIn(c, a, b) == Cut(c, a) \/ \E x \in Bytes : c = a \o x /\ Cut(x, b)

\* a cut of two pieces cuts the first, or has it whole and cuts the second
LEMMA CutOfPieces ==
    ASSUME NEW c \in Bytes, NEW a \in Bytes, NEW b \in Bytes, Cut(c, a \o b)
    PROVE  CutIn(c, a, b)
<1>1. PICK y \in Bytes : y # <<>> /\ a \o b = c \o y
    BY DEF Cut
<1>2. Overlap(a, b, c, y)
    BY <1>1, TwoSplits
<1> QED BY <1>1, <1>2 DEF Cut, CutIn, Overlap

LEMMA NoCutOfNothing ==
    ASSUME NEW c \in Bytes
    PROVE  ~Cut(c, <<>>)
<1>1. SUFFICES ASSUME NEW y \in Bytes, y # <<>>, <<>> = c \o y PROVE FALSE
    BY DEF Cut
<1>2. Len(c \o y) = Len(c) + Len(y) /\ Len(y) > 0 /\ Len(c) >= 0
    BY <1>1, CatBytes DEF Bytes
<1>3. Len(c \o y) = 0
    BY <1>1
<1> QED BY <1>2, <1>3 DEF Bytes

\* where a piece is cut, its reader throws, and so does the whole
LEMMA ReadsCut ==
    ASSUME NEW n \in Nat, NEW piece, \A k \in 1 .. n : piece[k] \in Bytes,
           NEW after, Following(piece, n, after), NEW c \in Bytes, Cut(c, after[0]),
           NEW v, NEW read, NEW got, Reads(n, c, read, got),
           TakesPieces(n, piece, v, read, got), RefusesCuts(n, piece, read, got)
    PROVE  ~read[n].ok
<1> DEFINE P == {k \in 0 .. n : read[k].ok => \E x \in Bytes : read[k].rest = x /\ Cut(x, after[k])}
<1>1. 0 \in P
  <2>1. read[0].rest = c
      BY DEF Reads, Result
  <2> QED BY <2>1
<1>2. ASSUME NEW k \in 1 .. n, k - 1 \in P PROVE k \in P
  <2>1. k - 1 \in 0 .. n - 1 /\ (k - 1) + 1 = k /\ k \in 0 .. n
      OBVIOUS
  <2>2. SUFFICES ASSUME read[k].ok
                 PROVE  \E x \in Bytes : read[k].rest = x /\ Cut(x, after[k])
      BY <2>1
  <2>3. read[k] = Then(read[k - 1], got[k])
      BY DEF Reads
  <2>4. read[k - 1].ok /\ got[k].ok /\ read[k].rest = got[k].rest
      BY <2>2, <2>3 DEF Then, Result
  <2>5. PICK x \in Bytes : read[k - 1].rest = x /\ Cut(x, after[k - 1])
      BY <1>2, <2>4
  <2>6. after[k - 1] = piece[k] \o after[k] /\ after[k] \in Bytes /\ piece[k] \in Bytes
      BY <2>1 DEF Following
  <2>7. ~Cut(x, piece[k])
      BY <2>4, <2>5 DEF RefusesCuts
  <2>8. PICK z \in Bytes : x = piece[k] \o z /\ Cut(z, after[k])
    <3>1. CutIn(x, piece[k], after[k])
        BY <2>5, <2>6, CutOfPieces
    <3> QED BY <2>7, <3>1 DEF CutIn
  <2>9. got[k] = Result(TRUE, v[k], z)
      BY <2>5, <2>8 DEF TakesPieces
  <2>b. got[k].rest = z
      BY <2>9 DEF Result
  <2> QED BY <2>4, <2>8, <2>b
<1> HIDE DEF P
<1>3. n \in P
  <2>1. \A k \in 0 .. n : k \in P
      BY <1>1, <1>2, StepByStep
  <2> QED BY <2>1
<1>4. after[n] = <<>>
    BY DEF Following
<1> QED BY <1>3, <1>4, NoCutOfNothing DEF P

\* nothing is left to read, and nothing is thrown
LEMMA ReadsNothing ==
    ASSUME NEW n \in Nat, NEW v, NEW read, NEW got, Reads(n, <<>>, read, got),
           \A k \in 1 .. n : read[k - 1].rest = <<>> => got[k] = Result(TRUE, v[k], <<>>)
    PROVE  read[n] = Result(TRUE, Values(v, n), <<>>)
<1> DEFINE left == [k \in 0 .. n |-> <<>>]
<1>1. /\ left[0] = <<>> /\ left[n] = <<>>
      /\ \A k \in 1 .. n : left[k - 1] = <<>> /\ left[k] = <<>>
    OBVIOUS
<1> HIDE DEF left
<1>2. Reads(n, left[0], read, got)
    BY <1>1
<1>3. Leaves(n, left, v, read, got)
    BY <1>1 DEF Leaves
<1>4. read[n] = Result(TRUE, Values(v, n), left[n])
    BY <1>2, <1>3, ReadsInTurn
<1> QED BY <1>1, <1>4

\* the loops of the three readers
TupleStep(codec, fields, s, f, k) ==
    IF k = 0 THEN Result(TRUE, <<>>, s)
    ELSE Then(f[k - 1], ReadScalar(codec, fields[k], f[k - 1].rest))

TupleLoop(codec, fields, s, n, f) == f = [k \in 0 .. n |-> TupleStep(codec, fields, s, f, k)]

LEMMA TupleLoopExists ==
    ASSUME NEW codec, NEW fields, NEW s, NEW n \in Nat
    PROVE  \E f : TupleLoop(codec, fields, s, n, f)
<1> DEFINE Body(f, k) == TupleStep(codec, fields, s, f, k)
           Until(m, f) == f = [k \in 0 .. m |-> Body(f, k)]
           P == {m \in 0 .. n : \E f : Until(m, f)}
<1>1. 0 \in P
  <2> DEFINE f == [k \in 0 .. 0 |-> Result(TRUE, <<>>, s)]
  <2>1. \A k \in 0 .. 0 : Body(f, k) = Result(TRUE, <<>>, s)
      BY DEF TupleStep
  <2>2. Until(0, f)
      BY <2>1, Zenon
  <2> QED BY <2>2
<1>2. ASSUME NEW m \in 1 .. n, m - 1 \in P PROVE m \in P
  <2>1. PICK f : Until(m - 1, f)
      BY <1>2
  <2> DEFINE h == [k \in 0 .. m |-> Body(f, k)]
  <2>2. ASSUME NEW k \in 0 .. m - 1 PROVE h[k] = f[k]
    <3>1. f[k] = Body(f, k)
        BY <2>1, Zenon
    <3>2. k \in 0 .. m
        OBVIOUS
    <3> QED BY <3>1, <3>2
  <2>3. ASSUME NEW k \in 0 .. m PROVE Body(h, k) = Body(f, k)
    <3>1. CASE k = 0
        BY <3>1 DEF TupleStep
    <3>2. CASE k # 0
      <4>1. k - 1 \in 0 .. m - 1
          BY <3>2
      <4>2. h[k - 1] = f[k - 1]
          BY <2>2, <4>1
      <4> HIDE DEF h
      <4> QED BY <3>2, <4>2 DEF TupleStep
    <3> QED BY <3>1, <3>2
  <2>4. Until(m, h)
      BY <2>3, Zenon
  <2>5. m \in 0 .. n
      OBVIOUS
  <2> HIDE DEF h, Until
  <2> QED BY <2>4, <2>5
<1>3. n \in P
  <2> HIDE DEF P
  <2>1. \A k \in 0 .. n : k \in P
      BY <1>1, <1>2, StepByStep
  <2> QED BY <2>1
<1> QED BY <1>3 DEF TupleLoop

TupleRead(codec, fields, s, read, got) ==
    /\ Reads(Len(fields), s, read, got) /\ ReadTuple(codec, fields, s) = read[Len(fields)]
    /\ \A k \in 1 .. Len(fields) : got[k] = ReadScalar(codec, fields[k], read[k - 1].rest)

\* ReadTuple reads one field after the other
LEMMA TupleInTurn ==
    ASSUME NEW codec, NEW fields, NEW s, Len(fields) \in Nat
    PROVE  \E read, got : TupleRead(codec, fields, s, read, got)
<1> DEFINE n == Len(fields)
           f == CHOOSE f : TupleLoop(codec, fields, s, n, f)
           got == [k \in 1 .. n |-> ReadScalar(codec, fields[k], f[k - 1].rest)]
<1>1. ReadTuple(codec, fields, s) = f[n]
    BY Zenon DEF ReadTuple, InTurn, TupleLoop, TupleStep
<1>2. TupleLoop(codec, fields, s, n, f)
  <2>1. n \in Nat
      OBVIOUS
  <2> QED BY <2>1, TupleLoopExists
<1> HIDE DEF f
<1>3. \A k \in 0 .. n : f[k] = TupleStep(codec, fields, s, f, k)
    BY <1>2, Zenon DEF TupleLoop
<1>4. f[0] = Result(TRUE, <<>>, s)
  <2>1. 0 \in 0 .. n
      OBVIOUS
  <2>2. f[0] = TupleStep(codec, fields, s, f, 0)
      BY <1>3, <2>1
  <2> QED BY <2>2 DEF TupleStep
<1>5. ASSUME NEW k \in 1 .. n
      PROVE  f[k] = Then(f[k - 1], got[k]) /\ got[k] = ReadScalar(codec, fields[k], f[k - 1].rest)
  <2>1. k \in 0 .. n /\ k # 0
      OBVIOUS
  <2>2. f[k] = TupleStep(codec, fields, s, f, k)
      BY <1>3, <2>1
  <2>3. got[k] = ReadScalar(codec, fields[k], f[k - 1].rest)
      OBVIOUS
  <2> HIDE DEF got
  <2> QED BY <2>1, <2>2, <2>3 DEF TupleStep
<1> HIDE DEF got
<1>6. Reads(n, s, f, got)
    BY <1>4, <1>5 DEF Reads
<1> QED BY <1>1, <1>5, <1>6 DEF TupleRead

ListStep(codec, fields, s, f, k) ==
    IF k = 0 THEN Result(TRUE, <<>>, s)
    ELSE Then(f[k - 1], ReadTuple(codec, fields, f[k - 1].rest))

ListLoop(codec, fields, s, n, f) == f = [k \in 0 .. n |-> ListStep(codec, fields, s, f, k)]

LEMMA ListLoopExists ==
    ASSUME NEW codec, NEW fields, NEW s, NEW n \in Nat
    PROVE  \E f : ListLoop(codec, fields, s, n, f)
<1> DEFINE Body(f, k) == ListStep(codec, fields, s, f, k)
           Until(m, f) == f = [k \in 0 .. m |-> Body(f, k)]
           P == {m \in 0 .. n : \E f : Until(m, f)}
<1>1. 0 \in P
  <2> DEFINE f == [k \in 0 .. 0 |-> Result(TRUE, <<>>, s)]
  <2>1. \A k \in 0 .. 0 : Body(f, k) = Result(TRUE, <<>>, s)
      BY DEF ListStep
  <2>2. Until(0, f)
      BY <2>1, Zenon
  <2> QED BY <2>2
<1>2. ASSUME NEW m \in 1 .. n, m - 1 \in P PROVE m \in P
  <2>1. PICK f : Until(m - 1, f)
      BY <1>2
  <2> DEFINE h == [k \in 0 .. m |-> Body(f, k)]
  <2>2. ASSUME NEW k \in 0 .. m - 1 PROVE h[k] = f[k]
    <3>1. f[k] = Body(f, k)
        BY <2>1, Zenon
    <3>2. k \in 0 .. m
        OBVIOUS
    <3> QED BY <3>1, <3>2
  <2>3. ASSUME NEW k \in 0 .. m PROVE Body(h, k) = Body(f, k)
    <3>1. CASE k = 0
        BY <3>1 DEF ListStep
    <3>2. CASE k # 0
      <4>1. k - 1 \in 0 .. m - 1
          BY <3>2
      <4>2. h[k - 1] = f[k - 1]
          BY <2>2, <4>1
      <4> HIDE DEF h
      <4> QED BY <3>2, <4>2 DEF ListStep
    <3> QED BY <3>1, <3>2
  <2>4. Until(m, h)
      BY <2>3, Zenon
  <2>5. m \in 0 .. n
      OBVIOUS
  <2> HIDE DEF h, Until
  <2> QED BY <2>4, <2>5
<1>3. n \in P
  <2> HIDE DEF P
  <2>1. \A k \in 0 .. n : k \in P
      BY <1>1, <1>2, StepByStep
  <2> QED BY <2>1
<1> QED BY <1>3 DEF ListLoop

ListRead(codec, fields, count, s, read, got) ==
    /\ Reads(count, s, read, got) /\ ReadList(codec, fields, count, s) = read[count]
    /\ \A k \in 1 .. count : got[k] = ReadTuple(codec, fields, read[k - 1].rest)

\* ReadList reads one tuple after the other
LEMMA ListInTurn ==
    ASSUME NEW codec, NEW fields, NEW s, NEW count \in Nat,
           ~(count * Len(fields) > Len(s) /\ ~codec.lenient)
    PROVE  \E read, got : ListRead(codec, fields, count, s, read, got)
<1> DEFINE n == count
           f == CHOOSE f : ListLoop(codec, fields, s, n, f)
           got == [k \in 1 .. n |-> ReadTuple(codec, fields, f[k - 1].rest)]
<1>1. ReadList(codec, fields, count, s) = f[n]
  <2>1. Len([i \in 1 .. count |-> i]) = count
      OBVIOUS
  <2>2. ReadList(codec, fields, count, s)
           = InTurn(LAMBDA i, rest : ReadTuple(codec, fields, rest), [i \in 1 .. count |-> i], s)
      BY Zenon DEF ReadList
  <2> QED BY <2>1, <2>2, Zenon DEF InTurn, ListLoop, ListStep
<1>2. ListLoop(codec, fields, s, n, f)
  <2>1. n \in Nat
      OBVIOUS
  <2> QED BY <2>1, ListLoopExists
<1> HIDE DEF f
<1>3. \A k \in 0 .. n : f[k] = ListStep(codec, fields, s, f, k)
    BY <1>2, Zenon DEF ListLoop
<1>4. f[0] = Result(TRUE, <<>>, s)
  <2>1. 0 \in 0 .. n
      OBVIOUS
  <2>2. f[0] = ListStep(codec, fields, s, f, 0)
      BY <1>3, <2>1
  <2> QED BY <2>2 DEF ListStep
<1>5. ASSUME NEW k \in 1 .. n
      PROVE  f[k] = Then(f[k - 1], got[k]) /\ got[k] = ReadTuple(codec, fields, f[k - 1].rest)
  <2>1. k \in 0 .. n /\ k # 0
      OBVIOUS
  <2>2. f[k] = ListStep(codec, fields, s, f, k)
      BY <1>3, <2>1
  <2>3. got[k] = ReadTuple(codec, fields, f[k - 1].rest)
      OBVIOUS
  <2> HIDE DEF got
  <2> QED BY <2>1, <2>2, <2>3 DEF ListStep
<1> HIDE DEF got
<1>6. Reads(n, s, f, got)
    BY <1>4, <1>5 DEF Reads
<1> QED BY <1>1, <1>5, <1>6 DEF ListRead

FieldsStep(codec, fields, s, f, k) ==
    IF k = 0 THEN Result(TRUE, <<>>, s)
    ELSE Then(f[k - 1], ReadField(codec, fields[k], f[k - 1].rest))

FieldsLoop(codec, fields, s, n, f) == f = [k \in 0 .. n |-> FieldsStep(codec, fields, s, f, k)]

LEMMA FieldsLoopExists ==
    ASSUME NEW codec, NEW fields, NEW s, NEW n \in Nat
    PROVE  \E f : FieldsLoop(codec, fields, s, n, f)
<1> DEFINE Body(f, k) == FieldsStep(codec, fields, s, f, k)
           Until(m, f) == f = [k \in 0 .. m |-> Body(f, k)]
           P == {m \in 0 .. n : \E f : Until(m, f)}
<1>1. 0 \in P
  <2> DEFINE f == [k \in 0 .. 0 |-> Result(TRUE, <<>>, s)]
  <2>1. \A k \in 0 .. 0 : Body(f, k) = Result(TRUE, <<>>, s)
      BY DEF FieldsStep
  <2>2. Until(0, f)
      BY <2>1, Zenon
  <2> QED BY <2>2
<1>2. ASSUME NEW m \in 1 .. n, m - 1 \in P PROVE m \in P
  <2>1. PICK f : Until(m - 1, f)
      BY <1>2
  <2> DEFINE h == [k \in 0 .. m |-> Body(f, k)]
  <2>2. ASSUME NEW k \in 0 .. m - 1 PROVE h[k] = f[k]
    <3>1. f[k] = Body(f, k)
        BY <2>1, Zenon
    <3>2. k \in 0 .. m
        OBVIOUS
    <3> QED BY <3>1, <3>2
  <2>3. ASSUME NEW k \in 0 .. m PROVE Body(h, k) = Body(f, k)
    <3>1. CASE k = 0
        BY <3>1 DEF FieldsStep
    <3>2. CASE k # 0
      <4>1. k - 1 \in 0 .. m - 1
          BY <3>2
      <4>2. h[k - 1] = f[k - 1]
          BY <2>2, <4>1
      <4> HIDE DEF h
      <4> QED BY <3>2, <4>2 DEF FieldsStep
    <3> QED BY <3>1, <3>2
  <2>4. Until(m, h)
      BY <2>3, Zenon
  <2>5. m \in 0 .. n
      OBVIOUS
  <2> HIDE DEF h, Until
  <2> QED BY <2>4, <2>5
<1>3. n \in P
  <2> HIDE DEF P
  <2>1. \A k \in 0 .. n : k \in P
      BY <1>1, <1>2, StepByStep
  <2> QED BY <2>1
<1> QED BY <1>3 DEF FieldsLoop

FieldsRead(codec, fields, s, read, got) ==
    /\ Reads(Len(fields), s, read, got) /\ deserialize(codec, fields, s) = read[Len(fields)]
    /\ \A k \in 1 .. Len(fields) : got[k] = ReadField(codec, fields[k], read[k - 1].rest)

\* deserialize reads one field after the other
LEMMA FieldsInTurn ==
    ASSUME NEW codec, NEW fields, NEW s, Len(fields) \in Nat
    PROVE  \E read, got : FieldsRead(codec, fields, s, read, got)
<1> DEFINE n == Len(fields)
           f == CHOOSE f : FieldsLoop(codec, fields, s, n, f)
           got == [k \in 1 .. n |-> ReadField(codec, fields[k], f[k - 1].rest)]
<1>1. deserialize(codec, fields, s) = f[n]
    BY Zenon DEF deserialize, InTurn, FieldsLoop, FieldsStep
<1>2. FieldsLoop(codec, fields, s, n, f)
  <2>1. n \in Nat
      OBVIOUS
  <2> QED BY <2>1, FieldsLoopExists
<1> HIDE DEF f
<1>3. \A k \in 0 .. n : f[k] = FieldsStep(codec, fields, s, f, k)
    BY <1>2, Zenon DEF FieldsLoop
<1>4. f[0] = Result(TRUE, <<>>, s)
  <2>1. 0 \in 0 .. n
      OBVIOUS
  <2>2. f[0] = FieldsStep(codec, fields, s, f, 0)
      BY <1>3, <2>1
  <2> QED BY <2>2 DEF FieldsStep
<1>5. ASSUME NEW k \in 1 .. n
      PROVE  f[k] = Then(f[k - 1], got[k]) /\ got[k] = ReadField(codec, fields[k], f[k - 1].rest)
  <2>1. k \in 0 .. n /\ k # 0
      OBVIOUS
  <2>2. f[k] = FieldsStep(codec, fields, s, f, k)
      BY <1>3, <2>1
  <2>3. got[k] = ReadField(codec, fields[k], f[k - 1].rest)
      OBVIOUS
  <2> HIDE DEF got
  <2> QED BY <2>1, <2>2, <2>3 DEF FieldsStep
<1> HIDE DEF got
<1>6. Reads(n, s, f, got)
    BY <1>4, <1>5 DEF Reads
<1> QED BY <1>1, <1>5, <1>6 DEF FieldsRead

-----------------------------------------------------------------------------
(* What the readers make of what the writers wrote. *)

ScalarFields == {U(w) : w \in Nat \ {0}} \cup {Str}

LEMMA ScalarKinds ==
    ASSUME NEW field \in ScalarFields
    PROVE  /\ field.kind = "number" => field.width \in Nat /\ field.width > 0
           /\ field.kind # "list" /\ Len(field.of) = 0
           /\ field.kind # "number" => field = Str
BY DEF ScalarFields, U, Str

LEMMA LenOfBytes ==
    ASSUME NEW a \in Bytes
    PROVE  Len(a) \in Nat /\ (a # <<>> => Len(a) > 0)
BY DEF Bytes

LEMMA FitsNat ==
    ASSUME NEW w, NEW v, Fits(w, v)
    PROVE  v \in Nat
BY DEF Fits

LEMMA StringBytes ==
    ASSUME NEW v \in Seq(0 .. Base - 1)
    PROVE  v \in Bytes
BY WireAssumption DEF Bytes, Byte

LEMMA CutLength ==
    ASSUME NEW c \in Bytes, NEW s \in Bytes, Cut(c, s)
    PROVE  Len(c) < Len(s)
<1>1. PICK y \in Bytes : y # <<>> /\ s = c \o y
    BY DEF Cut
<1>2. Len(s) = Len(c) + Len(y)
    BY <1>1, CatBytes
<1>3. Len(y) \in Nat /\ Len(y) # 0 /\ Len(c) \in Nat
    BY <1>1 DEF Bytes
<1> QED BY <1>2, <1>3

\* a number that fits its width is read back
LEMMA ReadNumberWhole ==
    ASSUME NEW codec, NEW w \in Nat, NEW v, Fits(w, v), NEW rest \in Bytes
    PROVE  ReadNumber(codec, w, Digits(codec.order, w, v) \o rest) = Result(TRUE, v, rest)
<1> DEFINE d == Digits(codec.order, w, v)
           s == d \o rest
<1>1. v \in Nat /\ d \in Bytes /\ Len(d) = w
    BY FitsNat, DigitsAreBytes
<1>2. Number(codec.order, d) = v
    BY <1>1, NumberOfDigits
<1> HIDE DEF d
<1>3. SubSeq(s, 1, w) = d /\ From(s, w) = rest
    BY <1>1, CatParts
<1>4. ~(Len(s) < w)
  <2>1. Len(s) = Len(d) + Len(rest) /\ Len(rest) \in Nat
      BY <1>1, CatBytes, LenOfBytes
  <2> HIDE DEF s
  <2> QED BY <1>1, <2>1
<1> HIDE DEF s
<1>5. ReadNumber(codec, w, s) = Result(TRUE, v, rest)
    BY <1>2, <1>3, <1>4 DEF ReadNumber
<1> QED BY <1>5 DEF s, d

\* too few bytes for a number: an exception, or 0 with nothing consumed
LEMMA ReadNumberCut ==
    ASSUME NEW codec, NEW w \in Nat, NEW s, Len(s) < w
    PROVE  /\ ReadNumber(codec, w, s).ok <=> codec.lenient
           /\ ReadNumber(codec, w, s).value = 0 /\ ReadNumber(codec, w, s).rest = s
BY DEF ReadNumber, Short, Result, Default, U

\* every scalar takes at least a byte
LEMMA ScalarBytes ==
    ASSUME NEW codec, NEW field \in ScalarFields, NEW v, HoldsScalar(field, v)
    PROVE  WriteScalar(codec, field, v) \in Bytes /\ Len(WriteScalar(codec, field, v)) >= 1
<1>1. CASE field.kind = "number"
  <2>1. field.width \in Nat /\ field.width > 0 /\ Fits(field.width, v)
      BY <1>1, ScalarKinds DEF HoldsScalar
  <2>2. /\ Digits(codec.order, field.width, v) \in Bytes
        /\ Len(Digits(codec.order, field.width, v)) = field.width
      BY <2>1, FitsNat, DigitsAreBytes
  <2> QED BY <1>1, <2>1, <2>2 DEF WriteScalar
<1>2. CASE field.kind # "number"
  <2>1. v \in Bytes /\ Fits(4, Len(v))
      BY <1>2, StringBytes DEF HoldsScalar
  <2> DEFINE d == Digits(codec.order, 4, Len(v))
  <2>2. d \in Bytes /\ Len(d) = 4
      BY <2>1, FitsNat, DigitsAreBytes
  <2>3. WriteScalar(codec, field, v) = d \o v
      BY <1>2 DEF WriteScalar
  <2> HIDE DEF d
  <2>4. d \o v \in Bytes /\ Len(d \o v) = Len(d) + Len(v) /\ Len(v) \in Nat
      BY <2>1, <2>2, CatBytes, LenOfBytes
  <2> QED BY <2>2, <2>3, <2>4
<1> QED BY <1>1, <1>2

\* a number or a string is read back
LEMMA ReadScalarWhole ==
    ASSUME NEW codec, NEW field \in ScalarFields, NEW v, HoldsScalar(field, v),
           NEW rest \in Bytes
    PROVE  ReadScalar(codec, field, WriteScalar(codec, field, v) \o rest) = Result(TRUE, v, rest)
<1>1. CASE field.kind = "number"
  <2>1. field.width \in Nat /\ Fits(field.width, v)
      BY <1>1, ScalarKinds DEF HoldsScalar
  <2> QED BY <1>1, <2>1, ReadNumberWhole DEF WriteScalar, ReadScalar
<1>2. CASE field.kind # "number"
  <2>1. v \in Bytes /\ Fits(4, Len(v)) /\ Len(v) \in Nat
      BY <1>2, StringBytes DEF HoldsScalar, Bytes
  <2> DEFINE d == Digits(codec.order, 4, Len(v))
             s == WriteScalar(codec, field, v) \o rest
             size == ReadNumber(codec, 4, s)
  <2>2. d \in Bytes /\ Len(d) = 4
      BY <2>1, DigitsAreBytes
  <2>3. WriteScalar(codec, field, v) = d \o v
      BY <1>2 DEF WriteScalar
  <2>4. v \o rest \in Bytes /\ s = d \o (v \o rest)
    <3> HIDE DEF d
    <3>1. (d \o v) \o rest = d \o (v \o rest)
        BY <2>1, <2>2, CatAssociative
    <3> QED BY <2>1, <2>3, <3>1, CatBytes
  <2>5. size = Result(TRUE, Len(v), v \o rest)
    <3>1. ReadNumber(codec, 4, d \o (v \o rest)) = Result(TRUE, Len(v), v \o rest)
      <4> DEFINE r == v \o rest
      <4>1. r \in Bytes /\ 4 \in Nat
          BY <2>4
      <4> HIDE DEF r
      <4>2. ReadNumber(codec, 4, d \o r) = Result(TRUE, Len(v), r)
          BY <2>1, <4>1, ReadNumberWhole
      <4> QED BY <4>2 DEF r
    <3> HIDE DEF d, s
    <3> QED BY <2>4, <3>1
  <2>6. ~(Len(s) < 4) /\ ~(Len(v \o rest) < Len(v))
    <3> HIDE DEF d, s
    <3>1. Len(v \o rest) = Len(v) + Len(rest) /\ Len(rest) \in Nat
        BY <2>1, CatBytes DEF Bytes
    <3>2. Len(s) = Len(d) + Len(v \o rest)
        BY <2>2, <2>4, CatBytes
    <3> QED BY <2>1, <2>2, <3>1, <3>2
  <2>7. SubSeq(v \o rest, 1, Len(v)) = v /\ From(v \o rest, Len(v)) = rest
      BY <2>1, CatParts
  <2> HIDE DEF s, size
  <2>8. size.ok /\ size.value = Len(v) /\ size.rest = v \o rest
      BY <2>5 DEF Result
  <2>9. ReadScalar(codec, field, s)
           = Result(TRUE, SubSeq(size.rest, 1, size.value), From(size.rest, size.value))
      BY <1>2, <2>6, <2>8 DEF ReadScalar, size
  <2> QED BY <2>7, <2>8, <2>9 DEF s
<1> QED BY <1>1, <1>2

\* a cut number or string is refused: its length may be whole, its characters then not
LEMMA ReadScalarCut ==
    ASSUME NEW codec, ~codec.lenient, NEW field \in ScalarFields, NEW v,
           HoldsScalar(field, v), NEW c \in Bytes, Cut(c, WriteScalar(codec, field, v))
    PROVE  ~ReadScalar(codec, field, c).ok
<1>1. CASE field.kind = "number"
  <2>1. field.width \in Nat /\ Fits(field.width, v)
      BY <1>1, ScalarKinds DEF HoldsScalar
  <2>2. /\ Digits(codec.order, field.width, v) \in Bytes
        /\ Len(Digits(codec.order, field.width, v)) = field.width
      BY <2>1, FitsNat, DigitsAreBytes
  <2>3. Len(c) < field.width
      BY <1>1, <2>2, CutLength DEF WriteScalar
  <2>4. ReadScalar(codec, field, c) = ReadNumber(codec, field.width, c)
      BY <1>1 DEF ReadScalar
  <2>5. ~ReadNumber(codec, field.width, c).ok
      BY <2>1, <2>3, ReadNumberCut
  <2> QED BY <2>4, <2>5
<1>2. CASE field.kind # "number"
  <2>1. v \in Bytes /\ Fits(4, Len(v)) /\ Len(v) \in Nat
      BY <1>2, StringBytes DEF HoldsScalar, Bytes
  <2> DEFINE d == Digits(codec.order, 4, Len(v))
             size == ReadNumber(codec, 4, c)
  <2>2. d \in Bytes /\ Len(d) = 4
      BY <2>1, FitsNat, DigitsAreBytes
  <2>3. WriteScalar(codec, field, v) = d \o v
      BY <1>2 DEF WriteScalar
  <2>4. CutIn(c, d, v)
    <3> HIDE DEF d
    <3> QED BY <2>1, <2>2, <2>3, CutOfPieces
  <2>5. ~size.ok \/ Len(c) < 4 \/ Len(size.rest) < size.value
    <3>1. CASE Cut(c, d)
      <4> HIDE DEF d
      <4> QED BY <2>2, <3>1, CutLength
    <3>2. ASSUME NEW x \in Bytes, c = d \o x, Cut(x, v)
          PROVE  Len(size.rest) < size.value
      <4>1. size = Result(TRUE, Len(v), x)
        <5>0. 4 \in Nat
            OBVIOUS
        <5>1. ReadNumber(codec, 4, d \o x) = Result(TRUE, Len(v), x)
            BY <2>1, <3>2, <5>0, ReadNumberWhole, ZenonT(60)
        <5> HIDE DEF d
        <5> QED BY <3>2, <5>1
      <4>2. Len(x) < Len(v)
          BY <2>1, <3>2, CutLength
      <4> HIDE DEF size
      <4>3. size.value = Len(v) /\ size.rest = x
          BY <4>1 DEF Result
      <4> QED BY <4>2, <4>3
    <3> HIDE DEF d, size
    <3> QED BY <2>4, <3>1, <3>2 DEF CutIn
  <2>6. ReadScalar(codec, field, c) = Short(codec, field, size.rest)
      BY <1>2, <2>5 DEF ReadScalar
  <2> QED BY <2>6 DEF Short, Result
<1> QED BY <1>1, <1>2

\* tuples
TupleInPieces(codec, fields, t, piece, after) ==
    /\ Following(piece, Len(fields), after) /\ WriteTuple(codec, fields, t) = after[0]
    /\ \A k \in 1 .. Len(fields) :
          /\ piece[k] = WriteScalar(codec, fields[k], t[k])
          /\ piece[k] \in Bytes /\ Len(piece[k]) >= 1

\* the bytes of a tuple are the pieces of its fields
LEMMA TuplePieces ==
    ASSUME NEW codec, NEW fields \in Seq(ScalarFields), NEW t, HoldsTuple(fields, t)
    PROVE  \E piece, after : TupleInPieces(codec, fields, t, piece, after)
<1> DEFINE n == Len(fields)
           piece == [i \in DOMAIN fields |-> WriteScalar(codec, fields[i], t[i])]
<1>1. n \in Nat /\ DOMAIN fields = 1 .. n
    OBVIOUS
<1>2. ASSUME NEW k \in 1 .. n
      PROVE  /\ piece[k] = WriteScalar(codec, fields[k], t[k])
             /\ piece[k] \in Bytes /\ Len(piece[k]) >= 1
  <2>1. piece[k] = WriteScalar(codec, fields[k], t[k])
      BY <1>1
  <2>2. fields[k] \in ScalarFields /\ HoldsScalar(fields[k], t[k])
      BY <1>1 DEF HoldsTuple
  <2> HIDE DEF piece
  <2> QED BY <2>1, <2>2, ScalarBytes
<1>3. Len(piece) = n
    BY <1>1
<1>4. WriteTuple(codec, fields, t) = Joined(piece)
    BY Zenon DEF WriteTuple
<1> HIDE DEF piece
<1>5. PICK after : Following(piece, n, after) /\ Joined(piece) = after[0]
    BY <1>1, <1>2, <1>3, JoinedBytes
<1>6. TupleInPieces(codec, fields, t, piece, after)
    BY <1>2, <1>4, <1>5 DEF TupleInPieces
<1> QED BY <1>6

LEMMA TupleBytes ==
    ASSUME NEW codec, NEW fields \in Seq(ScalarFields), NEW t, HoldsTuple(fields, t)
    PROVE  /\ WriteTuple(codec, fields, t) \in Bytes
           /\ Len(WriteTuple(codec, fields, t)) >= Len(fields)
<1> DEFINE n == Len(fields)
<1>0. PICK piece, after : TupleInPieces(codec, fields, t, piece, after)
    BY TuplePieces
<1>1. /\ Following(piece, n, after) /\ WriteTuple(codec, fields, t) = after[0]
      /\ \A k \in 1 .. n : piece[k] \in Bytes /\ Len(piece[k]) >= 1
    BY <1>0 DEF TupleInPieces
<1>2. n \in Nat /\ 1 \in Nat /\ n * 1 = n
    OBVIOUS
<1> HIDE DEF n
<1>3. after[0] \in Bytes
    BY <1>1, <1>2 DEF Following
<1>4. Len(after[0]) >= n * 1
    BY <1>1, <1>2, JoinedLength
<1> QED BY <1>1, <1>2, <1>3, <1>4 DEF n

LEMMA TupleTaken ==
    ASSUME NEW codec, NEW fields \in Seq(ScalarFields), NEW t, HoldsTuple(fields, t),
           NEW piece, NEW after, TupleInPieces(codec, fields, t, piece, after),
           NEW s, NEW read, NEW got, TupleRead(codec, fields, s, read, got)
    PROVE  /\ TakesPieces(Len(fields), piece, t, read, got)
           /\ ~codec.lenient => RefusesCuts(Len(fields), piece, read, got)
<1>1. ASSUME NEW k \in 1 .. Len(fields)
      PROVE  /\ fields[k] \in ScalarFields /\ HoldsScalar(fields[k], t[k])
             /\ piece[k] = WriteScalar(codec, fields[k], t[k])
             /\ got[k] = ReadScalar(codec, fields[k], read[k - 1].rest)
  <2>1. fields[k] \in ScalarFields /\ HoldsScalar(fields[k], t[k])
      BY DEF HoldsTuple
  <2>2. piece[k] = WriteScalar(codec, fields[k], t[k])
      BY DEF TupleInPieces
  <2>3. got[k] = ReadScalar(codec, fields[k], read[k - 1].rest)
      BY DEF TupleRead
  <2> QED BY <2>1, <2>2, <2>3
<1>2. ASSUME NEW k \in 1 .. Len(fields), NEW x \in Bytes, read[k - 1].rest = piece[k] \o x
      PROVE  got[k] = Result(TRUE, t[k], x)
  <2>1. ReadScalar(codec, fields[k], WriteScalar(codec, fields[k], t[k]) \o x)
           = Result(TRUE, t[k], x)
      BY <1>1, ReadScalarWhole
  <2> QED BY <1>1, <1>2, <2>1
<1>3. ASSUME ~codec.lenient, NEW k \in 1 .. Len(fields), NEW c \in Bytes,
             read[k - 1].rest = c, Cut(c, piece[k])
      PROVE  ~got[k].ok
  <2>1. ~ReadScalar(codec, fields[k], c).ok
      BY <1>1, <1>3, ReadScalarCut
  <2> QED BY <1>1, <1>3, <2>1
<1> QED BY <1>2, <1>3 DEF TakesPieces, RefusesCuts

\* a tuple is read back
LEMMA ReadTupleWhole ==
    ASSUME NEW codec, NEW fields \in Seq(ScalarFields), NEW t, HoldsTuple(fields, t),
           NEW rest \in Bytes
    PROVE  ReadTuple(codec, fields, WriteTuple(codec, fields, t) \o rest) = Result(TRUE, t, rest)
<1> DEFINE n == Len(fields)
<1>1. PICK piece, after : TupleInPieces(codec, fields, t, piece, after)
    BY TuplePieces
<1> DEFINE s == after[0] \o rest
<1>a. t = Values(t, n)
    BY DEF HoldsTuple, IsSeq, Values
<1>2. n \in Nat
    OBVIOUS
<1>3. PICK read, got : TupleRead(codec, fields, s, read, got)
    BY <1>2, TupleInTurn
<1> HIDE DEF s
<1>4. TakesPieces(n, piece, t, read, got)
    BY <1>1, <1>3, TupleTaken
<1>5. /\ Following(piece, n, after) /\ WriteTuple(codec, fields, t) = after[0]
      /\ \A k \in 1 .. n : piece[k] \in Bytes
    BY <1>1 DEF TupleInPieces
<1>6. Reads(n, s, read, got) /\ ReadTuple(codec, fields, s) = read[n]
    BY <1>3 DEF TupleRead
<1> HIDE DEF n
<1>7. Reads(n, after[0] \o rest, read, got)
    BY <1>6 DEF s
<1>8. read[n] = Result(TRUE, Values(t, n), rest)
    BY <1>2, <1>4, <1>5, <1>7, ReadsWhole, ZenonT(60)
<1> QED BY <1>a, <1>5, <1>6, <1>8 DEF s

\* a cut tuple is refused
LEMMA ReadTupleCut ==
    ASSUME NEW codec, ~codec.lenient, NEW fields \in Seq(ScalarFields), NEW t,
           HoldsTuple(fields, t), NEW c \in Bytes, Cut(c, WriteTuple(codec, fields, t))
    PROVE  ~ReadTuple(codec, fields, c).ok
<1> DEFINE n == Len(fields)
<1>1. PICK piece, after : TupleInPieces(codec, fields, t, piece, after)
    BY TuplePieces
<1>2. n \in Nat
    OBVIOUS
<1>3. PICK read, got : TupleRead(codec, fields, c, read, got)
    BY <1>2, TupleInTurn
<1>4. TakesPieces(n, piece, t, read, got) /\ RefusesCuts(n, piece, read, got)
    BY <1>1, <1>3, TupleTaken
<1>5. /\ Following(piece, n, after) /\ WriteTuple(codec, fields, t) = after[0]
      /\ \A k \in 1 .. n : piece[k] \in Bytes
    BY <1>1 DEF TupleInPieces
<1>6. Reads(n, c, read, got) /\ ReadTuple(codec, fields, c) = read[n]
    BY <1>3 DEF TupleRead
<1> HIDE DEF n
<1>7. ~read[n].ok
    BY <1>2, <1>4, <1>5, <1>6, ReadsCut
<1> QED BY <1>6, <1>7

\* lists
ListInPieces(codec, fields, t, piece, after) ==
    /\ Following(piece, Len(t), after) /\ WriteList(codec, fields, t) = after[0]
    /\ \A k \in 1 .. Len(t) :
          /\ piece[k] = WriteTuple(codec, fields, t[k])
          /\ piece[k] \in Bytes /\ Len(piece[k]) >= Len(fields)

\* the bytes of a list are the pieces of its tuples
LEMMA ListPieces ==
    ASSUME NEW codec, NEW fields \in Seq(ScalarFields), NEW t, HoldsList(fields, t)
    PROVE  \E piece, after : ListInPieces(codec, fields, t, piece, after)
<1> DEFINE n == Len(t)
           piece == [i \in DOMAIN t |-> WriteTuple(codec, fields, t[i])]
<1>1. n \in Nat /\ DOMAIN t = 1 .. n
    BY DEF HoldsList, IsSeq
<1>2. ASSUME NEW k \in 1 .. n
      PROVE  /\ piece[k] = WriteTuple(codec, fields, t[k])
             /\ piece[k] \in Bytes /\ Len(piece[k]) >= Len(fields)
  <2>1. piece[k] = WriteTuple(codec, fields, t[k])
      BY <1>1
  <2>2. HoldsTuple(fields, t[k])
      BY <1>1 DEF HoldsList
  <2> HIDE DEF piece
  <2> QED BY <2>1, <2>2, TupleBytes
<1>3. Len(piece) = n
    BY <1>1
<1>4. WriteList(codec, fields, t) = Joined(piece)
    BY Zenon DEF WriteList
<1> HIDE DEF piece
<1>5. PICK after : Following(piece, n, after) /\ Joined(piece) = after[0]
    BY <1>1, <1>2, <1>3, JoinedBytes
<1>6. ListInPieces(codec, fields, t, piece, after)
    BY <1>2, <1>4, <1>5 DEF ListInPieces
<1> QED BY <1>6

\* a list takes a byte for every field of its tuples: a count beyond that is refused rightly
LEMMA ListBytes ==
    ASSUME NEW codec, NEW fields \in Seq(ScalarFields), NEW t, HoldsList(fields, t)
    PROVE  /\ WriteList(codec, fields, t) \in Bytes
           /\ Len(WriteList(codec, fields, t)) >= Len(t) * Len(fields)
<1> DEFINE n == Len(t)
<1>0. PICK piece, after : ListInPieces(codec, fields, t, piece, after)
    BY ListPieces
<1>1. /\ Following(piece, n, after) /\ WriteList(codec, fields, t) = after[0]
      /\ \A k \in 1 .. n : piece[k] \in Bytes /\ Len(piece[k]) >= Len(fields)
    BY <1>0 DEF ListInPieces
<1>2. n \in Nat /\ Len(fields) \in Nat
    BY DEF HoldsList, IsSeq
<1> HIDE DEF n
<1>3. after[0] \in Bytes
    BY <1>1, <1>2 DEF Following
<1>4. Len(after[0]) >= n * Len(fields)
    BY <1>1, <1>2, JoinedLength
<1> QED BY <1>1, <1>2, <1>3, <1>4 DEF n

LEMMA ListTaken ==
    ASSUME NEW codec, NEW fields \in Seq(ScalarFields), NEW t, HoldsList(fields, t),
           NEW piece, NEW after, ListInPieces(codec, fields, t, piece, after),
           NEW s, NEW read, NEW got, ListRead(codec, fields, Len(t), s, read, got)
    PROVE  /\ TakesPieces(Len(t), piece, t, read, got)
           /\ ~codec.lenient => RefusesCuts(Len(t), piece, read, got)
<1>1. ASSUME NEW k \in 1 .. Len(t)
      PROVE  /\ HoldsTuple(fields, t[k])
             /\ piece[k] = WriteTuple(codec, fields, t[k])
             /\ got[k] = ReadTuple(codec, fields, read[k - 1].rest)
  <2>1. HoldsTuple(fields, t[k])
      BY DEF HoldsList
  <2>2. piece[k] = WriteTuple(codec, fields, t[k])
      BY DEF ListInPieces
  <2>3. got[k] = ReadTuple(codec, fields, read[k - 1].rest)
      BY DEF ListRead
  <2> QED BY <2>1, <2>2, <2>3
<1>2. ASSUME NEW k \in 1 .. Len(t), NEW x \in Bytes, read[k - 1].rest = piece[k] \o x
      PROVE  got[k] = Result(TRUE, t[k], x)
  <2>1. ReadTuple(codec, fields, WriteTuple(codec, fields, t[k]) \o x)
           = Result(TRUE, t[k], x)
      BY <1>1, ReadTupleWhole
  <2> QED BY <1>1, <1>2, <2>1
<1>3. ASSUME ~codec.lenient, NEW k \in 1 .. Len(t), NEW c \in Bytes,
             read[k - 1].rest = c, Cut(c, piece[k])
      PROVE  ~got[k].ok
  <2>1. ~ReadTuple(codec, fields, c).ok
      BY <1>1, <1>3, ReadTupleCut
  <2> QED BY <1>1, <1>3, <2>1
<1> QED BY <1>2, <1>3 DEF TakesPieces, RefusesCuts

\* a list is read back
LEMMA ReadListWhole ==
    ASSUME NEW codec, NEW fields \in Seq(ScalarFields), NEW t, HoldsList(fields, t),
           NEW rest \in Bytes
    PROVE  ReadList(codec, fields, Len(t), WriteList(codec, fields, t) \o rest)
              = Result(TRUE, t, rest)
<1> DEFINE n == Len(t)
<1>1. PICK piece, after : ListInPieces(codec, fields, t, piece, after)
    BY ListPieces
<1> DEFINE s == after[0] \o rest
<1>a. t = Values(t, n)
    BY DEF HoldsList, IsSeq, Values
<1>2. n \in Nat
    BY DEF HoldsList, IsSeq
<1>b. ~(Len(t) * Len(fields) > Len(s))
  <2>1. after[0] \in Bytes /\ Len(after[0]) >= n * Len(fields)
      BY <1>1, ListBytes DEF ListInPieces
  <2>2. Len(s) = Len(after[0]) + Len(rest) /\ Len(after[0]) \in Nat /\ Len(rest) \in Nat
      BY <2>1, CatBytes, LenOfBytes
  <2>3. Len(fields) \in Nat
      OBVIOUS
  <2> DEFINE x == n * Len(fields)
  <2>4. x \in Nat
      BY <1>2, <2>3
  <2>5. ~(x > Len(s))
    <3> HIDE DEF x, s
    <3> QED BY <2>1, <2>2, <2>4 DEF x
  <2> QED BY <2>5
<1>3. PICK read, got : ListRead(codec, fields, Len(t), s, read, got)
  <2> HIDE DEF s
  <2> QED BY <1>2, <1>b, ListInTurn
<1> HIDE DEF s
<1>4. TakesPieces(n, piece, t, read, got)
    BY <1>1, <1>3, ListTaken
<1>5. /\ Following(piece, n, after) /\ WriteList(codec, fields, t) = after[0]
      /\ \A k \in 1 .. n : piece[k] \in Bytes
    BY <1>1 DEF ListInPieces
<1>6. Reads(n, s, read, got) /\ ReadList(codec, fields, Len(t), s) = read[n]
    BY <1>3 DEF ListRead
<1> HIDE DEF n
<1>7. Reads(n, after[0] \o rest, read, got)
    BY <1>6 DEF s
<1>8. read[n] = Result(TRUE, Values(t, n), rest)
    BY <1>2, <1>4, <1>5, <1>7, ReadsWhole, ZenonT(60)
<1> QED BY <1>a, <1>5, <1>6, <1>8 DEF s

\* a cut list is refused, at once or at the tuple where the bytes run out
LEMMA ReadListCut ==
    ASSUME NEW codec, ~codec.lenient, NEW fields \in Seq(ScalarFields), NEW t,
           HoldsList(fields, t), NEW c \in Bytes, Cut(c, WriteList(codec, fields, t))
    PROVE  ~ReadList(codec, fields, Len(t), c).ok
<1> DEFINE n == Len(t)
<1>1. PICK piece, after : ListInPieces(codec, fields, t, piece, after)
    BY ListPieces
<1>2. n \in Nat
    BY DEF HoldsList, IsSeq
<1>a. CASE Len(t) * Len(fields) > Len(c)
    BY <1>a DEF ReadList, Short, Result
<1>b. SUFFICES ASSUME ~(Len(t) * Len(fields) > Len(c))
               PROVE  ~ReadList(codec, fields, Len(t), c).ok
    BY <1>a
<1>3. PICK read, got : ListRead(codec, fields, Len(t), c, read, got)
    BY <1>2, <1>b, ListInTurn
<1>4. TakesPieces(n, piece, t, read, got) /\ RefusesCuts(n, piece, read, got)
    BY <1>1, <1>3, ListTaken
<1>5. /\ Following(piece, n, after) /\ WriteList(codec, fields, t) = after[0]
      /\ \A k \in 1 .. n : piece[k] \in Bytes
    BY <1>1 DEF ListInPieces
<1>6. Reads(n, c, read, got) /\ ReadList(codec, fields, Len(t), c) = read[n]
    BY <1>3 DEF ListRead
<1> HIDE DEF n
<1>7. ~read[n].ok
    BY <1>2, <1>4, <1>5, <1>6, ReadsCut
<1> QED BY <1>6, <1>7

\* fields
AnyFields == ScalarFields \cup {List(f) : f \in Seq(ScalarFields)}

LEMMA FieldKinds ==
    ASSUME NEW field \in AnyFields
    PROVE  \/ field.kind # "list" /\ field \in ScalarFields
           \/ field.kind = "list" /\ field.of \in Seq(ScalarFields)
<1>1. CASE field \in ScalarFields
    BY <1>1, ScalarKinds
<1>2. CASE field \in {List(f) : f \in Seq(ScalarFields)}
    BY <1>2 DEF List
<1> QED BY <1>1, <1>2 DEF AnyFields

\* a list is its length and its tuples
LEMMA ListFieldBytes ==
    ASSUME NEW codec, NEW field, field.kind = "list", field.of \in Seq(ScalarFields),
           NEW v, HoldsField(field, v)
    PROVE  /\ HoldsList(field.of, v) /\ Fits(4, Len(v)) /\ Len(v) \in Nat
           /\ Digits(codec.order, 4, Len(v)) \in Bytes
           /\ Len(Digits(codec.order, 4, Len(v))) = 4
           /\ WriteList(codec, field.of, v) \in Bytes
           /\ WriteField(codec, field, v)
                 = Digits(codec.order, 4, Len(v)) \o WriteList(codec, field.of, v)
<1>1. HoldsList(field.of, v)
    BY DEF HoldsField
<1>2. Fits(4, Len(v)) /\ Len(v) \in Nat
    BY <1>1, FitsNat DEF HoldsList
<1>3. /\ Digits(codec.order, 4, Len(v)) \in Bytes
      /\ Len(Digits(codec.order, 4, Len(v))) = 4
  <2>1. 4 \in Nat
      OBVIOUS
  <2> QED BY <1>2, <2>1, DigitsAreBytes, Zenon
<1>4. WriteList(codec, field.of, v) \in Bytes
    BY <1>1, ListBytes
<1>5. WriteField(codec, field, v)
         = Digits(codec.order, 4, Len(v)) \o WriteList(codec, field.of, v)
    BY DEF WriteField
<1> QED BY <1>1, <1>2, <1>3, <1>4, <1>5

LEMMA FieldBytes ==
    ASSUME NEW codec, NEW field \in AnyFields, NEW v, HoldsField(field, v)
    PROVE  WriteField(codec, field, v) \in Bytes /\ Len(WriteField(codec, field, v)) >= 1
<1>1. CASE field.kind # "list" /\ field \in ScalarFields
  <2>1. HoldsScalar(field, v) /\ WriteField(codec, field, v) = WriteScalar(codec, field, v)
      BY <1>1 DEF HoldsField, WriteField
  <2> QED BY <1>1, <2>1, ScalarBytes
<1>2. CASE field.kind = "list" /\ field.of \in Seq(ScalarFields)
  <2> DEFINE d == Digits(codec.order, 4, Len(v))
             w == WriteList(codec, field.of, v)
  <2>1. d \in Bytes /\ Len(d) = 4 /\ w \in Bytes /\ WriteField(codec, field, v) = d \o w
      BY <1>2, ListFieldBytes
  <2> HIDE DEF d, w
  <2>2. d \o w \in Bytes /\ Len(d \o w) = Len(d) + Len(w) /\ Len(w) \in Nat
      BY <2>1, CatBytes, LenOfBytes
  <2> QED BY <2>1, <2>2
<1> QED BY <1>1, <1>2, FieldKinds

\* a field is read back
LEMMA ReadFieldWhole ==
    ASSUME NEW codec, NEW field \in AnyFields, NEW v, HoldsField(field, v), NEW rest \in Bytes
    PROVE  ReadField(codec, field, WriteField(codec, field, v) \o rest) = Result(TRUE, v, rest)
<1>1. CASE field.kind # "list" /\ field \in ScalarFields
  <2>1. HoldsScalar(field, v) /\ WriteField(codec, field, v) = WriteScalar(codec, field, v)
      BY <1>1 DEF HoldsField, WriteField
  <2>2. ReadScalar(codec, field, WriteScalar(codec, field, v) \o rest) = Result(TRUE, v, rest)
      BY <1>1, <2>1, ReadScalarWhole
  <2> QED BY <1>1, <2>1, <2>2 DEF ReadField
<1>2. CASE field.kind = "list" /\ field.of \in Seq(ScalarFields)
  <2> DEFINE d == Digits(codec.order, 4, Len(v))
             w == WriteList(codec, field.of, v)
             r == w \o rest
             s == WriteField(codec, field, v) \o rest
             count == ReadNumber(codec, 4, s)
  <2>1. /\ d \in Bytes /\ w \in Bytes /\ WriteField(codec, field, v) = d \o w
        /\ HoldsList(field.of, v) /\ Fits(4, Len(v))
      BY <1>2, ListFieldBytes
  <2>2. ReadList(codec, field.of, Len(v), r) = Result(TRUE, v, rest)
      BY <1>2, <2>1, ReadListWhole
  <2>3. r \in Bytes /\ s = d \o r
    <3> HIDE DEF d, w
    <3>1. (d \o w) \o rest = d \o (w \o rest)
        BY <2>1, CatAssociative
    <3> QED BY <2>1, <3>1, CatBytes
  <2> HIDE DEF r, s
  <2>4. ReadNumber(codec, 4, d \o r) = Result(TRUE, Len(v), r)
    <3>1. 4 \in Nat
        OBVIOUS
    <3> QED BY <2>1, <2>3, <3>1, ReadNumberWhole, Zenon
  <2> HIDE DEF d, w
  <2>5. count.ok /\ count.value = Len(v) /\ count.rest = r
      BY <2>3, <2>4 DEF Result
  <2>6. ReadField(codec, field, s) = ReadList(codec, field.of, count.value, count.rest)
      BY <1>2, <2>5 DEF ReadField
  <2> HIDE DEF count
  <2>7. ReadField(codec, field, s) = Result(TRUE, v, rest)
      BY <2>2, <2>5, <2>6
  <2> QED BY <2>7 DEF s
<1> QED BY <1>1, <1>2, FieldKinds

\* a cut field is refused
LEMMA ReadFieldCut ==
    ASSUME NEW codec, ~codec.lenient, NEW field \in AnyFields, NEW v, HoldsField(field, v),
           NEW c \in Bytes, Cut(c, WriteField(codec, field, v))
    PROVE  ~ReadField(codec, field, c).ok
<1>1. CASE field.kind # "list" /\ field \in ScalarFields
  <2>1. HoldsScalar(field, v) /\ WriteField(codec, field, v) = WriteScalar(codec, field, v)
      BY <1>1 DEF HoldsField, WriteField
  <2>2. ~ReadScalar(codec, field, c).ok
      BY <1>1, <2>1, ReadScalarCut
  <2>3. ReadField(codec, field, c) = ReadScalar(codec, field, c)
      BY <1>1 DEF ReadField
  <2> QED BY <2>2, <2>3
<1>2. CASE field.kind = "list" /\ field.of \in Seq(ScalarFields)
  <2> DEFINE d == Digits(codec.order, 4, Len(v))
             w == WriteList(codec, field.of, v)
             count == ReadNumber(codec, 4, c)
  <2>1. /\ d \in Bytes /\ Len(d) = 4 /\ w \in Bytes /\ WriteField(codec, field, v) = d \o w
        /\ HoldsList(field.of, v) /\ Fits(4, Len(v))
      BY <1>2, ListFieldBytes
  <2>2. CutIn(c, d, w)
    <3> HIDE DEF d, w
    <3> QED BY <2>1, CutOfPieces
  <2>3. CASE Cut(c, d)
    <3>1. Len(c) < 4
      <4> HIDE DEF d
      <4> QED BY <2>1, <2>3, CutLength
    <3>2. ~count.ok
        BY <3>1, ReadNumberCut
    <3>3. ReadField(codec, field, c) = Short(codec, field, c)
        BY <1>2, <3>2 DEF ReadField
    <3> QED BY <3>3 DEF Short, Result
  <2>4. ASSUME NEW x \in Bytes, c = d \o x, Cut(x, w)
        PROVE  ~ReadField(codec, field, c).ok
    <3>1. ~ReadList(codec, field.of, Len(v), x).ok
        BY <1>2, <2>1, <2>4, ReadListCut
    <3>2. ReadNumber(codec, 4, d \o x) = Result(TRUE, Len(v), x)
      <4>1. 4 \in Nat
          OBVIOUS
      <4> QED BY <2>1, <4>1, ReadNumberWhole, ZenonT(60)
    <3> HIDE DEF d, w
    <3>3. count.ok /\ count.value = Len(v) /\ count.rest = x
        BY <2>4, <3>2 DEF Result
    <3>4. ReadField(codec, field, c) = ReadList(codec, field.of, count.value, count.rest)
        BY <1>2, <3>3 DEF ReadField
    <3> HIDE DEF count
    <3> QED BY <3>1, <3>3, <3>4
  <2> HIDE DEF d, w
  <2> QED BY <2>2, <2>3, <2>4 DEF CutIn
<1> QED BY <1>1, <1>2, FieldKinds

\* messages
FieldsInPieces(codec, fields, t, piece, after) ==
    /\ Following(piece, Len(fields), after) /\ serialize(codec, fields, t) = after[0]
    /\ \A k \in 1 .. Len(fields) :
          /\ piece[k] = WriteField(codec, fields[k], t[k])
          /\ piece[k] \in Bytes /\ Len(piece[k]) >= 1

\* the bytes of a message are the pieces of its fields
LEMMA FieldsPieces ==
    ASSUME NEW codec, NEW fields \in Seq(AnyFields), NEW t, HoldsFields(fields, t)
    PROVE  \E piece, after : FieldsInPieces(codec, fields, t, piece, after)
<1> DEFINE n == Len(fields)
           piece == [i \in DOMAIN fields |-> WriteField(codec, fields[i], t[i])]
<1>1. n \in Nat /\ DOMAIN fields = 1 .. n
    OBVIOUS
<1>2. ASSUME NEW k \in 1 .. n
      PROVE  /\ piece[k] = WriteField(codec, fields[k], t[k])
             /\ piece[k] \in Bytes /\ Len(piece[k]) >= 1
  <2>1. piece[k] = WriteField(codec, fields[k], t[k])
      BY <1>1
  <2>2. fields[k] \in AnyFields /\ HoldsField(fields[k], t[k])
      BY <1>1 DEF HoldsFields
  <2> HIDE DEF piece
  <2> QED BY <2>1, <2>2, FieldBytes
<1>3. Len(piece) = n
    BY <1>1
<1>4. serialize(codec, fields, t) = Joined(piece)
    BY Zenon DEF serialize
<1> HIDE DEF piece
<1>5. PICK after : Following(piece, n, after) /\ Joined(piece) = after[0]
    BY <1>1, <1>2, <1>3, JoinedBytes
<1>6. FieldsInPieces(codec, fields, t, piece, after)
    BY <1>2, <1>4, <1>5 DEF FieldsInPieces
<1> QED BY <1>6

LEMMA FieldsBytes ==
    ASSUME NEW codec, NEW fields \in Seq(AnyFields), NEW t, HoldsFields(fields, t)
    PROVE  /\ serialize(codec, fields, t) \in Bytes
           /\ Len(serialize(codec, fields, t)) >= Len(fields)
<1> DEFINE n == Len(fields)
<1>0. PICK piece, after : FieldsInPieces(codec, fields, t, piece, after)
    BY FieldsPieces
<1>1. /\ Following(piece, n, after) /\ serialize(codec, fields, t) = after[0]
      /\ \A k \in 1 .. n : piece[k] \in Bytes /\ Len(piece[k]) >= 1
    BY <1>0 DEF FieldsInPieces
<1>2. n \in Nat /\ 1 \in Nat /\ n * 1 = n
    OBVIOUS
<1> HIDE DEF n
<1>3. after[0] \in Bytes
    BY <1>1, <1>2 DEF Following
<1>4. Len(after[0]) >= n * 1
    BY <1>1, <1>2, JoinedLength
<1> QED BY <1>1, <1>2, <1>3, <1>4 DEF n

LEMMA FieldsTaken ==
    ASSUME NEW codec, NEW fields \in Seq(AnyFields), NEW t, HoldsFields(fields, t),
           NEW piece, NEW after, FieldsInPieces(codec, fields, t, piece, after),
           NEW s, NEW read, NEW got, FieldsRead(codec, fields, s, read, got)
    PROVE  /\ TakesPieces(Len(fields), piece, t, read, got)
           /\ ~codec.lenient => RefusesCuts(Len(fields), piece, read, got)
<1>1. ASSUME NEW k \in 1 .. Len(fields)
      PROVE  /\ fields[k] \in AnyFields /\ HoldsField(fields[k], t[k])
             /\ piece[k] = WriteField(codec, fields[k], t[k])
             /\ got[k] = ReadField(codec, fields[k], read[k - 1].rest)
  <2>1. fields[k] \in AnyFields /\ HoldsField(fields[k], t[k])
      BY DEF HoldsFields
  <2>2. piece[k] = WriteField(codec, fields[k], t[k])
      BY DEF FieldsInPieces
  <2>3. got[k] = ReadField(codec, fields[k], read[k - 1].rest)
      BY DEF FieldsRead
  <2> QED BY <2>1, <2>2, <2>3
<1>2. ASSUME NEW k \in 1 .. Len(fields), NEW x \in Bytes, read[k - 1].rest = piece[k] \o x
      PROVE  got[k] = Result(TRUE, t[k], x)
  <2>1. ReadField(codec, fields[k], WriteField(codec, fields[k], t[k]) \o x)
           = Result(TRUE, t[k], x)
      BY <1>1, ReadFieldWhole
  <2> QED BY <1>1, <1>2, <2>1
<1>3. ASSUME ~codec.lenient, NEW k \in 1 .. Len(fields), NEW c \in Bytes,
             read[k - 1].rest = c, Cut(c, piece[k])
      PROVE  ~got[k].ok
  <2>1. ~ReadField(codec, fields[k], c).ok
      BY <1>1, <1>3, ReadFieldCut
  <2> QED BY <1>1, <1>3, <2>1
<1> QED BY <1>2, <1>3 DEF TakesPieces, RefusesCuts

\* deserialize gives back what serialize wrote, whatever follows it
LEMMA DeserializeWhole ==
    ASSUME NEW codec, NEW fields \in Seq(AnyFields), NEW t, HoldsFields(fields, t),
           NEW rest \in Bytes
    PROVE  deserialize(codec, fields, serialize(codec, fields, t) \o rest) = Result(TRUE, t, rest)
<1> DEFINE n == Len(fields)
<1>1. PICK piece, after : FieldsInPieces(codec, fields, t, piece, after)
    BY FieldsPieces
<1> DEFINE s == after[0] \o rest
<1>a. t = Values(t, n)
    BY DEF HoldsFields, IsSeq, Values
<1>2. n \in Nat
    OBVIOUS
<1>3. PICK read, got : FieldsRead(codec, fields, s, read, got)
    BY <1>2, FieldsInTurn
<1> HIDE DEF s
<1>4. TakesPieces(n, piece, t, read, got)
    BY <1>1, <1>3, FieldsTaken
<1>5. /\ Following(piece, n, after) /\ serialize(codec, fields, t) = after[0]
      /\ \A k \in 1 .. n : piece[k] \in Bytes
    BY <1>1 DEF FieldsInPieces
<1>6. Reads(n, s, read, got) /\ deserialize(codec, fields, s) = read[n]
    BY <1>3 DEF FieldsRead
<1> HIDE DEF n
<1>7. Reads(n, after[0] \o rest, read, got)
    BY <1>6 DEF s
<1>8. read[n] = Result(TRUE, Values(t, n), rest)
    BY <1>2, <1>4, <1>5, <1>7, ReadsWhole, ZenonT(60)
<1> QED BY <1>a, <1>5, <1>6, <1>8 DEF s

\* deserialize refuses a cut message, unless the format is lenient
LEMMA DeserializeCut ==
    ASSUME NEW codec, ~codec.lenient, NEW fields \in Seq(AnyFields), NEW t,
           HoldsFields(fields, t), NEW c \in Bytes, Cut(c, serialize(codec, fields, t))
    PROVE  ~deserialize(codec, fields, c).ok
<1> DEFINE n == Len(fields)
<1>1. PICK piece, after : FieldsInPieces(codec, fields, t, piece, after)
    BY FieldsPieces
<1>2. n \in Nat
    OBVIOUS
<1>3. PICK read, got : FieldsRead(codec, fields, c, read, got)
    BY <1>2, FieldsInTurn
<1>4. TakesPieces(n, piece, t, read, got) /\ RefusesCuts(n, piece, read, got)
    BY <1>1, <1>3, FieldsTaken
<1>5. /\ Following(piece, n, after) /\ serialize(codec, fields, t) = after[0]
      /\ \A k \in 1 .. n : piece[k] \in Bytes
    BY <1>1 DEF FieldsInPieces
<1>6. Reads(n, c, read, got) /\ deserialize(codec, fields, c) = read[n]
    BY <1>3 DEF FieldsRead
<1> HIDE DEF n
<1>7. ~read[n].ok
    BY <1>2, <1>4, <1>5, <1>6, ReadsCut
<1> QED BY <1>6, <1>7

-----------------------------------------------------------------------------
(* The messages of the code. *)

\* the fields that messages are made of
LEMMA FieldsOfMessages ==
    /\ \A w \in {1, 2, 4, 8} : U(w) \in ScalarFields /\ U(w) \in AnyFields
    /\ Str \in ScalarFields /\ Str \in AnyFields
    /\ \A f \in Seq(ScalarFields) : List(f) \in AnyFields
<1>1. (\A w \in {1, 2, 4, 8} : U(w) \in ScalarFields) /\ Str \in ScalarFields
    BY DEF ScalarFields
<1> QED BY <1>1 DEF AnyFields

LEMMA ScalarMessages ==
    /\ RoutingPeer \in Seq(ScalarFields) /\ FileLocation \in Seq(ScalarFields)
    /\ <<Str>> \in Seq(ScalarFields) /\ <<U(4)>> \in Seq(ScalarFields)
<1>1. /\ U(1) \in ScalarFields /\ U(4) \in ScalarFields /\ Str \in ScalarFields
    BY FieldsOfMessages
<1> QED BY <1>1 DEF RoutingPeer, FileLocation

LEMMA MessageFields ==
    /\ HandshakeMessage \in Seq(AnyFields) /\ HeartbeatMessage \in Seq(AnyFields)
    /\ PeerAnnounceMessage \in Seq(AnyFields) /\ FileAnnounceMessage \in Seq(AnyFields)
    /\ ChunkRequestMessage \in Seq(AnyFields) /\ ChunkDataMessage \in Seq(AnyFields)
    /\ ErrorMessage \in Seq(AnyFields) /\ RouteUpdateMessage \in Seq(AnyFields)
    /\ TopologySyncMessage \in Seq(AnyFields) /\ FileQueryMessage \in Seq(AnyFields)
    /\ FileQueryResponseMessage \in Seq(AnyFields) /\ FileRequestMessage \in Seq(AnyFields)
    /\ FileResponseMessage \in Seq(AnyFields) /\ ChunkAckMessage \in Seq(AnyFields)
    /\ MessageHeader \in Seq(AnyFields)
<1>1. /\ U(1) \in AnyFields /\ U(2) \in AnyFields /\ U(4) \in AnyFields /\ U(8) \in AnyFields
      /\ Str \in AnyFields
    BY FieldsOfMessages
<1>2. /\ List(<<Str>>) \in AnyFields /\ List(<<U(4)>>) \in AnyFields
      /\ List(FileLocation) \in AnyFields
    BY FieldsOfMessages, ScalarMessages
<1>3. /\ HandshakeMessage \in Seq(AnyFields) /\ HeartbeatMessage \in Seq(AnyFields)
      /\ PeerAnnounceMessage \in Seq(AnyFields) /\ FileAnnounceMessage \in Seq(AnyFields)
      /\ ChunkRequestMessage \in Seq(AnyFields) /\ ChunkDataMessage \in Seq(AnyFields)
    BY <1>1, <1>2 DEF HandshakeMessage, HeartbeatMessage, PeerAnnounceMessage,
                      FileAnnounceMessage, ChunkRequestMessage, ChunkDataMessage
<1>4. /\ ErrorMessage \in Seq(AnyFields) /\ RouteUpdateMessage \in Seq(AnyFields)
      /\ TopologySyncMessage \in Seq(AnyFields) /\ FileQueryMessage \in Seq(AnyFields)
      /\ FileQueryResponseMessage \in Seq(AnyFields)
    BY <1>1, <1>2 DEF ErrorMessage, RouteUpdateMessage, TopologySyncMessage,
                      FileQueryMessage, FileQueryResponseMessage
<1>5. /\ FileRequestMessage \in Seq(AnyFields) /\ FileResponseMessage \in Seq(AnyFields)
      /\ ChunkAckMessage \in Seq(AnyFields) /\ MessageHeader \in Seq(AnyFields)
    BY <1>1 DEF FileRequestMessage, FileResponseMessage, ChunkAckMessage, MessageHeader
<1> QED BY <1>3, <1>4, <1>5

GoodFormat(f) ==
    f.fields \in Seq(AnyFields) /\ f.codec \in {Network, Router, File} /\ f.type \in Nat

\* every struct has fields that can be written and read
LEMMA FormatParts ==
    ASSUME NEW struct \in DOMAIN Formats
    PROVE  GoodFormat(Formats[struct])
<1>1. \A fields \in Seq(AnyFields) : \A codec \in {Network, Router, File} : \A type \in Nat :
         GoodFormat(Format(codec, fields, type))
    BY DEF GoodFormat, Format
<1>2. /\ GoodFormat(Formats["HandshakeMessage"])
      /\ GoodFormat(Formats["HeartbeatMessage"])
      /\ GoodFormat(Formats["PeerAnnounceMessage"])
  <2>1. /\ Formats["HandshakeMessage"] = Format(Network, HandshakeMessage, 0)
        /\ Formats["HeartbeatMessage"] = Format(Network, HeartbeatMessage, 0)
        /\ Formats["PeerAnnounceMessage"] = Format(Network, PeerAnnounceMessage, 0)
      BY DEF Formats
  <2> QED BY <1>1, <2>1, MessageFields
<1>3. /\ GoodFormat(Formats["FileAnnounceMessage"])
      /\ GoodFormat(Formats["ChunkRequestMessage"])
      /\ GoodFormat(Formats["ChunkDataMessage"])
      /\ GoodFormat(Formats["ErrorMessage"])
  <2>1. /\ Formats["FileAnnounceMessage"] = Format(Network, FileAnnounceMessage, 0)
        /\ Formats["ChunkRequestMessage"] = Format(Network, ChunkRequestMessage, 0)
        /\ Formats["ChunkDataMessage"] = Format(Network, ChunkDataMessage, 0)
        /\ Formats["ErrorMessage"] = Format(Network, ErrorMessage, 0)
      BY DEF Formats
  <2> QED BY <1>1, <2>1, MessageFields
<1>4. /\ GoodFormat(Formats["TopologySyncMessage"])
      /\ GoodFormat(Formats["FileQueryMessage"])
      /\ GoodFormat(Formats["FileQueryResponseMessage"])
  <2>1. /\ Formats["TopologySyncMessage"] = Format(Router, TopologySyncMessage, 0)
        /\ Formats["FileQueryMessage"] = Format(Router, FileQueryMessage, 0)
        /\ Formats["FileQueryResponseMessage"] = Format(Router, FileQueryResponseMessage, 0)
      BY DEF Formats
  <2> QED BY <1>1, <2>1, MessageFields
<1>5. /\ GoodFormat(Formats["file_FileAnnounceMessage"])
      /\ GoodFormat(Formats["file_FileRequestMessage"])
      /\ GoodFormat(Formats["file_FileResponseMessage"])
  <2>1. /\ Formats["file_FileAnnounceMessage"] = Format(File, FileAnnounceMessage, 1)
        /\ Formats["file_FileRequestMessage"] = Format(File, FileRequestMessage, 2)
        /\ Formats["file_FileResponseMessage"] = Format(File, FileResponseMessage, 3)
      BY DEF Formats
  <2> QED BY <1>1, <2>1, MessageFields
<1>6. /\ GoodFormat(Formats["file_ChunkRequestMessage"])
      /\ GoodFormat(Formats["file_ChunkDataMessage"])
      /\ GoodFormat(Formats["file_ChunkAckMessage"])
  <2>1. /\ Formats["file_ChunkRequestMessage"] = Format(File, ChunkRequestMessage, 4)
        /\ Formats["file_ChunkDataMessage"] = Format(File, ChunkDataMessage, 5)
        /\ Formats["file_ChunkAckMessage"] = Format(File, ChunkAckMessage, 6)
      BY DEF Formats
  <2> QED BY <1>1, <2>1, MessageFields
<1>7. \/ struct \in {"HandshakeMessage", "HeartbeatMessage", "PeerAnnounceMessage"}
      \/ struct \in {"FileAnnounceMessage", "ChunkRequestMessage", "ChunkDataMessage", "ErrorMessage"}
      \/ struct \in {"TopologySyncMessage", "FileQueryMessage", "FileQueryResponseMessage"}
      \/ struct \in {"file_FileAnnounceMessage", "file_FileRequestMessage", "file_FileResponseMessage"}
      \/ struct \in {"file_ChunkRequestMessage", "file_ChunkDataMessage", "file_ChunkAckMessage"}
    BY DEF Formats
<1> QED BY <1>2, <1>3, <1>4, <1>5, <1>6, <1>7

LEMMA Codecs ==
    /\ ~Network.lenient /\ ~Router.lenient /\ File.lenient /\ Network # File /\ Router # File
BY DEF Network, Router, File

LEMMA NotInFormats == "RouteUpdateMessage" \notin DOMAIN Formats
BY DEF Formats

LEMMA DivisionMonotone ==
    ASSUME NEW a \in Nat, NEW b \in Nat, a <= b
    PROVE  a \div Base <= b \div Base
<1> DEFINE p == a \div Base
           q == b \div Base
           r == a % Base
           t == b % Base
<1>1. /\ p \in Nat /\ q \in Nat /\ r \in 0 .. Base - 1 /\ t \in 0 .. Base - 1
      /\ a = p * Base + r /\ b = q * Base + t
    BY Dividing
<1> HIDE DEF p, q, r, t
<1>2. SUFFICES ASSUME p >= q + 1 PROVE FALSE
    BY <1>1 DEF p, q
<1>3. p * Base >= (q + 1) * Base
    BY <1>1, <1>2, WireAssumption
<1>4. (q + 1) * Base = q * Base + Base
    BY <1>1, WireAssumption
<1> DEFINE x == p * Base
           y == q * Base
<1>5. x \in Nat /\ y \in Nat /\ x >= y + Base /\ a = x + r /\ b = y + t
    BY <1>1, <1>3, <1>4, WireAssumption
<1> HIDE DEF x, y
<1> QED BY <1>1, <1>5, WireAssumption

\* what is below a number that fits, fits
LEMMA FitsLess ==
    ASSUME NEW w \in Nat, NEW u \in Nat, NEW v \in Nat, Fits(w, v), u <= v
    PROVE  Fits(w, u)
<1> DEFINE a == Shifts(w, u)
           b == Shifts(w, v)
           P == {k \in 0 .. w : a[k] <= b[k]}
<1>1. /\ a \in [0 .. w -> Nat] /\ a[0] = u
      /\ \A k \in 1 .. w : a[k] = a[k - 1] \div Base
    BY ShiftsStep
<1>2. /\ b \in [0 .. w -> Nat] /\ b[0] = v
      /\ \A k \in 1 .. w : b[k] = b[k - 1] \div Base
    BY ShiftsStep
<1>3. b[w] = 0
    BY DEF Fits
<1> HIDE DEF a, b
<1>4. 0 \in P
    BY <1>1, <1>2
<1>5. ASSUME NEW k \in 1 .. w, k - 1 \in P PROVE k \in P
  <2>1. k \in 0 .. w /\ k - 1 \in 0 .. w
      OBVIOUS
  <2>2. a[k - 1] \in Nat /\ b[k - 1] \in Nat /\ a[k - 1] <= b[k - 1]
      BY <1>1, <1>2, <1>5, <2>1
  <2>3. a[k] <= b[k]
      BY <1>1, <1>2, <2>2, DivisionMonotone
  <2> QED BY <2>1, <2>3
<1> HIDE DEF P
<1>6. \A k \in 0 .. w : k \in P
    BY <1>4, <1>5, StepByStep
<1>7. a[w] <= 0 /\ a[w] \in Nat
    BY <1>1, <1>3, <1>6 DEF P
<1> QED BY <1>7 DEF Fits, a

\* a number below Base takes one byte
LEMMA SmallFits ==
    ASSUME NEW w \in Nat \ {0}, NEW v \in 0 .. Base - 1
    PROVE  Fits(w, v)
<1> DEFINE a == Shifts(w, v)
           P == {k \in 0 .. w : k > 0 => a[k] = 0}
<1>1. /\ a \in [0 .. w -> Nat] /\ a[0] = v
      /\ \A k \in 1 .. w : a[k] = a[k - 1] \div Base
  <2>1. v \in Nat /\ w \in Nat
      BY WireAssumption
  <2> QED BY <2>1, ShiftsStep
<1>2. v \div Base = 0 /\ 0 \div Base = 0
    BY WireAssumption
<1> HIDE DEF a
<1>3. 0 \in P
    OBVIOUS
<1>4. ASSUME NEW k \in 1 .. w, k - 1 \in P PROVE k \in P
  <2>1. k \in 0 .. w /\ k - 1 \in 0 .. w /\ (k - 1 = 0 \/ k - 1 > 0)
      OBVIOUS
  <2>2. a[k - 1] = v \/ a[k - 1] = 0
      BY <1>1, <1>4, <2>1
  <2> QED BY <1>1, <1>2, <2>1, <2>2
<1> HIDE DEF P
<1>5. \A k \in 0 .. w : k \in P
    BY <1>3, <1>4, StepByStep
<1>6. a[w] = 0
    BY <1>5 DEF P
<1> QED BY <1>6 DEF Fits, a

-----------------------------------------------------------------------------
(* Route updates, whose count is not next to their list. *)

\* a route update is its head and its list, and the head counts the list
LEMMA RouteUpdateParts ==
    ASSUME NEW message, Holds("RouteUpdateMessage", message)
    PROVE  /\ message = <<message[1], message[2]>>
           /\ HoldsFields(RouteUpdateMessage, message[1]) /\ HoldsList(RoutingPeer, message[2])
           /\ message[1][2] = Len(message[2])
           /\ serialize(Router, RouteUpdateMessage, message[1]) \in Bytes
           /\ WriteList(Router, RoutingPeer, message[2]) \in Bytes
<1>1. /\ IsSeq(message) /\ Len(message) = 2 /\ HoldsFields(RouteUpdateMessage, message[1])
      /\ HoldsList(RoutingPeer, message[2]) /\ message[1][2] = Len(message[2])
    BY DEF Holds
<1>2. message = <<message[1], message[2]>>
    BY <1>1 DEF IsSeq
<1>3. serialize(Router, RouteUpdateMessage, message[1]) \in Bytes
    BY <1>1, MessageFields, FieldsBytes
<1>4. WriteList(Router, RoutingPeer, message[2]) \in Bytes
    BY <1>1, ScalarMessages, ListBytes
<1> QED BY <1>1, <1>2, <1>3, <1>4

\* a route update is read back
LEMMA ReadRouteUpdateWhole ==
    ASSUME NEW message, Holds("RouteUpdateMessage", message)
    PROVE  /\ WriteRouteUpdate(message) \in Bytes
           /\ ReadRouteUpdate(WriteRouteUpdate(message)).ok
           /\ ReadRouteUpdate(WriteRouteUpdate(message)).value = message
<1> DEFINE a == serialize(Router, RouteUpdateMessage, message[1])
           b == WriteList(Router, RoutingPeer, message[2])
           s == WriteRouteUpdate(message)
           head == deserialize(Router, RouteUpdateMessage, s)
           peers == ReadList(Router, RoutingPeer, head.value[2], head.rest)
<1>1. a \in Bytes /\ b \in Bytes /\ s = a \o b
    BY RouteUpdateParts DEF WriteRouteUpdate
<1>0. /\ HoldsFields(RouteUpdateMessage, message[1]) /\ HoldsList(RoutingPeer, message[2])
      /\ RouteUpdateMessage \in Seq(AnyFields) /\ RoutingPeer \in Seq(ScalarFields)
    BY RouteUpdateParts, MessageFields, ScalarMessages
<1>2. deserialize(Router, RouteUpdateMessage, a \o b) = Result(TRUE, message[1], b)
    BY <1>0, <1>1, DeserializeWhole, Zenon
<1>3. ReadList(Router, RoutingPeer, Len(message[2]), b \o <<>>) = Result(TRUE, message[2], <<>>)
  <2>1. <<>> \in Bytes
      BY DEF Bytes
  <2> QED BY <1>0, <2>1, ReadListWhole, Zenon
<1>4. b \o <<>> = b
    BY <1>1, CatEmpty
<1> HIDE DEF a, b, s
<1>5. head.ok /\ head.value = message[1] /\ head.rest = b
    BY <1>1, <1>2 DEF Result
<1>6. head.value[2] = Len(message[2])
    BY <1>5, RouteUpdateParts
<1> HIDE DEF head
<1>7. peers = Result(TRUE, message[2], <<>>)
    BY <1>3, <1>4, <1>5, <1>6
<1>8. ReadRouteUpdate(s) = Result(peers.ok, <<head.value, peers.value>>, peers.rest)
    BY <1>5 DEF ReadRouteUpdate, head
<1>9. peers.ok = TRUE /\ peers.value = message[2]
    BY <1>7 DEF Result
<1> HIDE DEF peers
<1>10. ReadRouteUpdate(s) = Result(TRUE, message, peers.rest)
    BY <1>5, <1>8, <1>9, RouteUpdateParts
<1>11. ReadRouteUpdate(s).ok /\ ReadRouteUpdate(s).value = message
    BY <1>10 DEF Result
<1>12. s \in Bytes
    BY <1>1, CatBytes
<1> QED BY <1>11, <1>12 DEF s

\* a cut route update is refused
LEMMA ReadRouteUpdateCut ==
    ASSUME NEW message, Holds("RouteUpdateMessage", message), NEW c \in Bytes,
           Cut(c, WriteRouteUpdate(message))
    PROVE  ~ReadRouteUpdate(c).ok
<1> DEFINE a == serialize(Router, RouteUpdateMessage, message[1])
           b == WriteList(Router, RoutingPeer, message[2])
           head == deserialize(Router, RouteUpdateMessage, c)
           peers == ReadList(Router, RoutingPeer, head.value[2], head.rest)
<1>1. a \in Bytes /\ b \in Bytes /\ WriteRouteUpdate(message) = a \o b
    BY RouteUpdateParts DEF WriteRouteUpdate
<1>2. CutIn(c, a, b)
  <2> HIDE DEF a, b
  <2> QED BY <1>1, CutOfPieces
<1>0. /\ HoldsFields(RouteUpdateMessage, message[1]) /\ HoldsList(RoutingPeer, message[2])
      /\ RouteUpdateMessage \in Seq(AnyFields) /\ RoutingPeer \in Seq(ScalarFields)
    BY RouteUpdateParts, MessageFields, ScalarMessages
<1>3. CASE Cut(c, a)
  <2>1. ~head.ok
      BY <1>3, RouteUpdateParts, MessageFields, Codecs, DeserializeCut
  <2>2. ReadRouteUpdate(c) = head
      BY <2>1 DEF ReadRouteUpdate
  <2> QED BY <2>1, <2>2
<1>4. ASSUME NEW x \in Bytes, c = a \o x, Cut(x, b)
      PROVE  ~ReadRouteUpdate(c).ok
  <2>1. deserialize(Router, RouteUpdateMessage, a \o x) = Result(TRUE, message[1], x)
      BY <1>0, DeserializeWhole, Zenon
  <2>2. ~ReadList(Router, RoutingPeer, Len(message[2]), x).ok
      BY <1>4, RouteUpdateParts, ScalarMessages, Codecs, ReadListCut
  <2> HIDE DEF a, b
  <2>3. head.ok /\ head.value = message[1] /\ head.rest = x
      BY <1>4, <2>1 DEF Result
  <2>4. head.value[2] = Len(message[2])
      BY <2>3, RouteUpdateParts
  <2>5. ReadRouteUpdate(c) = Result(peers.ok, <<head.value, peers.value>>, peers.rest)
      BY <2>3 DEF ReadRouteUpdate
  <2> HIDE DEF head
  <2>6. ~peers.ok
      BY <2>2, <2>3, <2>4
  <2> HIDE DEF peers
  <2> QED BY <2>5, <2>6 DEF Result
<1> HIDE DEF a, b
<1> QED BY <1>2, <1>3, <1>4 DEF CutIn

-----------------------------------------------------------------------------
(* The messages of file_protocol.cpp, which carry their size. *)

FileHead(type, size) == <<type>> \o Digits("little", 4, size)

\* the type and the size before a message of file_protocol.cpp
LEMMA FileHeadBytes ==
    ASSUME NEW type \in Nat, NEW size, Fits(4, size), NEW x \in Bytes
    PROVE  /\ FileHead(type, size) \in Bytes /\ Len(FileHead(type, size)) = 5
           /\ SubSeq(FileHead(type, size) \o x, 2, 5) = Digits("little", 4, size)
           /\ Len(FileHead(type, size) \o x) = 5 + Len(x)
           /\ FileHead(type, size) \o x \in Bytes
<1> DEFINE d == Digits("little", 4, size)
           t == <<type>>
           h == FileHead(type, size)
           y == h \o x
<1>0. size \in Nat /\ 4 \in Nat
    BY FitsNat
<1>1. d \in Bytes /\ Len(d) = 4
    BY <1>0, DigitsAreBytes, Zenon
<1>2. t \in Bytes /\ Len(t) = 1 /\ t[1] = type
    BY DEF Bytes, Byte
<1>3. h = t \o d
    BY DEF FileHead
<1> HIDE DEF d, t, h
<1>4. /\ h \in Bytes /\ Len(h) = 5 /\ \A i \in 1 .. 4 : h[1 + i] = d[i]
  <2>1. /\ t \o d \in Bytes /\ Len(t \o d) = Len(t) + Len(d)
        /\ \A i \in 1 .. Len(d) : (t \o d)[Len(t) + i] = d[i]
      BY <1>1, <1>2, CatBytes
  <2> QED BY <1>1, <1>2, <1>3, <2>1
<1>5. /\ y \in Bytes /\ Len(y) = 5 + Len(x) /\ Len(x) \in Nat
      /\ \A i \in 1 .. 5 : y[i] = h[i]
  <2>1. /\ h \o x \in Bytes /\ Len(h \o x) = Len(h) + Len(x) /\ Len(x) \in Nat
        /\ \A i \in 1 .. Len(h) : (h \o x)[i] = h[i]
      BY <1>4, CatBytes, LenOfBytes
  <2> QED BY <1>4, <2>1
<1> HIDE DEF y
<1>6. SubSeq(y, 2, 5) \in Bytes /\ Len(SubSeq(y, 2, 5)) = 4
    BY <1>5 DEF Bytes
<1>7. \A i \in 1 .. 4 : SubSeq(y, 2, 5)[i] = y[i + 1]
    BY <1>5 DEF Bytes
<1>8. \A i \in 1 .. 4 : SubSeq(y, 2, 5)[i] = d[i]
  <2> TAKE i \in 1 .. 4
  <2>1. i + 1 \in 1 .. 5 /\ i + 1 = 1 + i
      OBVIOUS
  <2> QED BY <1>4, <1>5, <1>7, <2>1
<1>9. SubSeq(y, 2, 5) = d
    BY <1>1, <1>6, <1>8, SameBytes
<1> QED BY <1>4, <1>5, <1>9 DEF h, y, d

\* extract_payload gives back the payload of a whole message
LEMMA ExtractPayload ==
    ASSUME NEW type \in Nat, NEW payload \in Bytes, Fits(4, Len(payload))
    PROVE  /\ add_message_header(type, payload) \in Bytes
           /\ Len(add_message_header(type, payload)) = 5 + Len(payload)
           /\ extract_payload(add_message_header(type, payload)) = payload
<1> DEFINE h == FileHead(type, Len(payload))
           s == h \o payload
<1>1. add_message_header(type, payload) = s
    BY DEF add_message_header, FileHead
<1>2. /\ h \in Bytes /\ Len(h) = 5 /\ s \in Bytes /\ Len(s) = 5 + Len(payload)
      /\ SubSeq(s, 2, 5) = Digits("little", 4, Len(payload))
    BY FileHeadBytes
<1>3. Number("little", SubSeq(s, 2, 5)) = Len(payload)
  <2>1. Len(payload) \in Nat /\ 4 \in Nat
      BY LenOfBytes
  <2>2. Number("little", Digits("little", 4, Len(payload))) = Len(payload)
      BY <2>1, NumberOfDigits, Zenon
  <2> QED BY <1>2, <2>2
<1>4. From(s, 5) = payload
  <2> HIDE DEF h
  <2> QED BY <1>2, CatParts
<1>5. ~(Len(s) < 5) /\ ~(Len(s) # 5 + Len(payload))
    BY <1>2, LenOfBytes
<1> HIDE DEF s, h
<1>6. extract_payload(s) = payload
    BY <1>3, <1>4, <1>5 DEF extract_payload
<1> QED BY <1>1, <1>2, <1>6

\* extract_payload gives nothing of a cut message: its size does not agree
LEMMA ExtractFromCut ==
    ASSUME NEW type \in Nat, NEW payload \in Bytes, Fits(4, Len(payload)), NEW c \in Bytes,
           Cut(c, add_message_header(type, payload))
    PROVE  extract_payload(c) = <<>>
<1> DEFINE h == FileHead(type, Len(payload))
<1>1. add_message_header(type, payload) = h \o payload
    BY DEF add_message_header, FileHead
<1>2. h \in Bytes /\ Len(h) = 5
    BY FileHeadBytes
<1>3. CutIn(c, h, payload)
  <2> HIDE DEF h
  <2> QED BY <1>1, <1>2, CutOfPieces
<1>4. CASE Cut(c, h)
  <2>1. Len(c) < 5
    <3> HIDE DEF h
    <3> QED BY <1>2, <1>4, CutLength
  <2> QED BY <2>1 DEF extract_payload
<1>5. ASSUME NEW x \in Bytes, c = h \o x, Cut(x, payload)
      PROVE  extract_payload(c) = <<>>
  <2>1. /\ SubSeq(h \o x, 2, 5) = Digits("little", 4, Len(payload))
        /\ Len(h \o x) = 5 + Len(x)
      BY FileHeadBytes
  <2>2. Number("little", Digits("little", 4, Len(payload))) = Len(payload)
    <3>1. Len(payload) \in Nat /\ 4 \in Nat
        BY LenOfBytes
    <3> QED BY <3>1, NumberOfDigits, Zenon
  <2>3. Len(x) < Len(payload) /\ Len(x) \in Nat /\ Len(payload) \in Nat
      BY <1>5, CutLength, LenOfBytes
  <2> HIDE DEF h
  <2>4. Len(c) = 5 + Len(x) /\ Number("little", SubSeq(c, 2, 5)) = Len(payload)
      BY <1>5, <2>1, <2>2, Zenon
  <2>5. Len(c) # 5 + Number("little", SubSeq(c, 2, 5))
      BY <2>3, <2>4
  <2> QED BY <2>5 DEF extract_payload
<1> HIDE DEF h
<1> QED BY <1>3, <1>4, <1>5 DEF CutIn

\* of no bytes, the lenient format reads the default value of every field
LEMMA ReadFieldOfNothing ==
    ASSUME NEW field \in AnyFields
    PROVE  ReadField(File, field, <<>>) = Result(TRUE, Default(field), <<>>)
<1>0. File.lenient = TRUE /\ Len(<<>>) = 0
    BY DEF File
<1>1. ASSUME NEW w \in Nat, w > 0
      PROVE  ReadNumber(File, w, <<>>) = Result(TRUE, 0, <<>>)
    BY <1>0, <1>1 DEF ReadNumber, Short, Default, U
<1>2. CASE field.kind = "number"
  <2>1. field.width \in Nat /\ field.width > 0
      BY <1>2, FieldKinds, ScalarKinds
  <2>2. ReadField(File, field, <<>>) = ReadNumber(File, field.width, <<>>)
      BY <1>2 DEF ReadField, ReadScalar
  <2> QED BY <1>1, <1>2, <2>1, <2>2 DEF Default
<1>3. CASE field.kind # "number" /\ field.kind # "list"
  <2>1. ReadField(File, field, <<>>) = Short(File, field, ReadNumber(File, 4, <<>>).rest)
      BY <1>0, <1>3 DEF ReadField, ReadScalar
  <2>2. ReadNumber(File, 4, <<>>) = Result(TRUE, 0, <<>>)
    <3>1. 4 \in Nat /\ 4 > 0
        OBVIOUS
    <3> QED BY <1>1, <3>1, Zenon
  <2>3. ReadNumber(File, 4, <<>>).rest = <<>>
      BY <2>2 DEF Result
  <2> QED BY <1>0, <2>1, <2>3 DEF Short
<1>4. CASE field.kind = "list"
  <2> DEFINE count == ReadNumber(File, 4, <<>>)
  <2>1. count = Result(TRUE, 0, <<>>)
    <3>1. 4 \in Nat /\ 4 > 0
        OBVIOUS
    <3> QED BY <1>1, <3>1, Zenon
  <2> HIDE DEF count
  <2>2. count.ok /\ count.value = 0 /\ count.rest = <<>>
      BY <2>1 DEF Result
  <2>3. ReadField(File, field, <<>>) = ReadList(File, field.of, 0, <<>>)
      BY <1>4, <2>2 DEF ReadField, count
  <2>4. PICK read, got : ListRead(File, field.of, 0, <<>>, read, got)
      BY <1>0, ListInTurn
  <2>5. ReadList(File, field.of, 0, <<>>) = Result(TRUE, <<>>, <<>>)
      BY <2>4 DEF ListRead, Reads
  <2> QED BY <1>4, <2>3, <2>5 DEF Default
<1> QED BY <1>2, <1>3, <1>4

\* of no bytes, the lenient format reads the blank message
LEMMA DeserializeNothing ==
    ASSUME NEW fields \in Seq(AnyFields)
    PROVE  deserialize(File, fields, <<>>).value = [i \in DOMAIN fields |-> Default(fields[i])]
<1> DEFINE n == Len(fields)
           v == [i \in DOMAIN fields |-> Default(fields[i])]
<1>1. n \in Nat /\ DOMAIN fields = 1 .. n
    OBVIOUS
<1>2. PICK read, got : FieldsRead(File, fields, <<>>, read, got)
    BY <1>1, FieldsInTurn
<1>3. ASSUME NEW k \in 1 .. n, read[k - 1].rest = <<>>
      PROVE  got[k] = Result(TRUE, v[k], <<>>)
  <2>1. got[k] = ReadField(File, fields[k], read[k - 1].rest)
      BY <1>2 DEF FieldsRead
  <2>2. fields[k] \in AnyFields /\ v[k] = Default(fields[k])
      BY <1>1
  <2> HIDE DEF v
  <2> QED BY <1>3, <2>1, <2>2, ReadFieldOfNothing
<1>4. Reads(n, <<>>, read, got) /\ deserialize(File, fields, <<>>) = read[n]
    BY <1>2 DEF FieldsRead
<1>5. v = Values(v, n)
    BY <1>1 DEF Values
<1> HIDE DEF n, v
<1>6. read[n] = Result(TRUE, Values(v, n), <<>>)
    BY <1>1, <1>3, <1>4, ReadsNothing
<1>7. read[n].value = v
    BY <1>5, <1>6 DEF Result
<1> QED BY <1>4, <1>7 DEF v

-----------------------------------------------------------------------------
(* A message by the name of its struct. *)

IsFile(struct) == struct \in DOMAIN Formats /\ Formats[struct].codec = File

LEMMA HeldFields ==
    ASSUME NEW struct, struct # "RouteUpdateMessage", NEW message, Holds(struct, message)
    PROVE  /\ struct \in DOMAIN Formats /\ GoodFormat(Formats[struct])
           /\ Formats[struct].fields \in Seq(AnyFields) /\ Formats[struct].type \in Nat
           /\ HoldsFields(Formats[struct].fields, message)
<1>1. struct \in DOMAIN Formats /\ HoldsFields(Formats[struct].fields, message)
    BY DEF Holds
<1>2. GoodFormat(Formats[struct])
    BY <1>1, FormatParts
<1> QED BY <1>1, <1>2 DEF GoodFormat

\* a message of file_protocol.cpp and the payload within
LEMMA EncodedFile ==
    ASSUME NEW struct, struct # "RouteUpdateMessage", IsFile(struct), NEW message,
           Holds(struct, message), Fits(4, Len(EncodeFields(struct, message)))
    PROVE  \E payload \in Bytes :
              /\ payload = serialize(File, Formats[struct].fields, message)
              /\ EncodeFields(struct, message) = add_message_header(Formats[struct].type, payload)
              /\ EncodeFields(struct, message) \in Bytes /\ Fits(4, Len(payload))
              /\ extract_payload(EncodeFields(struct, message)) = payload
<1> DEFINE f == Formats[struct]
           payload == serialize(File, f.fields, message)
           e == EncodeFields(struct, message)
<1>1. f.fields \in Seq(AnyFields) /\ f.type \in Nat /\ HoldsFields(f.fields, message)
    BY HeldFields
<1>2. payload \in Bytes
    BY <1>1, FieldsBytes
<1>3. f.codec = File
    BY DEF IsFile
<1>4. e = add_message_header(f.type, payload)
    BY <1>3 DEF EncodeFields
<1> HIDE DEF f, payload, e
<1>5. Len(payload) \in Nat /\ Len(e) \in Nat /\ 4 \in Nat
    BY <1>2, LenOfBytes, FitsNat DEF e
<1>6. Len(e) = 5 + Len(payload)
  <2> DEFINE h == FileHead(f.type, Len(payload))
             d == Digits("little", 4, Len(payload))
             t == <<f.type>>
  <2>1. e = h \o payload
      BY <1>4 DEF add_message_header, FileHead
  <2>2. d \in Bytes /\ Len(d) = 4
      BY <1>5, DigitsAreBytes, Zenon
  <2>3. t \in Bytes /\ Len(t) = 1
      BY <1>1 DEF Bytes, Byte
  <2>4. h = t \o d
      BY DEF FileHead
  <2> HIDE DEF h, t, d
  <2>5. h \in Bytes /\ Len(h) = Len(t) + Len(d)
      BY <2>2, <2>3, <2>4, CatBytes
  <2>6. Len(e) = Len(h) + Len(payload)
      BY <1>2, <2>1, <2>5, CatBytes
  <2> QED BY <2>2, <2>3, <2>5, <2>6
<1>7. Fits(4, Len(payload))
  <2>1. Len(payload) <= Len(e) /\ Fits(4, Len(e))
      BY <1>5, <1>6 DEF e
  <2> QED BY <1>5, <2>1, FitsLess, Zenon
<1>8. e \in Bytes /\ extract_payload(e) = payload
    BY <1>1, <1>2, <1>4, <1>7, ExtractPayload
<1> QED BY <1>2, <1>4, <1>7, <1>8 DEF f, payload, e

LEMMA FieldsEncoded ==
    ASSUME NEW struct, NEW message, Holds(struct, message), Fits(4, Len(EncodeFields(struct, message)))
    PROVE  EncodeFields(struct, message) \in Bytes
<1>1. CASE struct = "RouteUpdateMessage"
    BY <1>1, ReadRouteUpdateWhole DEF EncodeFields
<1>2. CASE struct # "RouteUpdateMessage" /\ IsFile(struct)
    BY <1>2, EncodedFile
<1>3. CASE struct # "RouteUpdateMessage" /\ ~IsFile(struct)
  <2>1. struct \in DOMAIN Formats /\ HoldsFields(Formats[struct].fields, message)
        /\ Formats[struct].fields \in Seq(AnyFields)
      BY <1>3, HeldFields
  <2>2. EncodeFields(struct, message) = serialize(Formats[struct].codec, Formats[struct].fields, message)
      BY <1>3, <2>1 DEF EncodeFields, IsFile
  <2>3. serialize(Formats[struct].codec, Formats[struct].fields, message) \in Bytes
      BY <2>1, FieldsBytes
  <2> QED BY <2>2, <2>3
<1> QED BY <1>1, <1>2, <1>3

\* what is written is read back
LEMMA FieldsWhole ==
    ASSUME NEW struct, NEW message, Holds(struct, message), Fits(4, Len(EncodeFields(struct, message)))
    PROVE  /\ DecodeFields(struct, EncodeFields(struct, message)).ok
           /\ DecodeFields(struct, EncodeFields(struct, message)).value = message
<1>1. CASE struct = "RouteUpdateMessage"
    BY <1>1, ReadRouteUpdateWhole DEF EncodeFields, DecodeFields
<1>2. ASSUME struct # "RouteUpdateMessage",
             NEW codec, NEW fields \in Seq(AnyFields), HoldsFields(fields, message)
      PROVE  deserialize(codec, fields, serialize(codec, fields, message))
                = Result(TRUE, message, <<>>)
  <2>1. serialize(codec, fields, message) \in Bytes /\ <<>> \in Bytes
    <3>1. <<>> \in Bytes
        BY DEF Bytes
    <3> QED BY <1>2, <3>1, FieldsBytes
  <2>2. serialize(codec, fields, message) \o <<>> = serialize(codec, fields, message)
      BY <2>1, CatEmpty
  <2>3. deserialize(codec, fields, serialize(codec, fields, message) \o <<>>)
           = Result(TRUE, message, <<>>)
      BY <1>2, <2>1, DeserializeWhole
  <2> QED BY <2>2, <2>3
<1>3. CASE struct # "RouteUpdateMessage"
  <2> DEFINE f == Formats[struct]
             e == EncodeFields(struct, message)
  <2>1. struct \in DOMAIN Formats /\ HoldsFields(f.fields, message) /\ f.fields \in Seq(AnyFields)
      BY <1>3, HeldFields
  <2>2. deserialize(f.codec, f.fields, serialize(f.codec, f.fields, message))
           = Result(TRUE, message, <<>>)
    <3> HIDE DEF f
    <3> QED BY <1>2, <1>3, <2>1
  <2>3. CASE IsFile(struct)
    <3>1. f.codec = File
        BY <2>3 DEF IsFile
    <3>2. extract_payload(e) = serialize(File, f.fields, message)
        BY <1>3, <2>3, EncodedFile
    <3>3. DecodeFields(struct, e) = deserialize(f.codec, f.fields, serialize(f.codec, f.fields, message))
      <4> HIDE DEF e
      <4> QED BY <1>3, <3>1, <3>2 DEF DecodeFields
    <3> QED BY <2>2, <3>3 DEF Result
  <2>4. CASE ~IsFile(struct)
    <3>1. f.codec # File
        BY <2>1, <2>4 DEF IsFile
    <3>2. DecodeFields(struct, e) = deserialize(f.codec, f.fields, serialize(f.codec, f.fields, message))
        BY <1>3, <3>1 DEF DecodeFields, EncodeFields
    <3> QED BY <2>2, <3>2 DEF Result
  <2> QED BY <2>3, <2>4
<1> QED BY <1>1, <1>3

\* what is cut is refused, or blank
LEMMA FieldsCut ==
    ASSUME NEW struct, NEW message, Holds(struct, message), Fits(4, Len(EncodeFields(struct, message))),
           NEW c \in Bytes, Cut(c, EncodeFields(struct, message))
    PROVE  IF IsFile(struct) THEN DecodeFields(struct, c).value = Blank(struct)
           ELSE ~DecodeFields(struct, c).ok
<1>1. CASE struct = "RouteUpdateMessage"
  <2>1. ~IsFile(struct)
      BY <1>1, NotInFormats DEF IsFile
  <2>2. ~ReadRouteUpdate(c).ok
      BY <1>1, ReadRouteUpdateCut DEF EncodeFields
  <2> QED BY <1>1, <2>1, <2>2 DEF DecodeFields
<1>2. CASE struct # "RouteUpdateMessage" /\ IsFile(struct)
  <2> DEFINE f == Formats[struct]
  <2>1. f.fields \in Seq(AnyFields) /\ f.type \in Nat
      BY <1>2, HeldFields
  <2>2. PICK payload \in Bytes : /\ EncodeFields(struct, message) = add_message_header(f.type, payload)
                                 /\ Fits(4, Len(payload))
      BY <1>2, EncodedFile
  <2>3. extract_payload(c) = <<>>
      BY <2>1, <2>2, ExtractFromCut
  <2>4. DecodeFields(struct, c) = deserialize(File, f.fields, <<>>)
      BY <1>2, <2>3 DEF DecodeFields, IsFile
  <2>5. deserialize(File, f.fields, <<>>).value = [i \in DOMAIN f.fields |-> Default(f.fields[i])]
    <3> HIDE DEF f
    <3> QED BY <2>1, DeserializeNothing
  <2> QED BY <1>2, <2>4, <2>5 DEF Blank
<1>3. CASE struct # "RouteUpdateMessage" /\ ~IsFile(struct)
  <2> DEFINE f == Formats[struct]
  <2>1. /\ struct \in DOMAIN Formats /\ HoldsFields(f.fields, message)
        /\ f.fields \in Seq(AnyFields) /\ f.codec \in {Network, Router, File}
      BY <1>3, HeldFields DEF GoodFormat
  <2>2. f.codec # File
      BY <1>3, <2>1 DEF IsFile
  <2>3. EncodeFields(struct, message) = serialize(f.codec, f.fields, message)
      BY <1>3, <2>2 DEF EncodeFields
  <2>4. DecodeFields(struct, c) = deserialize(f.codec, f.fields, c)
      BY <1>3, <2>2 DEF DecodeFields
  <2> HIDE DEF f
  <2>5. ~f.codec.lenient
      BY <2>1, <2>2, Codecs
  <2>6. ~deserialize(f.codec, f.fields, c).ok
      BY <2>1, <2>3, <2>5, DeserializeCut
  <2> QED BY <1>3, <2>4, <2>6
<1> QED BY <1>1, <1>2, <1>3

\* the message without what a refusal leaves out
LEMMA CarriedHolds ==
    ASSUME NEW struct, NEW message, Holds(struct, message)
    PROVE  Holds(struct, Carried(struct, message))
<1>1. CASE struct = "file_FileResponseMessage" /\ message[2] = 0
  <2> DEFINE fields == Formats[struct].fields
             carried == [message EXCEPT ![4] = <<>>]
  <2>1. struct # "RouteUpdateMessage" /\ Carried(struct, message) = carried
      BY <1>1 DEF Carried
  <2>2. struct \in DOMAIN Formats /\ HoldsFields(fields, message)
      BY <2>1, HeldFields
  <2>3. fields = FileResponseMessage
      BY <1>1 DEF Formats, Format
  <2>4. Len(fields) = 4 /\ DOMAIN fields = 1 .. 4 /\ fields[4] = Str
      BY <2>3 DEF FileResponseMessage
  <2> HIDE DEF fields
  <2>5. IsSeq(message) /\ Len(message) = 4 /\ \A i \in 1 .. 4 : HoldsField(fields[i], message[i])
      BY <2>2, <2>4 DEF HoldsFields
  <2>6. message = [i \in 1 .. 4 |-> message[i]]
      BY <2>5 DEF IsSeq
  <2>7. carried = [i \in 1 .. 4 |-> IF i = 4 THEN <<>> ELSE message[i]]
      BY <2>6
  <2> HIDE DEF carried
  <2>8. Len(carried) = 4 /\ IsSeq(carried)
      BY <2>7 DEF IsSeq
  <2>9. HoldsField(fields[4], <<>>)
    <3>1. <<>> \in Seq(0 .. Base - 1) /\ Len(<<>>) = 0
        OBVIOUS
    <3>2. Fits(4, 0)
      <4>1. HoldsField(fields[1], message[1]) /\ fields[1] = Str
          BY <2>3, <2>5 DEF FileResponseMessage, fields
      <4>2. Fits(4, Len(message[1]))
          BY <4>1 DEF HoldsField, HoldsScalar, Str
      <4>3. Len(message[1]) \in Nat
          BY <4>2, FitsNat
      <4> QED BY <4>2, <4>3, FitsLess
    <3> QED BY <2>4, <3>1, <3>2 DEF HoldsField, HoldsScalar, Str
  <2>10. \A i \in 1 .. 4 : HoldsField(fields[i], carried[i])
      BY <2>5, <2>7, <2>9
  <2> QED BY <1>1, <2>1, <2>2, <2>4, <2>8, <2>10 DEF Holds, HoldsFields, fields
<1>2. CASE ~(struct = "file_FileResponseMessage" /\ message[2] = 0)
    BY <1>2 DEF Carried
<1> QED BY <1>1, <1>2

LEMMA EncodedBytes ==
    ASSUME NEW struct, NEW message, Holds(struct, message), Fits(4, Len(Encode(struct, message)))
    PROVE  Encode(struct, message) \in Bytes
<1> DEFINE carried == Carried(struct, message)
<1>1. Holds(struct, carried) /\ Encode(struct, message) = EncodeFields(struct, carried)
    BY CarriedHolds DEF Encode
<1> HIDE DEF carried
<1> QED BY <1>1, FieldsEncoded

\* what is written is read back
LEMMA DecodeWhole ==
    ASSUME NEW struct, NEW message, Holds(struct, message), Fits(4, Len(Encode(struct, message)))
    PROVE  /\ Decode(struct, Encode(struct, message)).ok
           /\ Decode(struct, Encode(struct, message)).value = Carried(struct, message)
<1> DEFINE carried == Carried(struct, message)
           r == DecodeFields(struct, Encode(struct, message))
<1>1. Holds(struct, carried) /\ Encode(struct, message) = EncodeFields(struct, carried)
    BY CarriedHolds DEF Encode
<1>2. Carried(struct, carried) = carried
  <2>1. CASE struct = "file_FileResponseMessage" /\ message[2] = 0
    <3>1. carried = [message EXCEPT ![4] = <<>>]
        BY <2>1 DEF Carried
    <3>2. [carried EXCEPT ![4] = <<>>] = carried
        BY <3>1
    <3> QED BY <3>2 DEF Carried
  <2>2. CASE ~(struct = "file_FileResponseMessage" /\ message[2] = 0)
      BY <2>2 DEF Carried
  <2> QED BY <2>1, <2>2
<1> HIDE DEF carried
<1>3. r.ok /\ r.value = carried
    BY <1>1, FieldsWhole
<1>4. Decode(struct, Encode(struct, message)) = Result(r.ok, Carried(struct, r.value), r.rest)
    BY DEF Decode
<1> HIDE DEF r
<1> QED BY <1>2, <1>3, <1>4 DEF Result, carried

\* what is cut is refused, or nothing of it is read
LEMMA DecodeCut ==
    ASSUME NEW struct, NEW message, Holds(struct, message), Fits(4, Len(Encode(struct, message))),
           NEW c \in Bytes, Cut(c, Encode(struct, message))
    PROVE  IF IsFile(struct) THEN Decode(struct, c).value = Blank(struct)
           ELSE ~Decode(struct, c).ok
<1> DEFINE carried == Carried(struct, message)
           r == DecodeFields(struct, c)
<1>1. Holds(struct, carried) /\ Encode(struct, message) = EncodeFields(struct, carried)
    BY CarriedHolds DEF Encode
<1> HIDE DEF carried
<1>2. IF IsFile(struct) THEN r.value = Blank(struct) ELSE ~r.ok
    BY <1>1, FieldsCut
<1>3. Decode(struct, c) = Result(r.ok, Carried(struct, r.value), r.rest)
    BY DEF Decode
<1>4. Carried(struct, Blank(struct)) = Blank(struct)
  <2>1. CASE struct = "file_FileResponseMessage"
    <3>1. Formats[struct].fields = FileResponseMessage
        BY <2>1 DEF Formats, Format
    <3>2. Blank(struct)[4] = <<>> /\ DOMAIN Blank(struct) = DOMAIN FileResponseMessage
        BY <3>1 DEF Blank, Default, FileResponseMessage, Str
    <3>3. [Blank(struct) EXCEPT ![4] = <<>>] = Blank(struct)
        BY <3>1, <3>2 DEF Blank
    <3> QED BY <3>3 DEF Carried
  <2>2. CASE struct # "file_FileResponseMessage"
      BY <2>2 DEF Carried
  <2> QED BY <2>1, <2>2
<1> HIDE DEF r
<1> QED BY <1>2, <1>3, <1>4 DEF Result

-----------------------------------------------------------------------------
(* The header of a message of protocol.cpp. *)

HeaderOf(magic, version, type, size, checksum) ==
    <<magic, version, type, 0, 0, size, 0, checksum>>
HeaderBytes(magic, version, type, size, checksum) ==
    serialize(Network, MessageHeader, HeaderOf(magic, version, type, size, checksum))

\* the numbers of a header: all but the size are small in this model
HeaderNumbers(magic, version, type, size, checksum) ==
    /\ magic \in 0 .. Base - 1 /\ version \in 0 .. Base - 1 /\ type \in 0 .. Base - 1
    /\ Fits(4, size) /\ checksum \in 0 .. Base - 1

HeaderWidth == <<4, 2, 1, 1, 8, 4, 8, 4>>

LEMMA HeaderFields ==
    /\ Len(MessageHeader) = 8 /\ DOMAIN MessageHeader = 1 .. 8
    /\ \A i \in 1 .. 8 : /\ MessageHeader[i] = U(HeaderWidth[i]) /\ HeaderWidth[i] \in Nat \ {0}
                         /\ MessageHeader[i].kind = "number"
                         /\ MessageHeader[i].width = HeaderWidth[i]
<1>1. Len(MessageHeader) = 8 /\ DOMAIN MessageHeader = 1 .. 8
    BY DEF MessageHeader
<1>2. \A i \in 1 .. 8 : MessageHeader[i] = U(HeaderWidth[i]) /\ HeaderWidth[i] \in Nat \ {0}
    BY DEF MessageHeader, HeaderWidth
<1>3. \A w : U(w).kind = "number" /\ U(w).width = w
    BY DEF U
<1>4. ASSUME NEW i \in 1 .. 8
      PROVE  MessageHeader[i].kind = "number" /\ MessageHeader[i].width = HeaderWidth[i]
    BY <1>2, <1>3
<1> QED BY <1>1, <1>2, <1>4

\* the numbers of a header fit their fields
LEMMA HeaderHolds ==
    ASSUME NEW magic, NEW version, NEW type, NEW size, NEW checksum,
           HeaderNumbers(magic, version, type, size, checksum)
    PROVE  HoldsFields(MessageHeader, HeaderOf(magic, version, type, size, checksum))
<1> DEFINE h == HeaderOf(magic, version, type, size, checksum)
<1>1. Len(h) = 8 /\ IsSeq(h)
    BY DEF HeaderOf, IsSeq
<1>2. /\ h[1] = magic /\ h[2] = version /\ h[3] = type /\ h[4] = 0 /\ h[5] = 0
      /\ h[6] = size /\ h[7] = 0 /\ h[8] = checksum
    BY DEF HeaderOf
<1>3. 0 \in 0 .. Base - 1
    BY WireAssumption
<1> HIDE DEF h
<1>4. ASSUME NEW i \in 1 .. 8
      PROVE  HoldsField(MessageHeader[i], h[i])
  <2>1. MessageHeader[i].kind = "number" /\ MessageHeader[i].width = HeaderWidth[i]
      BY HeaderFields
  <2>2. Fits(HeaderWidth[i], h[i])
    <3>1. CASE i = 6
      <4>1. HeaderWidth[i] = 4 /\ h[i] = size
          BY <1>2, <3>1 DEF HeaderWidth
      <4> QED BY <4>1 DEF HeaderNumbers
    <3>2. CASE i # 6
      <4>1. h[i] \in 0 .. Base - 1
          BY <1>2, <1>3, <3>2 DEF HeaderNumbers
      <4> QED BY <4>1, HeaderFields, SmallFits, Zenon
    <3> QED BY <3>1, <3>2
  <2>3. MessageHeader[i].kind # "list"
      BY <2>1
  <2> QED BY <2>1, <2>2, <2>3 DEF HoldsField, HoldsScalar
<1> QED BY <1>1, <1>4, HeaderFields DEF HoldsFields, h

\* a header takes HeaderSize bytes
LEMMA HeaderLength ==
    ASSUME NEW magic, NEW version, NEW type, NEW size, NEW checksum,
           HeaderNumbers(magic, version, type, size, checksum)
    PROVE  /\ HeaderBytes(magic, version, type, size, checksum) \in Bytes
           /\ Len(HeaderBytes(magic, version, type, size, checksum)) = HeaderSize
<1> DEFINE h == HeaderOf(magic, version, type, size, checksum)
<1>1. HoldsFields(MessageHeader, h) /\ MessageHeader \in Seq(AnyFields)
    BY HeaderHolds, MessageFields
<1>2. \A i \in 1 .. 8 : HoldsField(MessageHeader[i], h[i])
    BY <1>1, HeaderFields DEF HoldsFields
<1>3. PICK piece, after : FieldsInPieces(Network, MessageHeader, h, piece, after)
    BY <1>1, FieldsPieces
<1> HIDE DEF h
<1>4. /\ after \in [0 .. 8 -> Bytes] /\ after[8] = <<>>
      /\ \A k \in 0 .. 7 : after[k] = piece[k + 1] \o after[k + 1]
      /\ \A k \in 1 .. 8 : /\ piece[k] \in Bytes
                           /\ piece[k] = WriteField(Network, MessageHeader[k], h[k])
      /\ serialize(Network, MessageHeader, h) = after[0]
  <2>1. Len(MessageHeader) = 8 /\ 8 - 1 = 7
      BY HeaderFields
  <2> QED BY <1>3, <2>1 DEF FieldsInPieces, Following
<1>5. ASSUME NEW k \in 1 .. 8
      PROVE  Len(piece[k]) = HeaderWidth[k]
  <2>1. MessageHeader[k].kind = "number" /\ MessageHeader[k].width = HeaderWidth[k]
      BY HeaderFields
  <2>2. MessageHeader[k].kind # "list"
      BY <2>1
  <2>3. piece[k] = Digits(Network.order, HeaderWidth[k], h[k])
      BY <1>4, <2>1, <2>2 DEF WriteField, WriteScalar
  <2>4. Fits(HeaderWidth[k], h[k])
      BY <1>2, <2>1, <2>2 DEF HoldsField, HoldsScalar
  <2>5. h[k] \in Nat /\ HeaderWidth[k] \in Nat
      BY <2>4, FitsNat, HeaderFields
  <2> QED BY <2>3, <2>5, DigitsAreBytes
<1>6. \A k \in 0 .. 7 : Len(after[k]) = HeaderWidth[k + 1] + Len(after[k + 1])
  <2> TAKE k \in 0 .. 7
  <2>1. k + 1 \in 1 .. 8 /\ k + 1 \in 0 .. 8
      OBVIOUS
  <2>2. /\ after[k] = piece[k + 1] \o after[k + 1] /\ piece[k + 1] \in Bytes
        /\ after[k + 1] \in Bytes /\ Len(piece[k + 1]) = HeaderWidth[k + 1]
      BY <1>4, <1>5, <2>1
  <2>3. Len(piece[k + 1] \o after[k + 1]) = Len(piece[k + 1]) + Len(after[k + 1])
      BY <2>2, CatBytes
  <2> QED BY <2>2, <2>3
<1>7. Len(after[8]) = 0
    BY <1>4
<1>8. /\ Len(after[7]) = 4 + Len(after[8]) /\ Len(after[6]) = 8 + Len(after[7])
      /\ Len(after[5]) = 4 + Len(after[6]) /\ Len(after[4]) = 8 + Len(after[5])
      /\ Len(after[3]) = 1 + Len(after[4]) /\ Len(after[2]) = 1 + Len(after[3])
      /\ Len(after[1]) = 2 + Len(after[2]) /\ Len(after[0]) = 4 + Len(after[1])
    BY <1>6 DEF HeaderWidth
<1>9. Len(after[0]) = 32 /\ after[0] \in Bytes
    BY <1>4, <1>7, <1>8
<1> QED BY <1>4, <1>9 DEF HeaderBytes, HeaderSize, h

\* what Header reads of the bytes of a header and what follows them
LEMMA HeaderReadBack ==
    ASSUME NEW magic, NEW version, NEW type, NEW size, NEW checksum,
           HeaderNumbers(magic, version, type, size, checksum), NEW x \in Bytes
    PROVE  LET hd == Header(HeaderBytes(magic, version, type, size, checksum) \o x)
           IN  /\ hd.is_valid <=> magic = Magic /\ version = Version
               /\ hd.type = type /\ hd.size = size /\ hd.checksum = checksum
<1> DEFINE h == HeaderOf(magic, version, type, size, checksum)
           b == HeaderBytes(magic, version, type, size, checksum)
<1>0. HoldsFields(MessageHeader, h) /\ MessageHeader \in Seq(AnyFields)
    BY HeaderHolds, MessageFields
<1>1. b \in Bytes /\ Len(b) = HeaderSize
    BY HeaderLength
<1>2. h[1] = magic /\ h[2] = version /\ h[3] = type /\ h[6] = size /\ h[8] = checksum
    BY DEF HeaderOf
<1>3. b = serialize(Network, MessageHeader, h)
    BY DEF HeaderBytes
<1> HIDE DEF b, h
<1>4. SubSeq(b \o x, 1, HeaderSize) = b
    BY <1>1, CatParts
<1>5. deserialize(Network, MessageHeader, b) = Result(TRUE, h, <<>>)
  <2>1. <<>> \in Bytes
      BY DEF Bytes
  <2>2. deserialize(Network, MessageHeader, b \o <<>>) = Result(TRUE, h, <<>>)
      BY <1>0, <1>3, <2>1, DeserializeWhole
  <2>3. b \o <<>> = b
      BY <1>1, CatEmpty
  <2> QED BY <2>2, <2>3
<1>6. deserialize(Network, MessageHeader, SubSeq(b \o x, 1, HeaderSize)).value = h
  <2>1. Result(TRUE, h, <<>>).value = h
      BY DEF Result
  <2> QED BY <1>4, <1>5, <2>1, Zenon
<1>7. Header(b \o x) = [is_valid |-> h[1] = Magic /\ h[2] = Version, type |-> h[3],
                        size |-> h[6], checksum |-> h[8]]
    BY <1>6, Zenon DEF Header
<1> DEFINE hd == Header(b \o x)
<1>8. hd.is_valid = (h[1] = Magic /\ h[2] = Version)
    BY <1>7
<1>9. hd.type = h[3] /\ hd.size = h[6] /\ hd.checksum = h[8]
    BY <1>7
<1> HIDE DEF hd
<1>10. hd.is_valid <=> magic = Magic /\ version = Version
    BY <1>2, <1>8
<1> QED BY <1>2, <1>9, <1>10 DEF b, hd

-----------------------------------------------------------------------------
(* A whole message: the header and the payload. *)

LEMMA CrcSmall ==
    ASSUME NEW payload \in Bytes
    PROVE  Crc(payload) \in 0 .. Base - 1
<1> DEFINE S == {i \in DOMAIN payload : payload[i] % 2 = 1}
<1>1. Len(payload) \in Nat /\ DOMAIN payload = 1 .. Len(payload)
    BY DEF Bytes
<1>2. IsFiniteSet(1 .. Len(payload))
    BY <1>1, FS_Interval
<1>3. S \subseteq 1 .. Len(payload)
    BY <1>1
<1> HIDE DEF S
<1>4. Cardinality(S) \in Nat
    BY <1>2, <1>3, FS_Subset, FS_CardinalityType
<1>5. Cardinality(S) % Base \in 0 .. Base - 1
    BY <1>4, Dividing
<1> QED BY <1>5 DEF Crc, S

\* the bytes of the header of a message with this payload
HeadOf(type, payload) == HeaderBytes(Magic, Version, type, Len(payload), Crc(payload))

\* a frame is its header and its payload
LEMMA FrameHead ==
    ASSUME NEW type \in 0 .. Base - 1, NEW payload \in Bytes, Fits(4, Len(payload))
    PROVE  /\ HeadOf(type, payload) \in Bytes /\ Len(HeadOf(type, payload)) = HeaderSize
           /\ Frame(type, payload) = HeadOf(type, payload) \o payload
           /\ Frame(type, payload) \in Bytes
           /\ Len(Frame(type, payload)) = HeaderSize + Len(payload)
<1>1. Magic \in 0 .. Base - 1 /\ Version \in 0 .. Base - 1
    BY WireAssumption DEF Magic, Version
<1>2. HeaderNumbers(Magic, Version, type, Len(payload), Crc(payload))
    BY <1>1, CrcSmall DEF HeaderNumbers
<1>3. HeadOf(type, payload) \in Bytes /\ Len(HeadOf(type, payload)) = HeaderSize
    BY <1>2, HeaderLength DEF HeadOf
<1>4. Frame(type, payload) = HeadOf(type, payload) \o payload
    BY DEF Frame, HeadOf, HeaderBytes, HeaderOf
<1>5. /\ HeadOf(type, payload) \o payload \in Bytes
      /\ Len(HeadOf(type, payload) \o payload) = Len(HeadOf(type, payload)) + Len(payload)
    BY <1>3, CatBytes
<1> QED BY <1>3, <1>4, <1>5

ReadsHead(hd, type, payload) ==
    /\ hd.is_valid /\ hd.type = type /\ hd.size = Len(payload) /\ hd.checksum = Crc(payload)

\* the header of a frame is valid and tells the payload
LEMMA FrameHeadRead ==
    ASSUME NEW type \in 0 .. Base - 1, NEW payload \in Bytes, Fits(4, Len(payload)),
           NEW x \in Bytes
    PROVE  ReadsHead(Header(HeadOf(type, payload) \o x), type, payload)
<1>1. Magic \in 0 .. Base - 1 /\ Version \in 0 .. Base - 1
    BY WireAssumption DEF Magic, Version
<1>2. HeaderNumbers(Magic, Version, type, Len(payload), Crc(payload))
    BY <1>1, CrcSmall DEF HeaderNumbers
<1> DEFINE hd == Header(HeadOf(type, payload) \o x)
<1>3. /\ hd.is_valid <=> Magic = Magic /\ Version = Version
      /\ hd.type = type /\ hd.size = Len(payload) /\ hd.checksum = Crc(payload)
    BY <1>2, HeaderReadBack DEF HeadOf
<1> HIDE DEF hd
<1>4. ReadsHead(hd, type, payload)
    BY <1>3 DEF ReadsHead
<1> QED BY <1>4 DEF hd

\* deserialize_message reads a whole frame
LEMMA FrameWhole ==
    ASSUME NEW type \in 0 .. Base - 1, NEW payload \in Bytes, Fits(4, Len(payload))
    PROVE  deserialize_message(Frame(type, payload)).ok
<1> DEFINE s == Frame(type, payload)
           h == HeadOf(type, payload)
           hd == Header(s)
<1>1. /\ h \in Bytes /\ Len(h) = HeaderSize /\ s = h \o payload
      /\ Len(s) = HeaderSize + Len(payload) /\ Len(payload) \in Nat /\ HeaderSize \in Nat
    BY FrameHead, LenOfBytes DEF HeaderSize
<1>2. ReadsHead(hd, type, payload)
    BY <1>1, FrameHeadRead
<1> HIDE DEF s, h
<1>3. From(s, HeaderSize) = payload
    BY <1>1, CatParts
<1>4. SubSeq(s, HeaderSize + 1, HeaderSize + Len(payload)) = payload
    BY <1>1, <1>3 DEF From
<1> HIDE DEF hd
<1>5. ~(Len(s) < HeaderSize) /\ Len(s) >= HeaderSize + hd.size
    BY <1>1, <1>2 DEF ReadsHead
<1>6. hd.is_valid /\ verify_checksum(hd, SubSeq(s, HeaderSize + 1, HeaderSize + hd.size))
    BY <1>2, <1>4 DEF ReadsHead, verify_checksum
<1>7. deserialize_message(s).ok = TRUE
    BY <1>5, <1>6 DEF deserialize_message, Result, hd
<1> QED BY <1>7 DEF s

\* deserialize_message refuses a cut frame, in the header or in the payload
LEMMA FrameCut ==
    ASSUME NEW type \in 0 .. Base - 1, NEW payload \in Bytes, Fits(4, Len(payload)),
           NEW c \in Bytes, Cut(c, Frame(type, payload))
    PROVE  ~deserialize_message(c).ok
<1> DEFINE h == HeadOf(type, payload)
           hd == Header(c)
<1>1. /\ h \in Bytes /\ Len(h) = HeaderSize /\ Frame(type, payload) = h \o payload
      /\ Len(payload) \in Nat /\ HeaderSize \in Nat
    BY FrameHead, LenOfBytes DEF HeaderSize
<1>2. CutIn(c, h, payload)
  <2> HIDE DEF h
  <2> QED BY <1>1, CutOfPieces
<1>3. CASE Cut(c, h)
  <2>1. Len(c) < HeaderSize
    <3> HIDE DEF h
    <3> QED BY <1>1, <1>3, CutLength
  <2> QED BY <2>1 DEF deserialize_message, Result
<1>4. ASSUME NEW x \in Bytes, c = h \o x, Cut(x, payload)
      PROVE  ~deserialize_message(c).ok
  <2>1. ReadsHead(hd, type, payload)
      BY <1>4, FrameHeadRead
  <2> HIDE DEF h
  <2>2. Len(c) = HeaderSize + Len(x) /\ Len(x) \in Nat /\ Len(x) < Len(payload)
    <3>1. Len(h \o x) = Len(h) + Len(x)
        BY <1>1, CatBytes
    <3> QED BY <1>1, <1>4, <3>1, CutLength, LenOfBytes
  <2> HIDE DEF hd
  <2>3. ~(Len(c) >= HeaderSize + hd.size)
      BY <1>1, <2>1, <2>2 DEF ReadsHead
  <2> QED BY <2>3 DEF deserialize_message, Result, hd
<1> HIDE DEF h
<1> QED BY <1>2, <1>3, <1>4 DEF CutIn

-----------------------------------------------------------------------------
(* The messages that a peer may send. *)

\* what MessagesAssumption says of a message
LEMMA MessageParts ==
    ASSUME NEW m \in Messages
    PROVE  /\ m.type \in 0 .. Base - 1 /\ Holds(m.struct, m.value)
           /\ Fits(4, Len(Encode(m.struct, m.value)))
           /\ Encode(m.struct, m.value) \in Bytes
<1>1. /\ m.type \in 0 .. Base - 1 /\ Holds(m.struct, m.value)
      /\ Fits(4, Len(Encode(m.struct, m.value)))
    BY MessagesAssumption
<1> QED BY <1>1, EncodedBytes

\* fewer bytes than all are a cut
LEMMA CutAt ==
    ASSUME NEW s \in Bytes, NEW n \in 0 .. Len(s) - 1
    PROVE  SubSeq(s, 1, n) \in Bytes /\ Cut(SubSeq(s, 1, n), s)
<1>1. n \in 0 .. Len(s) /\ Len(s) \in Nat /\ Len(s) - n > 0
    BY LenOfBytes
<1>2. /\ SubSeq(s, 1, n) \in Bytes /\ From(s, n) \in Bytes /\ Len(From(s, n)) = Len(s) - n
      /\ s = SubSeq(s, 1, n) \o From(s, n)
    BY <1>1, SplitBytes
<1>3. From(s, n) # <<>>
  <2> SUFFICES ASSUME From(s, n) = <<>> PROVE FALSE
      OBVIOUS
  <2>1. Len(From(s, n)) = 0
      OBVIOUS
  <2> QED BY <1>1, <1>2, <2>1
<1> QED BY <1>2, <1>3 DEF Cut

\* what WholeOrNothing says, of every message
LEMMA MessageWholeOrNot ==
    ASSUME NEW m \in Messages
    PROVE  ReadWholeOrNot(m)
<1> DEFINE bytes == Encode(m.struct, m.value)
           frame == Frame(m.type, bytes)
<1>0. /\ m.type \in 0 .. Base - 1 /\ Holds(m.struct, m.value) /\ Fits(4, Len(bytes))
      /\ bytes \in Bytes
    BY MessageParts
<1>1. Decode(m.struct, bytes).ok /\ Decode(m.struct, bytes).value = Carried(m.struct, m.value)
    BY <1>0, DecodeWhole
<1>2. ASSUME NEW n \in 0 .. Len(bytes) - 1
      PROVE  IF IsFile(m.struct)
             THEN Decode(m.struct, SubSeq(bytes, 1, n)).value = Blank(m.struct)
             ELSE ~Decode(m.struct, SubSeq(bytes, 1, n)).ok
  <2>1. SubSeq(bytes, 1, n) \in Bytes /\ Cut(SubSeq(bytes, 1, n), bytes)
      BY <1>0, CutAt
  <2> QED BY <1>0, <2>1, DecodeCut
<1> HIDE DEF bytes
<1>3. deserialize_message(frame).ok /\ frame \in Bytes
    BY <1>0, FrameWhole, FrameHead
<1>4. ASSUME NEW n \in 0 .. Len(frame) - 1
      PROVE  ~deserialize_message(SubSeq(frame, 1, n)).ok
  <2>1. SubSeq(frame, 1, n) \in Bytes /\ Cut(SubSeq(frame, 1, n), frame)
      BY <1>3, CutAt
  <2> QED BY <1>0, <2>1, FrameCut
<1> QED BY <1>1, <1>2, <1>3, <1>4 DEF ReadWholeOrNot, IsFile, bytes

(***************************************************************************)
(* Of the first message of a connection, whichever it is: the readers of   *)
(* protocol.cpp, peer_router.cpp and file_protocol.cpp give back what was  *)
(* written, and of any cut of its bytes they throw, or read nothing.       *)
(***************************************************************************)
THEOREM CodecsReadWholeOrNothing == StreamSpec => WholeOrNothing
<1>1. ASSUME [StreamNext]_streamVars, sent' # sent, sent = <<>>
      PROVE  ReadWholeOrNot(Last(sent'))
  <2>1. PICK m \in Messages : sent' = Append(sent, m)
      BY <1>1 DEF StreamNext, streamVars, send_message, PeerDies, Foreign, Read, do_read_header, RejectHeader,
             do_read_payload, RejectPayload, EndOfStream, Close
  <2>2. sent' = <<m>>
      BY <1>1, <2>1
  <2>3. Last(<<m>>) = m
      BY DEF Last
  <2>4. ReadWholeOrNot(m)
      BY MessageWholeOrNot
  <2> QED BY <2>2, <2>3, <2>4
<1>2. [StreamNext]_streamVars => [sent' # sent /\ sent = <<>> => ReadWholeOrNot(Last(sent'))]_streamVars
    BY <1>1
<1> QED BY <1>2, PTL DEF StreamSpec, WholeOrNothing

-----------------------------------------------------------------------------
(* What the handlers are due. *)

Handled(g, m) == IF Genuine(m) THEN Append(g, <<m.type, m.value>>) ELSE g

GenuineLoop(messages, g) ==
    g = [k \in 0 .. Len(messages) |-> IF k = 0 THEN <<>> ELSE Handled(g[k - 1], messages[k])]

\* GenuineIn is what its recursion says
LEMMA GenuineSteps ==
    ASSUME NEW s \in Seq(Messages)
    PROVE  /\ GenuineIn(s) \in [0 .. Len(s) -> Seq(Calls)] /\ GenuineIn(s)[0] = <<>>
           /\ \A k \in 1 .. Len(s) : GenuineIn(s)[k] = Handled(GenuineIn(s)[k - 1], s[k])
<1> DEFINE g == CHOOSE g : GenuineLoop(s, g)
           n == Len(s)
<1>0. n \in Nat /\ \A k \in 1 .. n : s[k] \in Messages
    OBVIOUS
<1>1. GenuineIn(s) = g
    BY Zenon DEF GenuineIn, GenuineLoop, Handled
<1>2. PICK r : /\ r \in [0 .. n -> Seq(Calls)] /\ r[0] = <<>>
               /\ \A k \in 1 .. n : r[k] = Handled(r[k - 1], s[k])
  <2> DEFINE step == [k \in 1 .. n |-> [x \in Seq(Calls) |-> Handled(x, s[k])]]
  <2>1. ASSUME NEW k \in 1 .. n, NEW x \in Seq(Calls)
        PROVE  Handled(x, s[k]) \in Seq(Calls)
    <3>1. Genuine(s[k]) => <<s[k].type, s[k].value>> \in Calls
        BY <1>0 DEF Calls
    <3> QED BY <3>1 DEF Handled
  <2>2. step \in [1 .. n -> [Seq(Calls) -> Seq(Calls)]]
      BY <2>1
  <2>3. <<>> \in Seq(Calls)
      OBVIOUS
  <2>4. PICK r : Loop(Seq(Calls), n, <<>>, step, r)
    <3> HIDE DEF step, n
    <3> QED BY <1>0, <2>2, <2>3, LoopExists
  <2>5. \A k \in 1 .. n : k - 1 \in 0 .. n
      BY <1>0
  <2>6. /\ r \in [0 .. n -> Seq(Calls)] /\ r[0] = <<>>
        /\ \A k \in 1 .. n : r[k] = step[k][r[k - 1]]
      BY <2>4 DEF Loop
  <2>7. \A k \in 1 .. n : r[k] = Handled(r[k - 1], s[k])
      BY <2>5, <2>6
  <2> QED BY <2>6, <2>7
<1>3. \A k \in 1 .. n : k - 1 \in 0 .. n /\ k \in 0 .. n /\ k # 0
    BY <1>0
<1>5. \A k \in 0 .. n : r[k] = IF k = 0 THEN <<>> ELSE Handled(r[k - 1], s[k])
    BY <1>2
<1>6. GenuineLoop(s, r)
    BY <1>2, <1>5 DEF GenuineLoop
<1>7. g = [k \in 0 .. n |-> IF k = 0 THEN <<>> ELSE Handled(g[k - 1], s[k])]
    BY <1>6, Zenon DEF GenuineLoop
<1> HIDE DEF g, n
<1>8. \A k \in 0 .. n : g[k] = r[k]
  <2> DEFINE P == {k \in 0 .. n : g[k] = r[k]}
  <2>1. 0 \in P
      BY <1>0, <1>2, <1>7
  <2>2. \A k \in 1 .. n : k - 1 \in P => k \in P
    <3> TAKE k \in 1 .. n
    <3> HAVE k - 1 \in P
    <3>1. g[k] = Handled(g[k - 1], s[k])
        BY <1>3, <1>7
    <3> QED BY <1>2, <1>3, <3>1
  <2> HIDE DEF P
  <2>3. \A k \in 0 .. n : k \in P
      BY <1>0, <2>1, <2>2, StepByStep
  <2> QED BY <2>3 DEF P
<1>9. g = r
    BY <1>2, <1>7, <1>8
<1> QED BY <1>1, <1>2, <1>9 DEF n

\* a further message changes nothing of what was due before
LEMMA GenuineKept ==
    ASSUME NEW s \in Seq(Messages), NEW m \in Messages, NEW k \in 0 .. Len(s)
    PROVE  GenuineIn(Append(s, m))[k] = GenuineIn(s)[k]
<1> DEFINE t == Append(s, m)
           n == Len(s)
           P == {j \in 0 .. n : GenuineIn(t)[j] = GenuineIn(s)[j]}
<1>1. /\ t \in Seq(Messages) /\ Len(t) = n + 1 /\ n \in Nat
      /\ \A j \in 1 .. n : t[j] = s[j]
    OBVIOUS
<1> HIDE DEF t
<1>2. 0 \in P
    BY <1>1, GenuineSteps
<1>3. \A j \in 1 .. n : j - 1 \in P => j \in P
  <2> TAKE j \in 1 .. n
  <2> HAVE j - 1 \in P
  <2>1. j \in 1 .. n + 1 /\ j \in 0 .. n
      BY <1>1
  <2>2. GenuineIn(s)[j] = Handled(GenuineIn(s)[j - 1], s[j])
      BY GenuineSteps
  <2>3. GenuineIn(t)[j] = Handled(GenuineIn(t)[j - 1], t[j])
      BY <1>1, <2>1, GenuineSteps
  <2> QED BY <1>1, <2>1, <2>2, <2>3
<1> HIDE DEF P
<1>4. \A j \in 0 .. n : j \in P
    BY <1>1, <1>2, <1>3, StepByStep
<1> QED BY <1>4 DEF P, t

\* what was due after k messages is a prefix of what is due in the end
LEMMA GenuinePrefix ==
    ASSUME NEW s \in Seq(Messages), NEW k \in 0 .. Len(s)
    PROVE  IsPrefix(GenuineIn(s)[k], GenuineIn(s)[Len(s)])
<1> DEFINE n == Len(s)
           g == GenuineIn(s)
           P == {j \in 0 .. n : j >= k => IsPrefix(g[k], g[j])}
<1>1. n \in Nat /\ g \in [0 .. n -> Seq(Calls)]
    BY GenuineSteps
<1>2. \A j \in 1 .. n : g[j] = Handled(g[j - 1], s[j])
    BY GenuineSteps
<1>3. \A j \in 1 .. n : s[j] \in Messages
    OBVIOUS
<1> HIDE DEF g
<1>4. IsPrefix(g[k], g[k])
    BY <1>1 DEF IsPrefix
<1>5. 0 \in P
    BY <1>1, <1>4
<1>6. \A j \in 1 .. n : j - 1 \in P => j \in P
  <2> TAKE j \in 1 .. n
  <2> HAVE j - 1 \in P
  <2>1. j \in 0 .. n /\ j - 1 \in 0 .. n
      BY <1>1
  <2>2. CASE j <= k
      BY <1>4, <2>1, <2>2
  <2>3. CASE j > k
    <3>1. j - 1 >= k
        BY <2>3
    <3>2. IsPrefix(g[k], g[j - 1])
        BY <3>1
    <3>3. g[k] \in Seq(Calls) /\ g[j - 1] \in Seq(Calls)
        BY <1>1, <2>1
    <3>4. Genuine(s[j]) => <<s[j].type, s[j].value>> \in Calls
        BY <1>3 DEF Calls
    <3>5. ASSUME NEW a \in Seq(Calls), NEW b \in Seq(Calls), IsPrefix(a, b), NEW e \in Calls
          PROVE  IsPrefix(a, Append(b, e))
      <4>1. Len(a) \in Nat /\ Len(b) \in Nat /\ Len(a) <= Len(b)
          BY <3>5 DEF IsPrefix
      <4>2. SubSeq(Append(b, e), 1, Len(a)) = SubSeq(b, 1, Len(a))
          BY <4>1
      <4>3. Len(Append(b, e)) = Len(b) + 1
          OBVIOUS
      <4> QED BY <3>5, <4>1, <4>2, <4>3 DEF IsPrefix
    <3>6. IsPrefix(g[k], g[j])
        BY <1>2, <3>2, <3>3, <3>4, <3>5 DEF Handled
    <3> QED BY <2>1, <3>6
  <2> QED BY <1>1, <2>2, <2>3
<1> HIDE DEF P
<1>7. \A j \in 0 .. n : j \in P
    BY <1>1, <1>5, <1>6, StepByStep
<1>8. n \in P /\ n >= k
    BY <1>1, <1>7
<1> QED BY <1>8 DEF P, g, n

-----------------------------------------------------------------------------
(* The bytes of a connection. *)

Encoded(m) == Encode(m.struct, m.value)
HeadBytes(m) == HeadOf(m.type, Encoded(m))
Written(m) == Frame(m.type, Encoded(m))

\* the bytes that send_message writes, and the header that a reader finds there
LEMMA WrittenParts ==
    ASSUME NEW m \in Messages
    PROVE  /\ Encoded(m) \in Bytes /\ HeadBytes(m) \in Bytes /\ Len(HeadBytes(m)) = HeaderSize
           /\ Written(m) = HeadBytes(m) \o Encoded(m) /\ Written(m) \in Bytes
           /\ Len(Written(m)) >= HeaderSize /\ Len(Encoded(m)) \in Nat
           /\ \A x \in Bytes : ReadsHead(Header(HeadBytes(m) \o x), m.type, Encoded(m))
           /\ ReadsHead(Header(HeadBytes(m)), m.type, Encoded(m))
<1> DEFINE e == Encoded(m)
<1>1. m.type \in 0 .. Base - 1 /\ e \in Bytes /\ Fits(4, Len(e))
    BY MessageParts DEF Encoded
<1> HIDE DEF e
<1>2. Len(e) \in Nat /\ HeaderSize \in Nat
    BY <1>1, LenOfBytes DEF HeaderSize
<1>3. /\ HeadOf(m.type, e) \in Bytes /\ Len(HeadOf(m.type, e)) = HeaderSize
      /\ Frame(m.type, e) = HeadOf(m.type, e) \o e /\ Frame(m.type, e) \in Bytes
      /\ Len(Frame(m.type, e)) = HeaderSize + Len(e)
    BY <1>1, FrameHead
<1>4. Len(Frame(m.type, e)) >= HeaderSize
    BY <1>2, <1>3
<1>5. \A x \in Bytes : ReadsHead(Header(HeadOf(m.type, e) \o x), m.type, e)
    BY <1>1, FrameHeadRead
<1>6. HeadOf(m.type, e) \o <<>> = HeadOf(m.type, e) /\ <<>> \in Bytes
  <2>1. <<>> \in Bytes
      BY DEF Bytes
  <2> QED BY <1>3, <2>1, CatEmpty
<1>7. ReadsHead(Header(HeadOf(m.type, e)), m.type, e)
  <2>1. ReadsHead(Header(HeadOf(m.type, e) \o <<>>), m.type, e)
      BY <1>5, <1>6
  <2> QED BY <1>6, <2>1
<1> QED BY <1>1, <1>2, <1>3, <1>4, <1>5, <1>7 DEF e, HeadBytes, Written

\* a handler gets the message if it is one of its struct
LEMMA HandledAs ==
    ASSUME NEW m \in Messages, NEW g
    PROVE  Handled(g, m) = IF /\ m.type \in DOMAIN handlers
                              /\ Decode(handlers[m.type], Encoded(m)).ok
                           THEN Append(g, <<m.type, Decode(handlers[m.type], Encoded(m)).value>>)
                           ELSE g
<1>1. CASE Genuine(m)
  <2>1. m.struct # "file_FileResponseMessage"
      BY <1>1 DEF Genuine, handlers
  <2>2. Decode(m.struct, Encoded(m)).ok /\ Decode(m.struct, Encoded(m)).value = m.value
      BY <2>1, MessageParts, DecodeWhole DEF Encoded, Carried
  <2> QED BY <1>1, <2>2 DEF Genuine, Handled
<1>2. CASE ~Genuine(m)
  <2>1. m.type \in DOMAIN handlers => ~Decode(handlers[m.type], Encoded(m)).ok
      BY <1>2, MessagesAssumption DEF Genuine, Encoded
  <2> QED BY <1>2, <2>1 DEF Handled
<1> QED BY <1>1, <1>2

\* the front of what arrived
FrontOf(a, b, s, y, z) ==
    /\ s = a \o z /\ b = z \o y /\ SubSeq(s, 1, Len(a)) = a /\ From(s, Len(a)) = z

\* once enough bytes have come, the first part is there and the second follows
LEMMA TakesFront ==
    ASSUME NEW a \in Bytes, NEW b \in Bytes, NEW s \in Bytes, NEW y \in Bytes,
           a \o b = s \o y, Len(s) >= Len(a)
    PROVE  \E z \in Bytes : FrontOf(a, b, s, y, z)
<1>1. Overlap(a, b, s, y)
    BY TwoSplits
<1>2. ASSUME NEW z \in Bytes, s = a \o z, b = z \o y
      PROVE  FrontOf(a, b, s, y, z)
    BY <1>2, CatParts DEF FrontOf
<1>3. ASSUME NEW z \in Bytes, a = s \o z, y = z \o b
      PROVE  s = a \o <<>> /\ b = <<>> \o y /\ <<>> \in Bytes
  <2>1. Len(a) = Len(s) + Len(z) /\ Len(s) \in Nat /\ Len(z) \in Nat
      BY <1>3, CatBytes, LenOfBytes
  <2>2. Len(z) = 0
      BY <2>1
  <2>3. z = <<>>
      BY <2>2, LenOfBytes
  <2>4. s = a /\ y = b
      BY <1>3, <2>3, CatEmpty
  <2>5. <<>> \in Bytes
      BY DEF Bytes
  <2> QED BY <2>4, <2>5, CatEmpty
<1>4. \E z \in Bytes : s = a \o z /\ b = z \o y
    BY <1>1, <1>3 DEF Overlap
<1> QED BY <1>2, <1>4

-----------------------------------------------------------------------------
(* The connection: what was read and what is still to come. *)

\* after[k] are the bytes of the messages behind the k-th
Arriving(s, after) ==
    /\ after \in [0 .. Len(s) -> Bytes] /\ after[Len(s)] = <<>>
    /\ \A k \in 0 .. Len(s) - 1 : after[k] = Written(s[k + 1]) \o after[k + 1]

\* k messages were read; lost are the bytes that the peer wrote and that never arrive
Reached(s, after, k, lost, st, p, rd, hd, hn) ==
    /\ Arriving(s, after) /\ k \in 0 .. Len(s) /\ lost \in Bytes
    /\ hn = GenuineIn(s)[k]
    /\ p = "open" => lost = <<>>
    /\ rd = "header" => after[k] = st \o lost
    /\ rd = "payload" => /\ k < Len(s) /\ hd = HeadBytes(s[k + 1])
                         /\ Encoded(s[k + 1]) \o after[k + 1] = st \o lost

\* the headers that Foreign writes
ForeignHead(magic, version) == HeaderBytes(magic, version, HEARTBEAT, 1, 0)

Strange(s, st, rd, hd, hn) ==
    /\ s = <<>> /\ hn = <<>>
    /\ rd = "header" => \E magic \in {0, 1}, version \in {1, 2} :
                           st = ForeignHead(magic, version) \o <<1>>
    /\ rd = "payload" => hd = ForeignHead(Magic, Version) /\ st = <<1>>

StreamTypeOK ==
    /\ sent \in Seq(Messages) /\ stream \in Bytes /\ peer \in {"open", "gone", "foreign"}
    /\ reading \in {"header", "payload", "closed"}

StreamInv ==
    /\ StreamTypeOK
    /\ IF peer = "foreign" THEN Strange(sent, stream, reading, header, handed)
       ELSE \E after, k, lost : Reached(sent, after, k, lost, stream, peer, reading, header, handed)

LEMMA StreamStarts == StreamInit => StreamInv
<1> SUFFICES ASSUME StreamInit PROVE StreamInv
    OBVIOUS
<1> DEFINE after == [k \in 0 .. 0 |-> <<>>]
<1>1. <<>> \in Seq(Messages) /\ <<>> \in Bytes /\ Len(<<>>) = 0
    BY DEF Bytes
<1>2. StreamTypeOK
    BY <1>1 DEF StreamInit, StreamTypeOK
<1>3. Arriving(<<>>, after)
    BY <1>1 DEF Arriving
<1>4. GenuineIn(<<>>)[0] = <<>>
    BY <1>1, GenuineSteps
<1>5. after[0] = <<>> /\ <<>> \o <<>> = <<>>
    OBVIOUS
<1> HIDE DEF after
<1>6. Reached(<<>>, after, 0, <<>>, <<>>, "open", "header", NoHeader, <<>>)
    BY <1>1, <1>3, <1>4, <1>5 DEF Reached
<1> QED BY <1>2, <1>6 DEF StreamInit, StreamInv

\* one more message behind all that were sent
LEMMA ArrivingMore ==
    ASSUME NEW s \in Seq(Messages), NEW m \in Messages, NEW after, Arriving(s, after),
           NEW more, more = [k \in 0 .. Len(s) + 1 |->
                                IF k = Len(s) + 1 THEN <<>> ELSE after[k] \o Written(m)]
    PROVE  /\ Arriving(Append(s, m), more)
           /\ \A k \in 0 .. Len(s) : more[k] = after[k] \o Written(m)
<1> DEFINE n == Len(s)
           t == Append(s, m)
           w == Written(m)
<1>1. /\ n \in Nat /\ Len(t) = n + 1 /\ \A k \in 1 .. n : t[k] = s[k] /\ s[k] \in Messages
      /\ t[n + 1] = m
    OBVIOUS
<1>2. w \in Bytes /\ <<>> \in Bytes /\ w \o <<>> = w /\ <<>> \o w = w
  <2>1. w \in Bytes
      BY WrittenParts
  <2>2. <<>> \in Bytes
      BY DEF Bytes
  <2> QED BY <2>1, <2>2, CatEmpty
<1>3. /\ after \in [0 .. n -> Bytes] /\ after[n] = <<>>
      /\ \A k \in 0 .. n - 1 : after[k] = Written(s[k + 1]) \o after[k + 1]
    BY DEF Arriving
<1>4. /\ more = [k \in 0 .. n + 1 |-> IF k = n + 1 THEN <<>> ELSE after[k] \o w]
    OBVIOUS
<1> HIDE DEF n, t, w
<1>5. \A k \in 0 .. n : more[k] = after[k] \o w
  <2> TAKE k \in 0 .. n
  <2>1. k \in 0 .. n + 1 /\ k # n + 1
      BY <1>1
  <2> QED BY <1>4, <2>1
<1>6. more[n + 1] = <<>>
    BY <1>1, <1>4
<1>7. \A k \in 0 .. n : after[k] \o w \in Bytes
    BY <1>2, <1>3, CatBytes
<1>8. more \in [0 .. n + 1 -> Bytes]
  <2>1. \A k \in 0 .. n + 1 : k = n + 1 \/ k \in 0 .. n
      BY <1>1
  <2>2. \A k \in 0 .. n + 1 : more[k] \in Bytes
      BY <1>2, <1>5, <1>6, <1>7, <2>1
  <2> QED BY <1>4, <2>2
<1>9. ASSUME NEW k \in 0 .. n
      PROVE  more[k] = Written(t[k + 1]) \o more[k + 1]
  <2>1. CASE k = n
    <3>1. more[k] = w
        BY <1>1, <1>2, <1>3, <1>5, <2>1
    <3>2. Written(t[k + 1]) = w /\ more[k + 1] = <<>>
        BY <1>1, <1>6, <2>1 DEF w
    <3> QED BY <1>2, <3>1, <3>2
  <2>2. CASE k # n
    <3>1. k \in 0 .. n - 1 /\ k + 1 \in 1 .. n /\ k + 1 \in 0 .. n
        BY <1>1, <2>2
    <3>2. after[k] = Written(s[k + 1]) \o after[k + 1] /\ t[k + 1] = s[k + 1]
        BY <1>1, <1>3, <3>1
    <3>3. Written(s[k + 1]) \in Bytes /\ after[k + 1] \in Bytes
        BY <1>1, <1>3, <3>1, WrittenParts
    <3>4. (Written(s[k + 1]) \o after[k + 1]) \o w = Written(s[k + 1]) \o (after[k + 1] \o w)
        BY <1>2, <3>3, CatAssociative
    <3> QED BY <1>5, <3>1, <3>2, <3>4
  <2> QED BY <2>1, <2>2
<1>10. \A k \in 0 .. (n + 1) - 1 : k \in 0 .. n
    BY <1>1
<1>11. Arriving(t, more)
    BY <1>1, <1>6, <1>8, <1>9, <1>10 DEF Arriving
<1> QED BY <1>5, <1>11 DEF n, t, w

\* send_message puts a frame behind all others
LEMMA StreamSend ==
    ASSUME StreamInv, NEW m \in Messages, send_message(m)
    PROVE  StreamInv'
<1> DEFINE n == Len(sent)
           w == Written(m)
           t == Append(sent, m)
<1>1. /\ peer = "open" /\ sent' = t /\ stream' = stream \o w
      /\ UNCHANGED <<peer, reading, header, handed>>
    BY DEF send_message, Written, Encoded
<1>2. PICK after, k, lost : Reached(sent, after, k, lost, stream, peer, reading, header, handed)
    BY <1>1 DEF StreamInv
<1>3. /\ Arriving(sent, after) /\ k \in 0 .. n /\ lost = <<>> /\ handed = GenuineIn(sent)[k]
      /\ reading = "header" => after[k] = stream \o <<>>
      /\ reading = "payload" => /\ k < n /\ header = HeadBytes(sent[k + 1])
                                /\ Encoded(sent[k + 1]) \o after[k + 1] = stream \o <<>>
    BY <1>1, <1>2 DEF Reached
<1>4. sent \in Seq(Messages) /\ stream \in Bytes
    BY DEF StreamInv, StreamTypeOK
<1>5. /\ n \in Nat /\ t \in Seq(Messages) /\ Len(t) = n + 1 /\ \A j \in 1 .. n : t[j] = sent[j]
      /\ \A j \in 1 .. n : sent[j] \in Messages
    BY <1>4
<1>6. w \in Bytes /\ <<>> \in Bytes
  <2>1. <<>> \in Bytes
      BY DEF Bytes
  <2> QED BY <2>1, WrittenParts
<1> DEFINE more == [j \in 0 .. n + 1 |-> IF j = n + 1 THEN <<>> ELSE after[j] \o w]
<1>7. Arriving(t, more) /\ \A j \in 0 .. n : more[j] = after[j] \o w
    BY <1>3, <1>4, ArrivingMore
<1>8. handed = GenuineIn(t)[k]
    BY <1>3, <1>4, GenuineKept
<1> HIDE DEF more, w, t, n
<1>9. /\ stream \o <<>> = stream /\ stream \o w \in Bytes
      /\ (stream \o w) \o <<>> = stream \o w
    BY <1>4, <1>6, CatBytes, CatEmpty
<1>10. reading = "header" => more[k] = (stream \o w) \o <<>>
    BY <1>3, <1>7, <1>9
<1>11. ASSUME reading = "payload"
       PROVE  /\ k < n + 1 /\ header = HeadBytes(t[k + 1])
              /\ Encoded(t[k + 1]) \o more[k + 1] = (stream \o w) \o <<>>
  <2>1. k + 1 \in 1 .. n /\ k + 1 \in 0 .. n /\ k < n + 1
      BY <1>3, <1>5, <1>11
  <2>2. t[k + 1] = sent[k + 1] /\ sent[k + 1] \in Messages /\ more[k + 1] = after[k + 1] \o w
      BY <1>5, <1>7, <2>1
  <2>3. after[k + 1] \in Bytes /\ Encoded(sent[k + 1]) \in Bytes
      BY <1>3, <2>1, <2>2, WrittenParts DEF Arriving, n
  <2>4. Encoded(sent[k + 1]) \o (after[k + 1] \o w) = (Encoded(sent[k + 1]) \o after[k + 1]) \o w
      BY <1>6, <2>3, CatAssociative
  <2>5. Encoded(sent[k + 1]) \o after[k + 1] = stream
      BY <1>3, <1>9, <1>11
  <2> QED BY <1>3, <1>9, <1>11, <2>1, <2>2, <2>4, <2>5
<1>12. k \in 0 .. Len(t)
    BY <1>3, <1>5
<1>13. Reached(t, more, k, <<>>, stream \o w, peer, reading, header, handed)
    BY <1>5, <1>6, <1>7, <1>8, <1>10, <1>11, <1>12 DEF Reached
<1>14. Reached(sent', more, k, <<>>, stream', peer', reading', header', handed')
    BY <1>1, <1>13
<1>15. StreamTypeOK'
    BY <1>1, <1>5, <1>9 DEF StreamInv, StreamTypeOK
<1> QED BY <1>1, <1>14, <1>15 DEF StreamInv

\* the bytes that never arrive are the last ones
LEMMA StreamDies ==
    ASSUME StreamInv, NEW n \in 0 .. Len(stream), PeerDies(n)
    PROVE  StreamInv'
<1>1. /\ peer = "open" /\ peer' = "gone" /\ stream' = SubSeq(stream, 1, n)
      /\ UNCHANGED <<sent, reading, header, handed>>
    BY DEF PeerDies
<1>2. PICK after, k, lost : Reached(sent, after, k, lost, stream, peer, reading, header, handed)
    BY <1>1 DEF StreamInv
<1>3. stream \in Bytes /\ lost = <<>>
    BY <1>1, <1>2 DEF StreamInv, StreamTypeOK, Reached
<1>4. /\ SubSeq(stream, 1, n) \in Bytes /\ From(stream, n) \in Bytes
      /\ stream = SubSeq(stream, 1, n) \o From(stream, n) /\ stream \o <<>> = stream
    BY <1>3, SplitBytes, CatEmpty
<1>5. Reached(sent, after, k, From(stream, n), SubSeq(stream, 1, n), "gone", reading, header,
              handed)
    BY <1>2, <1>3, <1>4 DEF Reached
<1>6. Reached(sent', after, k, From(stream, n), stream', peer', reading', header', handed')
    BY <1>1, <1>5
<1>7. StreamTypeOK'
    BY <1>1, <1>4 DEF StreamInv, StreamTypeOK
<1> QED BY <1>1, <1>6, <1>7 DEF StreamInv

LEMMA ForeignNumbers ==
    ASSUME NEW magic \in {0, 1}, NEW version \in {1, 2}
    PROVE  /\ HeaderNumbers(magic, version, HEARTBEAT, 1, 0)
           /\ ForeignHead(magic, version) \in Bytes
           /\ Len(ForeignHead(magic, version)) = HeaderSize
<1>1. /\ magic \in 0 .. Base - 1 /\ version \in 0 .. Base - 1 /\ HEARTBEAT \in 0 .. Base - 1
      /\ 1 \in 0 .. Base - 1 /\ 0 \in 0 .. Base - 1 /\ 4 \in Nat \ {0}
    BY WireAssumption DEF HEARTBEAT
<1>2. Fits(4, 1)
    BY <1>1, SmallFits, Zenon
<1>3. HeaderNumbers(magic, version, HEARTBEAT, 1, 0)
    BY <1>1, <1>2 DEF HeaderNumbers
<1> QED BY <1>3, HeaderLength DEF ForeignHead

LEMMA ForeignRead ==
    ASSUME NEW magic \in {0, 1}, NEW version \in {1, 2}, NEW x \in Bytes
    PROVE  LET hd == Header(ForeignHead(magic, version) \o x)
           IN  /\ hd.is_valid <=> magic = Magic /\ version = Version
               /\ hd.size = 1 /\ hd.checksum = 0
<1>1. HeaderNumbers(magic, version, HEARTBEAT, 1, 0)
    BY ForeignNumbers
<1> QED BY <1>1, HeaderReadBack DEF ForeignHead

LEMMA StreamForeign ==
    ASSUME StreamInv, NEW h \in {<<0, Version>>, <<Magic, 2>>, <<Magic, Version>>},
           Foreign(h[1], h[2])
    PROVE  StreamInv'
<1>1. /\ peer = "open" /\ sent = <<>> /\ peer' = "foreign"
      /\ stream' = ForeignHead(h[1], h[2]) \o <<1>>
      /\ UNCHANGED <<sent, reading, header, handed>>
    BY DEF Foreign, ForeignHead, HeaderBytes, HeaderOf
<1>2. h[1] \in {0, 1} /\ h[2] \in {1, 2}
    BY DEF Magic, Version
<1>3. PICK after, k, lost : Reached(sent, after, k, lost, stream, peer, reading, header, handed)
    BY <1>1 DEF StreamInv
<1>4. k = 0 /\ reading # "payload" /\ handed = GenuineIn(<<>>)[k]
  <2>1. Len(sent) = 0 /\ k \in 0 .. Len(sent)
      BY <1>1, <1>3 DEF Reached
  <2>2. reading = "payload" => k < Len(sent)
      BY <1>3 DEF Reached
  <2> QED BY <1>1, <1>3, <2>1, <2>2 DEF Reached
<1>5. handed = <<>>
  <2>1. <<>> \in Seq(Messages)
      OBVIOUS
  <2> QED BY <1>4, <2>1, GenuineSteps
<1>6. ForeignHead(h[1], h[2]) \o <<1>> \in Bytes
  <2>1. <<1>> \in Bytes
      BY DEF Bytes, Byte
  <2> QED BY <1>2, <2>1, ForeignNumbers, CatBytes
<1>7. Strange(sent, ForeignHead(h[1], h[2]) \o <<1>>, reading, header, handed)
    BY <1>1, <1>2, <1>4, <1>5 DEF Strange
<1>8. Strange(sent', stream', reading', header', handed')
    BY <1>1, <1>7
<1>9. StreamTypeOK'
    BY <1>1, <1>6 DEF StreamInv, StreamTypeOK
<1> QED BY <1>1, <1>8, <1>9 DEF StreamInv

-----------------------------------------------------------------------------
(* The io thread. *)

\* the message whose header has arrived
AtMessage(m, after, lost, st, z) ==
    /\ m \in Messages /\ z \in Bytes /\ st = HeadBytes(m) \o z
    /\ Encoded(m) \o after = z \o lost
    /\ SubSeq(st, 1, HeaderSize) = HeadBytes(m) /\ From(st, HeaderSize) = z
    /\ ReadsHead(Header(st), m.type, Encoded(m))

\* a whole header that came is the header of the next message
LEMMA NextMessage ==
    ASSUME NEW s \in Seq(Messages), NEW after, NEW k, NEW lost, NEW st \in Bytes,
           NEW p, NEW hd, NEW hn, Reached(s, after, k, lost, st, p, "header", hd, hn),
           Len(st) >= HeaderSize
    PROVE  k < Len(s) /\ \E z : AtMessage(s[k + 1], after[k + 1], lost, st, z)
<1> DEFINE n == Len(s)
           m == s[k + 1]
<1>1. /\ Arriving(s, after) /\ k \in 0 .. n /\ lost \in Bytes /\ after[k] = st \o lost
      /\ n \in Nat
    BY DEF Reached
<1>2. k # n
  <2> SUFFICES ASSUME k = n PROVE FALSE
      OBVIOUS
  <2>1. st \o lost = <<>>
      BY <1>1 DEF Arriving
  <2>2. Len(st \o lost) = Len(st) + Len(lost) /\ Len(st) \in Nat /\ Len(lost) \in Nat
      BY <1>1, CatBytes, LenOfBytes
  <2>3. Len(st \o lost) = 0
      BY <2>1
  <2> QED BY <2>2, <2>3 DEF HeaderSize
<1>3. k \in 0 .. n - 1 /\ k + 1 \in 1 .. n /\ k + 1 \in 0 .. n /\ k < n
    BY <1>1, <1>2
<1>4. m \in Messages /\ after[k + 1] \in Bytes /\ after[k] = Written(m) \o after[k + 1]
  <2>1. m \in Messages
      BY <1>3
  <2>2. after[k + 1] \in Bytes
      BY <1>1, <1>3 DEF Arriving
  <2>3. after[k] = Written(m) \o after[k + 1]
      BY <1>1, <1>3 DEF Arriving
  <2> QED BY <2>1, <2>2, <2>3
<1> HIDE DEF m, n
<1> DEFINE a == after[k + 1]
           h == HeadBytes(m)
           e == Encoded(m)
<1>5. /\ h \in Bytes /\ e \in Bytes /\ Len(h) = HeaderSize /\ Written(m) = h \o e
      /\ \A x \in Bytes : ReadsHead(Header(h \o x), m.type, e)
    BY <1>4, WrittenParts
<1>6. a \in Bytes /\ (h \o e) \o a = st \o lost
    BY <1>1, <1>4, <1>5
<1> HIDE DEF a, h, e
<1>7. h \o (e \o a) = st \o lost /\ e \o a \in Bytes
  <2>1. (h \o e) \o a = h \o (e \o a)
      BY <1>5, <1>6, CatAssociative
  <2>2. e \o a \in Bytes
      BY <1>5, <1>6, CatBytes
  <2> QED BY <1>6, <2>1, <2>2
<1>8. PICK z \in Bytes : FrontOf(h, e \o a, st, lost, z)
  <2> DEFINE b == e \o a
  <2>1. h \in Bytes /\ b \in Bytes /\ h \o b = st \o lost /\ Len(st) >= Len(h)
      BY <1>5, <1>7
  <2> HIDE DEF b
  <2>2. \E z \in Bytes : FrontOf(h, b, st, lost, z)
      BY <1>1, <2>1, TakesFront
  <2> QED BY <2>2 DEF b
<1>9. ReadsHead(Header(st), m.type, e)
    BY <1>5, <1>8 DEF FrontOf
<1>10. AtMessage(m, a, lost, st, z)
    BY <1>4, <1>5, <1>8, <1>9 DEF AtMessage, FrontOf, h, e
<1> QED BY <1>3, <1>10 DEF m, n, a

\* the message that is handed over is the next that is due
LEMMA HandedNext ==
    ASSUME NEW s \in Seq(Messages), NEW k \in 0 .. Len(s) - 1, handed = GenuineIn(s)[k],
           handle_message(s[k + 1].type, Encoded(s[k + 1]))
    PROVE  handed' = GenuineIn(s)[k + 1]
<1> DEFINE m == s[k + 1]
<1>1. k + 1 \in 1 .. Len(s) /\ (k + 1) - 1 = k
    OBVIOUS
<1>2. m \in Messages
    BY <1>1
<1>3. GenuineIn(s)[k + 1] = Handled(GenuineIn(s)[k], m)
    BY <1>1, GenuineSteps
<1> HIDE DEF m
<1>4. handed' = Handled(handed, m)
    BY <1>2, HandledAs DEF handle_message, m
<1> QED BY <1>3, <1>4

\* do_read_header: to the payload, or past a message without one
LEMMA StreamReadHeader ==
    ASSUME StreamInv, do_read_header, peer # "foreign"
    PROVE  StreamInv'
<1>1. PICK after, k, lost : Reached(sent, after, k, lost, stream, peer, reading, header, handed)
    BY DEF StreamInv
<1>2. sent \in Seq(Messages) /\ stream \in Bytes /\ Len(sent) \in Nat
    BY DEF StreamInv, StreamTypeOK
<1>3. /\ reading = "header" /\ Len(stream) >= HeaderSize
      /\ header' = SubSeq(stream, 1, HeaderSize) /\ stream' = From(stream, HeaderSize)
      /\ sent' = sent /\ peer' = peer
    BY DEF do_read_header, HeaderRead
<1>4. Reached(sent, after, k, lost, stream, peer, "header", header, handed)
    BY <1>1, <1>3
<1> DEFINE m == sent[k + 1]
<1>5. k < Len(sent) /\ \E z : AtMessage(m, after[k + 1], lost, stream, z)
    BY <1>2, <1>3, <1>4, NextMessage
<1>6. PICK z : AtMessage(m, after[k + 1], lost, stream, z)
    BY <1>5
<1>7. /\ Arriving(sent, after) /\ k \in 0 .. Len(sent) /\ lost \in Bytes
      /\ handed = GenuineIn(sent)[k] /\ (peer = "open" => lost = <<>>)
    BY <1>1 DEF Reached
<1>8. /\ header' = HeadBytes(m) /\ stream' = z /\ z \in Bytes /\ m \in Messages
      /\ Encoded(m) \o after[k + 1] = z \o lost
      /\ Header(stream).type = m.type /\ Header(stream).size = Len(Encoded(m))
    BY <1>3, <1>6 DEF AtMessage, ReadsHead
<1>9. k \in 0 .. Len(sent) - 1 /\ k + 1 \in 0 .. Len(sent)
    BY <1>2, <1>5, <1>7
<1>10. CASE Header(stream).size > 0
  <2>1. reading' = "payload" /\ handed' = handed
      BY <1>10 DEF do_read_header
  <2>2. Reached(sent, after, k, lost, z, peer, "payload", HeadBytes(m), handed)
      BY <1>5, <1>7, <1>8 DEF Reached
  <2>3. Reached(sent', after, k, lost, stream', peer', reading', header', handed')
      BY <1>3, <1>8, <2>1, <2>2
  <2>4. StreamTypeOK'
      BY <1>2, <1>3, <1>8, <2>1 DEF StreamInv, StreamTypeOK
  <2> QED BY <1>3, <2>3, <2>4 DEF StreamInv
<1>11. CASE ~(Header(stream).size > 0)
  <2>1. reading' = reading /\ handle_message(Header(stream).type, <<>>)
      BY <1>11 DEF do_read_header
  <2>2. Encoded(m) \in Bytes /\ Len(Encoded(m)) \in Nat
      BY <1>8, WrittenParts
  <2>3. Encoded(m) = <<>>
      BY <1>8, <1>11, <2>2, LenOfBytes
  <2>4. handle_message(m.type, Encoded(m))
      BY <1>8, <2>1, <2>3
  <2>5. handed' = GenuineIn(sent)[k + 1]
      BY <1>2, <1>7, <1>9, <2>4, HandedNext
  <2>6. after[k + 1] = z \o lost
    <3>1. after[k + 1] \in Bytes
        BY <1>7, <1>9 DEF Arriving
    <3>2. <<>> \o after[k + 1] = after[k + 1]
        BY <3>1, CatEmpty
    <3> QED BY <1>8, <2>3, <3>2
  <2>7. Reached(sent, after, k + 1, lost, z, peer, "header", HeadBytes(m), GenuineIn(sent)[k + 1])
      BY <1>7, <1>9, <2>6 DEF Reached
  <2>8. Reached(sent', after, k + 1, lost, stream', peer', reading', header', handed')
      BY <1>3, <1>8, <2>1, <2>5, <2>7
  <2>9. StreamTypeOK'
      BY <1>2, <1>3, <1>8, <2>1 DEF StreamInv, StreamTypeOK
  <2> QED BY <1>3, <2>8, <2>9 DEF StreamInv
<1> QED BY <1>10, <1>11

\* do_read_payload: past the message, which its handler gets
LEMMA StreamReadPayload ==
    ASSUME StreamInv, do_read_payload, peer # "foreign"
    PROVE  StreamInv'
<1>1. PICK after, k, lost : Reached(sent, after, k, lost, stream, peer, reading, header, handed)
    BY DEF StreamInv
<1>2. sent \in Seq(Messages) /\ stream \in Bytes /\ Len(sent) \in Nat
    BY DEF StreamInv, StreamTypeOK
<1>3. /\ reading = "payload" /\ Len(stream) >= Header(header).size
      /\ stream' = From(stream, Header(header).size) /\ reading' = "header"
      /\ handle_message(Header(header).type, SubSeq(stream, 1, Header(header).size))
      /\ sent' = sent /\ peer' = peer /\ header' = header
    BY DEF do_read_payload, Payload
<1> DEFINE m == sent[k + 1]
           e == Encoded(m)
           a == after[k + 1]
<1>4. /\ Arriving(sent, after) /\ k \in 0 .. Len(sent) /\ lost \in Bytes
      /\ handed = GenuineIn(sent)[k] /\ (peer = "open" => lost = <<>>)
      /\ k < Len(sent) /\ header = HeadBytes(m) /\ e \o a = stream \o lost
    BY <1>1, <1>3 DEF Reached
<1>5. k \in 0 .. Len(sent) - 1 /\ k + 1 \in 0 .. Len(sent) /\ k + 1 \in 1 .. Len(sent)
    BY <1>2, <1>4
<1>6. m \in Messages /\ a \in Bytes
    BY <1>2, <1>4, <1>5 DEF Arriving
<1> HIDE DEF m
<1>7. e \in Bytes /\ Header(header).type = m.type /\ Header(header).size = Len(e)
    BY <1>4, <1>6, WrittenParts DEF ReadsHead
<1> HIDE DEF e, a
<1>8. PICK z \in Bytes : /\ a = z \o lost /\ SubSeq(stream, 1, Len(e)) = e
                         /\ From(stream, Len(e)) = z
  <2>1. Len(stream) >= Len(e)
      BY <1>3, <1>7
  <2>2. \E z \in Bytes : FrontOf(e, a, stream, lost, z)
      BY <1>2, <1>4, <1>6, <1>7, <2>1, TakesFront
  <2> QED BY <2>2 DEF FrontOf
<1>9. stream' = z /\ handle_message(m.type, e)
    BY <1>3, <1>7, <1>8
<1>10. handed' = GenuineIn(sent)[k + 1]
    BY <1>2, <1>4, <1>5, <1>9, HandedNext DEF m, e
<1>11. Reached(sent, after, k + 1, lost, z, peer, "header", header, GenuineIn(sent)[k + 1])
    BY <1>4, <1>5, <1>8 DEF Reached, a
<1>12. Reached(sent', after, k + 1, lost, stream', peer', reading', header', handed')
    BY <1>3, <1>9, <1>10, <1>11
<1>13. StreamTypeOK'
    BY <1>2, <1>3, <1>9 DEF StreamInv, StreamTypeOK
<1> QED BY <1>3, <1>12, <1>13 DEF StreamInv

\* whatever closes the connection, nothing more is handed over
LEMMA StreamCloses ==
    ASSUME StreamInv, Close, stream' = stream
    PROVE  StreamInv'
<1>1. reading' = "closed" /\ sent' = sent /\ peer' = peer /\ handed' = handed
    BY DEF Close
<1>2. StreamTypeOK'
    BY <1>1 DEF StreamInv, StreamTypeOK
<1>3. CASE peer = "foreign"
  <2>1. Strange(sent, stream, reading, header, handed)
      BY <1>3 DEF StreamInv
  <2>2. Strange(sent, stream, "closed", header', handed)
      BY <2>1 DEF Strange
  <2>3. Strange(sent', stream', reading', header', handed')
      BY <1>1, <2>2
  <2> QED BY <1>1, <1>2, <1>3, <2>3 DEF StreamInv
<1>4. CASE peer # "foreign"
  <2>1. PICK after, k, lost : Reached(sent, after, k, lost, stream, peer, reading, header, handed)
      BY <1>4 DEF StreamInv
  <2>2. Reached(sent, after, k, lost, stream, peer, "closed", header', handed)
      BY <2>1 DEF Reached
  <2>3. Reached(sent', after, k, lost, stream', peer', reading', header', handed')
      BY <1>1, <2>2
  <2> QED BY <1>1, <1>2, <1>4, <2>3 DEF StreamInv
<1> QED BY <1>3, <1>4

\* the checksum of a foreign payload is wrong
LEMMA CrcOfOne == Crc(<<1>>) = 1
<1>1. DOMAIN <<1>> = {1} /\ <<1>>[1] = 1
    OBVIOUS
<1>2. {i \in DOMAIN <<1>> : <<1>>[i] % 2 = 1} = {1}
    BY <1>1
<1>3. Cardinality({1}) = 1
    BY FS_Singleton
<1>4. 1 % Base = 1
    BY WireAssumption
<1> QED BY <1>2, <1>3, <1>4 DEF Crc

\* a foreign peer gets as far as its payload, whose checksum is wrong
LEMMA StreamReadForeign ==
    ASSUME StreamInv, peer = "foreign", do_read_header \/ do_read_payload
    PROVE  StreamInv'
<1>0. Strange(sent, stream, reading, header, handed) /\ Magic = 1 /\ Version = 1
    BY DEF StreamInv, Magic, Version
<1>00. <<1>> \in Bytes /\ <<>> \in Bytes
    BY DEF Bytes, Byte
<1>1. CASE do_read_header
  <2>1. PICK magic \in {0, 1}, version \in {1, 2} : stream = ForeignHead(magic, version) \o <<1>>
      BY <1>0, <1>1 DEF Strange, do_read_header, HeaderRead
  <2> DEFINE h == ForeignHead(magic, version)
             hd == Header(stream)
  <2>2. /\ h \in Bytes /\ Len(h) = HeaderSize
        /\ hd.is_valid <=> magic = Magic /\ version = Version
        /\ hd.size = 1
      BY <1>00, <2>1, ForeignNumbers, ForeignRead
  <2> HIDE DEF hd
  <2>3. magic = Magic /\ version = Version
      BY <1>1, <2>2 DEF do_read_header, hd
  <2>4. /\ reading' = "payload" /\ handed' = handed /\ sent' = sent /\ peer' = peer
        /\ header' = SubSeq(stream, 1, HeaderSize) /\ stream' = From(stream, HeaderSize)
      BY <1>1, <2>2 DEF do_read_header, hd
  <2>5. SubSeq(h \o <<1>>, 1, Len(h)) = h /\ From(h \o <<1>>, Len(h)) = <<1>>
    <3> HIDE DEF h
    <3> QED BY <1>00, <2>2, CatParts
  <2>6. header' = ForeignHead(Magic, Version) /\ stream' = <<1>>
      BY <2>1, <2>2, <2>3, <2>4, <2>5
  <2>7. Strange(sent, <<1>>, "payload", ForeignHead(Magic, Version), handed)
      BY <1>0 DEF Strange
  <2>8. Strange(sent', stream', reading', header', handed')
      BY <2>4, <2>6, <2>7
  <2>9. StreamTypeOK'
      BY <1>00, <2>4, <2>6 DEF StreamInv, StreamTypeOK
  <2> QED BY <2>4, <2>8, <2>9 DEF StreamInv
<1>2. CASE do_read_payload
  <2> DEFINE hd == Header(header)
             h == ForeignHead(Magic, Version)
  <2>1. header = h /\ stream = <<1>>
      BY <1>0, <1>2 DEF Strange, do_read_payload
  <2>2. Magic \in {0, 1} /\ Version \in {1, 2}
      BY <1>0
  <2>3. HeaderNumbers(Magic, Version, HEARTBEAT, 1, 0) /\ h \in Bytes
      BY <2>2, ForeignNumbers
  <2>4. h \o <<>> = h
    <3> HIDE DEF h
    <3> QED BY <2>3, CatEmpty
  <2>5. Header(h \o <<>>).size = 1 /\ Header(h \o <<>>).checksum = 0
      BY <1>00, <2>2, ForeignRead, ZenonT(60)
  <2>6. hd.size = 1 /\ hd.checksum = 0
      BY <2>1, <2>4, <2>5
  <2>7. SubSeq(<<1>>, 1, 1) = <<1>>
    <3>1. Len(<<1>>) = 1 /\ <<1>> \in Bytes /\ <<1>> \o <<>> = <<1>>
        BY <1>00, CatEmpty
    <3>2. SubSeq(<<1>> \o <<>>, 1, Len(<<1>>)) = <<1>>
        BY <1>00, <3>1, CatParts
    <3> QED BY <3>1, <3>2
  <2> HIDE DEF hd
  <2>8. Payload = <<1>>
      BY <2>1, <2>6, <2>7 DEF Payload, hd
  <2>9. verify_checksum(hd, Payload)
      BY <1>2 DEF do_read_payload, hd
  <2> QED BY <2>6, <2>8, <2>9, CrcOfOne DEF verify_checksum
<1> QED BY <1>1, <1>2

LEMMA StreamStep == StreamInv /\ [StreamNext]_streamVars => StreamInv'
<1> SUFFICES ASSUME StreamInv, [StreamNext]_streamVars PROVE StreamInv'
    OBVIOUS
<1>1. CASE \E m \in Messages : send_message(m)
    BY <1>1, StreamSend
<1>2. CASE \E n \in 0 .. Len(stream) : PeerDies(n)
    BY <1>2, StreamDies
<1>3. CASE \E h \in {<<0, Version>>, <<Magic, 2>>, <<Magic, Version>>} : Foreign(h[1], h[2])
    BY <1>3, StreamForeign
<1>4. CASE do_read_header
    BY <1>4, StreamReadHeader, StreamReadForeign
<1>5. CASE do_read_payload
    BY <1>5, StreamReadPayload, StreamReadForeign
<1>6. CASE RejectHeader \/ RejectPayload \/ EndOfStream
  <2>1. Close /\ stream' = stream
      BY <1>6 DEF RejectHeader, RejectPayload, EndOfStream
  <2> QED BY <2>1, StreamCloses
<1>7. CASE UNCHANGED streamVars
    BY <1>7 DEF streamVars, StreamInv, StreamTypeOK
<1> QED BY <1>1, <1>2, <1>3, <1>4, <1>5, <1>6, <1>7 DEF StreamNext, Read

LEMMA StreamSafe == StreamInv => HandedAsSent
<1> SUFFICES ASSUME StreamInv PROVE HandedAsSent
    OBVIOUS
<1>1. sent \in Seq(Messages) /\ stream \in Bytes /\ Len(sent) \in Nat
    BY DEF StreamInv, StreamTypeOK
<1>2. CASE peer = "foreign"
  <2>1. sent = <<>> /\ handed = <<>>
      BY <1>2 DEF StreamInv, Strange
  <2>2. Len(sent) = 0 /\ GenuineIn(sent)[0] = <<>>
      BY <1>1, <2>1, GenuineSteps
  <2>3. IsPrefix(<<>>, <<>>)
      BY DEF IsPrefix
  <2> QED BY <1>2, <2>1, <2>2, <2>3 DEF HandedAsSent, GenuineSent
<1>3. CASE peer # "foreign"
  <2>1. PICK after, k, lost : Reached(sent, after, k, lost, stream, peer, reading, header, handed)
      BY <1>3 DEF StreamInv
  <2>2. k \in 0 .. Len(sent) /\ handed = GenuineIn(sent)[k] /\ Arriving(sent, after)
      BY <2>1 DEF Reached
  <2>3. IsPrefix(handed, GenuineSent)
      BY <1>1, <2>2, GenuinePrefix DEF GenuineSent
  <2>4. ASSUME stream = <<>>, reading = "header", peer = "open"
        PROVE  k = Len(sent)
    <3> SUFFICES ASSUME k # Len(sent) PROVE FALSE
        OBVIOUS
    <3>1. after[k] = <<>>
        BY <2>1, <2>4 DEF Reached
    <3>2. k \in 0 .. Len(sent) - 1 /\ k + 1 \in 1 .. Len(sent) /\ k + 1 \in 0 .. Len(sent)
        BY <1>1, <2>2
    <3>3. /\ sent[k + 1] \in Messages /\ after[k + 1] \in Bytes
          /\ after[k] = Written(sent[k + 1]) \o after[k + 1]
      <4>1. sent[k + 1] \in Messages
          BY <1>1, <3>2
      <4>2. after[k + 1] \in Bytes
          BY <2>2, <3>2 DEF Arriving
      <4>3. after[k] = Written(sent[k + 1]) \o after[k + 1]
          BY <2>2, <3>2 DEF Arriving
      <4> QED BY <4>1, <4>2, <4>3
    <3> DEFINE w == Written(sent[k + 1])
               a == after[k + 1]
    <3>4. w \in Bytes /\ Len(w) >= HeaderSize
        BY <3>3, WrittenParts
    <3> HIDE DEF w
    <3>5. Len(w \o a) = Len(w) + Len(a) /\ Len(a) \in Nat /\ Len(w) \in Nat
        BY <3>3, <3>4, CatBytes, LenOfBytes
    <3>6. Len(w \o a) = 0
      <4>1. w \o a = <<>>
          BY <3>1, <3>3, Zenon DEF w
      <4> QED BY <4>1
    <3> QED BY <3>4, <3>5, <3>6 DEF HeaderSize
  <2> QED BY <2>2, <2>3, <2>4 DEF HandedAsSent, GenuineSent
<1> QED BY <1>2, <1>3

(***************************************************************************)
(* The handlers are called with what the peer sent, value for value and in *)
(* order, and with all of it once everything was read, for every set of    *)
(* messages, number of messages, place where the connection breaks and     *)
(* payload limit.                                                          *)
(***************************************************************************)
THEOREM HandlersGetWhatWasSent == StreamSpec => []HandedAsSent
BY StreamStarts, StreamStep, StreamSafe, PTL DEF StreamSpec

-----------------------------------------------------------------------------
(* The refinement of Channel. *)

LEMMA HandedCalls ==
    StreamInv => handed \in Seq(Calls) /\ GenuineSent \in Seq(Calls) /\ sent \in Seq(Messages)
<1> SUFFICES ASSUME StreamInv
             PROVE  handed \in Seq(Calls) /\ GenuineSent \in Seq(Calls)
    BY DEF StreamInv, StreamTypeOK
<1>1. sent \in Seq(Messages) /\ Len(sent) \in Nat /\ Len(sent) \in 0 .. Len(sent)
    BY DEF StreamInv, StreamTypeOK
<1>2. GenuineIn(sent) \in [0 .. Len(sent) -> Seq(Calls)]
    BY <1>1, GenuineSteps
<1>3. GenuineSent \in Seq(Calls)
    BY <1>1, <1>2 DEF GenuineSent
<1>4. CASE peer = "foreign"
    BY <1>3, <1>4 DEF StreamInv, Strange
<1>5. CASE peer # "foreign"
  <2>1. PICK k \in 0 .. Len(sent) : handed = GenuineIn(sent)[k]
      BY <1>5 DEF StreamInv, Reached
  <2> QED BY <1>2, <1>3, <2>1
<1> QED BY <1>4, <1>5

\* what was appended to a prefix is the next of the whole
LEMMA PrefixNext ==
    ASSUME NEW a \in Seq(Calls), NEW b \in Seq(Calls), NEW x, IsPrefix(Append(a, x), b)
    PROVE  Len(a) < Len(b) /\ x = b[Len(a) + 1]
<1> DEFINE S == Calls \cup {x}
           c == Append(a, x)
           n == Len(a) + 1
<1>1. a \in Seq(S) /\ x \in S
    OBVIOUS
<1>2. c \in Seq(S) /\ Len(c) = n /\ c[n] = x /\ n \in Nat /\ n >= 1 /\ Len(a) \in Nat
    BY <1>1
<1>3. Len(b) \in Nat
    OBVIOUS
<1> HIDE DEF c, n, S
<1>4. n <= Len(b) /\ SubSeq(c, 1, n) = SubSeq(b, 1, n)
    BY <1>2 DEF IsPrefix, c
<1>5. SubSeq(c, 1, n)[n] = c[n]
    BY <1>2
<1>6. SubSeq(b, 1, n)[n] = b[n]
    BY <1>2, <1>3, <1>4
<1>7. x = b[n]
    BY <1>2, <1>4, <1>5, <1>6
<1> QED BY <1>2, <1>3, <1>4, <1>7 DEF n

LEMMA ChannelStep ==
    ASSUME StreamInv, [StreamNext]_streamVars, HandedAsSent', handed' \in Seq(Calls)
    PROVE  [ToHandlers!Next]_ToHandlers!vars
<1>0. handed \in Seq(Calls) /\ GenuineSent \in Seq(Calls) /\ sent \in Seq(Messages)
    BY HandedCalls
<1>1. ASSUME NEW m \in Messages, send_message(m)
      PROVE  [ToHandlers!Next]_ToHandlers!vars
  <2> DEFINE t == Append(sent, m)
             n == Len(sent)
  <2>1. handed' = handed /\ sent' = t
      BY <1>1 DEF send_message
  <2>2. t \in Seq(Messages) /\ Len(t) = n + 1 /\ n \in Nat /\ t[n + 1] = m /\ n + 1 \in 1 .. n + 1
        /\ (n + 1) - 1 = n /\ n \in 0 .. n
      BY <1>0
  <2>3. GenuineIn(t)[n] = GenuineIn(sent)[n]
      BY <1>0, <2>2, GenuineKept
  <2> HIDE DEF t, n
  <2>4. GenuineIn(t)[n + 1] = Handled(GenuineIn(t)[n], m)
      BY <2>2, GenuineSteps
  <2>5. GenuineSent' = Handled(GenuineSent, m)
      BY <2>1, <2>2, <2>3, <2>4 DEF GenuineSent, n
  <2>6. Genuine(m) => <<m.type, m.value>> \in Calls
      BY DEF Calls
  <2>7. CASE Genuine(m)
      BY <2>1, <2>5, <2>6, <2>7 DEF Handled, ToHandlers!Next, ToHandlers!Put
  <2>8. CASE ~Genuine(m)
      BY <2>1, <2>5, <2>8 DEF Handled, ToHandlers!vars
  <2> QED BY <2>7, <2>8
<1>2. CASE handed' = handed /\ sent' = sent
    BY <1>2 DEF ToHandlers!vars, GenuineSent
<1>3. ASSUME NEW type, NEW payload, handle_message(type, payload), sent' = sent
      PROVE  [ToHandlers!Next]_ToHandlers!vars
  <2>1. CASE handed' = handed
      BY <1>2, <1>3, <2>1
  <2>2. CASE handed' # handed
    <3>1. PICK x : handed' = Append(handed, x)
        BY <1>3, <2>2 DEF handle_message
    <3>2. GenuineSent' = GenuineSent
        BY <1>3 DEF GenuineSent
    <3>3. IsPrefix(Append(handed, x), GenuineSent)
        BY <3>1, <3>2 DEF HandedAsSent
    <3>4. Len(handed) < Len(GenuineSent) /\ x = GenuineSent[Len(handed) + 1]
        BY <1>0, <3>3, PrefixNext
    <3>5. ToHandlers!Get
        BY <3>1, <3>2, <3>4 DEF ToHandlers!Get
    <3> QED BY <3>5 DEF ToHandlers!Next
  <2> QED BY <2>1, <2>2
<1>4. CASE \E n \in 0 .. Len(stream) : PeerDies(n)
    BY <1>2, <1>4 DEF PeerDies
<1>5. CASE \E h \in {<<0, Version>>, <<Magic, 2>>, <<Magic, Version>>} : Foreign(h[1], h[2])
    BY <1>2, <1>5 DEF Foreign
<1>6. CASE do_read_header
    BY <1>2, <1>3, <1>6 DEF do_read_header
<1>7. CASE do_read_payload
    BY <1>3, <1>7 DEF do_read_payload
<1>8. CASE RejectHeader \/ RejectPayload \/ EndOfStream
    BY <1>2, <1>8 DEF RejectHeader, RejectPayload, EndOfStream, Close
<1>9. CASE UNCHANGED streamVars
    BY <1>2, <1>9 DEF streamVars
<1> QED BY <1>1, <1>4, <1>5, <1>6, <1>7, <1>8, <1>9 DEF StreamNext, Read

(***************************************************************************)
(* A connection implements a channel to the handlers: every step of the    *)
(* sender, of TCP and of Connection's readers puts a message in, takes the *)
(* next one out, or does neither, and none is ever taken back.             *)
(***************************************************************************)
THEOREM ConnectionIsAChannel == StreamSpec => ChannelSpec
<1>1. StreamInit => ToHandlers!Init
  <2> SUFFICES ASSUME StreamInit PROVE ToHandlers!Init
      OBVIOUS
  <2>1. <<>> \in Seq(Messages) /\ Len(<<>>) = 0
      OBVIOUS
  <2>2. GenuineIn(<<>>)[0] = <<>>
      BY <2>1, GenuineSteps
  <2> QED BY <2>1, <2>2 DEF StreamInit, GenuineSent, ToHandlers!Init
<1>2. /\ StreamInv /\ [StreamNext]_streamVars /\ HandedAsSent' /\ (handed \in Seq(Calls))'
      => [ToHandlers!Next]_ToHandlers!vars
    BY ChannelStep
<1>3. StreamInv => handed \in Seq(Calls)
    BY HandedCalls
<1> QED BY <1>1, <1>2, <1>3, StreamStarts, StreamStep, StreamSafe, PTL
    DEF StreamSpec, ChannelSpec, ToHandlers!Spec
=============================================================================
