--------------------------- MODULE TransfersProofs ---------------------------
(***************************************************************************)
(* Proofs about the table of sessions (TransferManager), the flow          *)
(* controllers (FlowController) and the token bucket (BandwidthLimiter).   *)
(***************************************************************************)
EXTENDS TransferManager, FlowController, BandwidthLimiter, FiniteSetTheorems, SequenceTheorems,
        NaturalsInduction, WellFoundedInduction, TLAPS

\* A non-empty set of naturals has a least element.
LEMMA LeastNatural ==
    ASSUME NEW T \in SUBSET Nat, T # {}
    PROVE  \E x \in T : \A y \in T : x <= y
<1>1. PICK x \in T : \A y \in T : <<y, x>> \notin OpToRel(<, Nat)
    BY NatLessThanWellFounded, WFMin
<1>2. \A y \in T : ~(y < x)
    BY <1>1 DEF OpToRel
<1> QED BY <1>2

-----------------------------------------------------------------------------
(***************************************************************************)
(* What the sum of TotalIsSum over the table adds up to.                   *)
(***************************************************************************)
\* the element of s that MapThenSumSet takes first
Some(s) == CHOOSE x \in s : TRUE

\* the fold of MapThenSumSet: what it gives for a set s of sessions, from a smaller set's sum
Adds(table, sum, s) == IF s = {} THEN 0 ELSE table[Some(s)].bytes + sum[s \ {Some(s)}]

Sums(table, sum) == sum = [s \in SUBSET DOMAIN table |-> Adds(table, sum, s)]

Summed(table) == CHOOSE sum : Sums(table, sum)

Total(table) == Summed(table)[DOMAIN table]

IsTable(table) ==
    /\ IsFiniteSet(DOMAIN table)
    /\ \A id \in DOMAIN table : table[id].bytes \in Nat

LEMMA TotalIsFold == TotalIsSum <=> total_bytes = retired + Total(active_sessions)
BY DEF TotalIsSum, MapThenSumSet, MapThenFoldSet, Total, Summed, Sums, Adds, Some, Ids

LEMMA TotalIsFoldNext == TotalIsSum' <=> total_bytes' = retired' + Total(active_sessions')
BY DEF TotalIsSum, MapThenSumSet, MapThenFoldSet, Total, Summed, Sums, Adds, Some, Ids

LEMMA SomeOf == ASSUME NEW s, s # {} PROVE Some(s) \in s
BY DEF Some

\* a subset without one of its elements
LEMMA OneLess ==
    ASSUME NEW D, IsFiniteSet(D), NEW s \in SUBSET D, NEW x \in s
    PROVE  /\ IsFiniteSet(s) /\ Cardinality(s) \in Nat /\ s \ {x} \in SUBSET D
           /\ Cardinality(s \ {x}) \in Nat /\ Cardinality(s \ {x}) = Cardinality(s) - 1
<1>1. IsFiniteSet(s)
    BY FS_Subset
<1>2. Cardinality(s) \in Nat
    BY <1>1, FS_CardinalityType
<1>3. IsFiniteSet(s \ {x}) /\ Cardinality(s \ {x}) = Cardinality(s) - 1
    BY <1>1, FS_RemoveElement
<1>4. Cardinality(s \ {x}) \in Nat
    BY <1>3, FS_CardinalityType
<1> QED BY <1>1, <1>2, <1>3, <1>4

(***************************************************************************)
(* The fold is defined: it is built set by set, the smaller sets first,    *)
(* and the least size for which it were not defined does not exist.        *)
(***************************************************************************)
LEMMA SummedExists ==
    ASSUME NEW table, IsTable(table)
    PROVE  Sums(table, Summed(table))
<1> DEFINE D == DOMAIN table
           UpTo(n) == {s \in SUBSET D : Cardinality(s) <= n}
           Until(n, sum) == sum = [s \in UpTo(n) |-> Adds(table, sum, s)]
           Bad == {n \in Nat : ~\E sum : Until(n, sum)}
<1>1. IsFiniteSet(D) /\ Cardinality(D) \in Nat
    BY FS_CardinalityType DEF IsTable
<1>2. \E sum : Until(0, sum)
  <2> DEFINE sum == [s \in UpTo(0) |-> 0]
  <2>1. ASSUME NEW s \in UpTo(0) PROVE s = {}
    <3>1. IsFiniteSet(s)
        BY <1>1, FS_Subset
    <3>2. Cardinality(s) \in Nat
        BY <3>1, FS_CardinalityType
    <3>3. Cardinality(s) = 0
        BY <3>2
    <3> QED BY <3>1, <3>3, FS_EmptySet
  <2>2. \A s \in UpTo(0) : Adds(table, sum, s) = 0
      BY <2>1 DEF Adds
  <2>3. Until(0, sum)
      BY <2>2, Zenon
  <2> QED BY <2>3
<1>3. ASSUME NEW n \in Nat, NEW g, Until(n, g) PROVE \E sum : Until(n + 1, sum)
  <2> DEFINE sum == [s \in UpTo(n + 1) |-> Adds(table, g, s)]
  <2>1. ASSUME NEW s \in UpTo(n) PROVE s \in UpTo(n + 1) /\ sum[s] = g[s]
    <3>1. IsFiniteSet(s)
        BY <1>1, FS_Subset
    <3>2. Cardinality(s) \in Nat
        BY <3>1, FS_CardinalityType
    <3>3. s \in UpTo(n + 1)
        BY <3>2
    <3>4. g[s] = Adds(table, g, s)
        BY <1>3, Zenon
    <3> QED BY <3>3, <3>4
  <2>2. ASSUME NEW s \in UpTo(n + 1) PROVE Adds(table, sum, s) = Adds(table, g, s)
    <3>1. CASE s = {}
        BY <3>1 DEF Adds
    <3>2. CASE s # {}
      <4>1. Some(s) \in s
          BY <3>2, SomeOf
      <4>2. s \ {Some(s)} \in UpTo(n)
          BY <1>1, <4>1, OneLess
      <4>3. sum[s \ {Some(s)}] = g[s \ {Some(s)}]
          BY <2>1, <4>2
      <4> HIDE DEF sum
      <4> QED BY <4>3 DEF Adds
    <3> QED BY <3>1, <3>2
  <2>3. Until(n + 1, sum)
      BY <2>2, Zenon
  <2> QED BY <2>3
<1>4. Bad = {}
  <2>1. SUFFICES ASSUME Bad # {} PROVE FALSE
      OBVIOUS
  <2>2. PICK n \in Bad : \A m \in Bad : n <= m
      BY <2>1, LeastNatural
  <2>3. n \in Nat /\ n # 0
      BY <1>2
  <2>4. n - 1 \in Nat /\ n - 1 \notin Bad
    <3>1. n - 1 \in Nat /\ n - 1 < n
        BY <2>3
    <3> HIDE DEF Bad
    <3> QED BY <2>2, <2>3, <3>1
  <2>5. PICK g : Until(n - 1, g)
      BY <2>4
  <2>6. \E sum : Until((n - 1) + 1, sum)
      BY <1>3, <2>4, <2>5
  <2>7. (n - 1) + 1 = n
      BY <2>3
  <2>8. \E sum : Until(n, sum)
      BY <2>6, <2>7
  <2> QED BY <2>8
<1>5. PICK sum : Until(Cardinality(D), sum)
    BY <1>1, <1>4
<1>6. UpTo(Cardinality(D)) = SUBSET D
  <2>1. \A s \in SUBSET D : Cardinality(s) <= Cardinality(D)
      BY <1>1, FS_Subset
  <2> QED BY <2>1
<1>7. Sums(table, sum)
    BY <1>5, <1>6 DEF Sums
<1> QED BY <1>7 DEF Summed

LEMMA SumOf ==
    ASSUME NEW table, IsTable(table), NEW s \in SUBSET DOMAIN table
    PROVE  /\ s = {} => Summed(table)[s] = 0
           /\ s # {} => Summed(table)[s] =
                           table[Some(s)].bytes + Summed(table)[s \ {Some(s)}]
<1>1. Summed(table)[s] = Adds(table, Summed(table), s)
  <2>1. Summed(table) = [r \in SUBSET DOMAIN table |-> Adds(table, Summed(table), r)]
      BY SummedExists DEF Sums
  <2> QED BY <2>1, Zenon
<1> QED BY <1>1 DEF Adds

LEMMA SumType ==
    ASSUME NEW table, IsTable(table), NEW r \in SUBSET DOMAIN table
    PROVE  Summed(table)[r] \in Nat
<1> DEFINE D == DOMAIN table
           sum == Summed(table)
           Bad == {n \in Nat : \E s \in SUBSET D : Cardinality(s) = n /\ sum[s] \notin Nat}
<1>1. IsFiniteSet(D)
    BY DEF IsTable
<1>2. Bad = {}
  <2>1. SUFFICES ASSUME Bad # {} PROVE FALSE
      OBVIOUS
  <2>2. PICK n \in Bad : \A m \in Bad : n <= m
      BY <2>1, LeastNatural
  <2>3. PICK s \in SUBSET D : Cardinality(s) = n /\ sum[s] \notin Nat
      BY <2>2
  <2>4. s # {}
    <3>1. s = {} => sum[s] = 0
        BY SumOf
    <3> HIDE DEF sum
    <3> QED BY <2>3, <3>1
  <2>5. Some(s) \in s
      BY <2>4, SomeOf
  <2> DEFINE t == s \ {Some(s)}
  <2>6. t \in SUBSET D /\ Cardinality(t) \in Nat /\ Cardinality(t) = n - 1
      BY <1>1, <2>3, <2>5, OneLess
  <2>7. sum[t] \in Nat
      BY <2>2, <2>6
  <2>8. sum[s] = table[Some(s)].bytes + sum[t]
      BY <2>4, SumOf
  <2>9. table[Some(s)].bytes \in Nat
      BY <2>5 DEF IsTable
  <2> HIDE DEF sum, t
  <2> QED BY <2>3, <2>7, <2>8, <2>9
<1>3. Cardinality(r) \in Nat
    BY <1>1, FS_Subset, FS_CardinalityType
<1> QED BY <1>2, <1>3

\* the sum does not depend on the order in which the fold takes the sessions
LEMMA SumWithout ==
    ASSUME NEW table, IsTable(table), NEW r \in SUBSET DOMAIN table, NEW x \in r
    PROVE  Summed(table)[r] = table[x].bytes + Summed(table)[r \ {x}]
<1> DEFINE D == DOMAIN table
           sum == Summed(table)
           Fails(s, y) == sum[s] # table[y].bytes + sum[s \ {y}]
           Bad == {n \in Nat : \E s \in SUBSET D : Cardinality(s) = n /\ \E y \in s : Fails(s, y)}
<1>1. IsFiniteSet(D)
    BY DEF IsTable
<1>2. Bad = {}
  <2>1. SUFFICES ASSUME Bad # {} PROVE FALSE
      OBVIOUS
  <2>2. PICK n \in Bad : \A m \in Bad : n <= m
      BY <2>1, LeastNatural
  <2>3a. PICK s \in SUBSET D : Cardinality(s) = n /\ \E y \in s : Fails(s, y)
      BY <2>2
  <2>3. PICK y \in s : Cardinality(s) = n /\ Fails(s, y)
      BY <2>3a
  <2> DEFINE c == Some(s)
             v == (s \ {c}) \ {y}
  <2>4. s # {} /\ c \in s
      BY SomeOf
  <2>5. sum[s] = table[c].bytes + sum[s \ {c}]
      BY <2>4, SumOf
  <2>6. c # y
      BY <2>3, <2>5
  <2>7. /\ s \ {c} \in SUBSET D /\ Cardinality(s \ {c}) \in Nat /\ Cardinality(s \ {c}) = n - 1
        /\ s \ {y} \in SUBSET D /\ Cardinality(s \ {y}) \in Nat /\ Cardinality(s \ {y}) = n - 1
      BY <1>1, <2>3, <2>4, OneLess
  <2>8. y \in s \ {c} /\ c \in s \ {y} /\ v = (s \ {y}) \ {c}
      BY <2>4, <2>6
  <2>9. ~Fails(s \ {c}, y) /\ ~Fails(s \ {y}, c)
    <3>1. n - 1 \notin Bad
      <4>1. n \in Nat /\ n - 1 < n
          BY <2>2
      <4> HIDE DEF Bad
      <4> QED BY <2>2, <2>7, <4>1
    <3> HIDE DEF Fails, c
    <3> QED BY <2>7, <2>8, <3>1
  <2>10. sum[s \ {c}] = table[y].bytes + sum[v] /\ sum[s \ {y}] = table[c].bytes + sum[v]
      BY <2>8, <2>9
  <2>11. table[y].bytes \in Nat /\ table[c].bytes \in Nat
      BY <2>4 DEF IsTable
  <2>12. v \in SUBSET D
      OBVIOUS
  <2>13. sum[v] \in Nat
      BY <2>12, SumType
  <2>14. sum[s] = table[y].bytes + sum[s \ {y}]
    <3> HIDE DEF sum, v, c
    <3> QED BY <2>5, <2>10, <2>11, <2>13
  <2> QED BY <2>3, <2>14
<1>3. Cardinality(r) \in Nat
    BY <1>1, FS_Subset, FS_CardinalityType
<1> QED BY <1>2, <1>3

\* two tables that agree on a set of sessions give it one sum
LEMMA SumAgrees ==
    ASSUME NEW table, IsTable(table), NEW other, IsTable(other),
           NEW r \in SUBSET (DOMAIN table \cap DOMAIN other),
           \A id \in r : table[id].bytes = other[id].bytes
    PROVE  Summed(table)[r] = Summed(other)[r]
<1> DEFINE Bad == {n \in Nat : \E s \in SUBSET r :
                      Cardinality(s) = n /\ Summed(table)[s] # Summed(other)[s]}
<1>1. IsFiniteSet(r)
    BY FS_Subset DEF IsTable
<1>2. Bad = {}
  <2>1. SUFFICES ASSUME Bad # {} PROVE FALSE
      OBVIOUS
  <2>2. PICK n \in Bad : \A m \in Bad : n <= m
      BY <2>1, LeastNatural
  <2>3. PICK s \in SUBSET r : Cardinality(s) = n /\ Summed(table)[s] # Summed(other)[s]
      BY <2>2
  <2>4. s # {}
      BY <2>3, SumOf
  <2>5. Some(s) \in s
      BY <2>4, SomeOf
  <2> DEFINE t == s \ {Some(s)}
  <2>6. t \in SUBSET r /\ Cardinality(t) \in Nat /\ Cardinality(t) = n - 1
      BY <1>1, <2>3, <2>5, OneLess
  <2>7. Summed(table)[t] = Summed(other)[t]
      BY <2>2, <2>6
  <2>8. Summed(table)[s] = table[Some(s)].bytes + Summed(table)[t]
      BY <2>4, SumOf
  <2>9. Summed(other)[s] = other[Some(s)].bytes + Summed(other)[t]
      BY <2>4, SumOf
  <2> QED BY <2>3, <2>5, <2>7, <2>8, <2>9
<1>3. Cardinality(r) \in Nat
    BY <1>1, FS_CardinalityType
<1> QED BY <1>2, <1>3

\* what a table adds up to without session id
Others(table, id) == Summed(table)[DOMAIN table \ {id}]

LEMMA TotalWithout ==
    ASSUME NEW table, IsTable(table), NEW id
    PROVE  /\ Others(table, id) \in Nat
           /\ Total(table) = Others(table, id) +
                             (IF id \in DOMAIN table THEN table[id].bytes ELSE 0)
<1>1. Others(table, id) \in Nat
    BY SumType DEF Others
<1>2. CASE id \in DOMAIN table
  <2>1. Summed(table)[DOMAIN table] = table[id].bytes + Others(table, id)
      BY <1>2, SumWithout DEF Others
  <2>2. table[id].bytes \in Nat
      BY <1>2 DEF IsTable
  <2> QED BY <1>1, <1>2, <2>1, <2>2 DEF Total
<1>3. CASE id \notin DOMAIN table
  <2>1. DOMAIN table \ {id} = DOMAIN table
      BY <1>3
  <2> QED BY <1>1, <1>3, <2>1 DEF Total, Others
<1> QED BY <1>1, <1>2, <1>3

LEMMA OthersAgree ==
    ASSUME NEW table, IsTable(table), NEW other, IsTable(other), NEW id,
           DOMAIN table \ {id} = DOMAIN other \ {id},
           \A x \in DOMAIN table \ {id} : table[x].bytes = other[x].bytes
    PROVE  Others(table, id) = Others(other, id)
<1> DEFINE r == DOMAIN table \ {id}
<1>1. r \in SUBSET (DOMAIN table \cap DOMAIN other) /\ r = DOMAIN other \ {id}
    OBVIOUS
<1>2. \A x \in r : table[x].bytes = other[x].bytes
    OBVIOUS
<1>3. Summed(table)[r] = Summed(other)[r]
  <2> HIDE DEF r
  <2> QED BY <1>1, <1>2, SumAgrees
<1> QED BY <1>1, <1>3 DEF Others

-----------------------------------------------------------------------------
(***************************************************************************)
(* TransferManager.  The two properties are inductive together with the    *)
(* types and with the table being finite.                                  *)
(***************************************************************************)
TableIInv == TypeOK /\ IsFiniteSet(Ids) /\ TotalIsSum /\ NeverTransferring

LEMMA TableParts ==
    ASSUME TableIInv
    PROVE  /\ IsTable(active_sessions) /\ total_bytes \in Nat /\ retired \in Nat
           /\ total_bytes = retired + Total(active_sessions)
           /\ \A id \in SessionIds : BytesOf(id) \in Nat
           /\ \A id \in Ids : /\ active_sessions[id] \in Session(Unset)
                              /\ active_sessions[id].state \in {"INACTIVE", "COMPLETED"}
                              /\ active_sessions[id].bytes \in Nat
<1>1. \A id \in Ids : active_sessions[id] \in Session(Unset)
    BY DEF TableIInv, TypeOK
<1>2. \A id \in Ids : active_sessions[id].bytes \in Nat
    BY <1>1 DEF Session
<1> QED BY <1>1, <1>2, TotalIsFold
        DEF TableIInv, TypeOK, IsTable, Ids, NeverTransferring, BytesOf

LEMMA TableInitIInv == Init => TableIInv
<1> SUFFICES ASSUME Init PROVE TableIInv
    OBVIOUS
<1>a. <<>> \in Seq(Session(Unset)) /\ Len(<<>>) = 0
    OBVIOUS
<1>b. DOMAIN <<>> = {} /\ <<>> \in [{} -> Session(Unset)]
    BY <1>a, EmptySeq
<1>0. total_bytes = 0 /\ retired = 0
    BY DEF Init
<1>1. Ids = {}
    BY <1>b DEF Init, Ids
<1>2. IsFiniteSet(Ids)
    BY <1>1, FS_EmptySet
<1>3. active_sessions \in [Ids -> Session(Unset)]
    BY <1>1, <1>b DEF Init
<1>4. TypeOK
    BY <1>1, <1>3 DEF Init, TypeOK, Calls
<1>5. IsTable(active_sessions)
    BY <1>1, <1>2 DEF IsTable, Ids
<1>6. Total(active_sessions) = 0
    BY <1>1, <1>5, SumOf DEF Total, Ids
<1>7. TotalIsSum
    BY <1>0, <1>6, TotalIsFold
<1>8. NeverTransferring
    BY <1>1 DEF NeverTransferring, Init
<1> QED BY <1>2, <1>4, <1>7, <1>8 DEF TableIInv

\* a call concerns one session: what it adds to total_bytes_transferred_ that session
\* has more, unless the session leaves the table with what it had
LEMMA OneSession ==
    ASSUME TableIInv, NEW id \in SessionIds, NEW more \in Nat, NEW gone \in Nat,
           active_sessions' \in [Ids' -> Session(Unset)], Ids' \subseteq Ids \cup {id},
           Ids \ {id} = Ids' \ {id},
           \A x \in Ids \ {id} : active_sessions'[x] = active_sessions[x],
           id \in Ids' => active_sessions'[id].state \in {"INACTIVE", "COMPLETED"},
           BytesOf(id) + more = gone + (IF id \in Ids' THEN active_sessions'[id].bytes ELSE 0),
           total_bytes' = total_bytes + more, retired' = retired + gone,
           max_concurrent' = max_concurrent,
           NEW call \in Calls, NEW ok \in BOOLEAN, Returns(call, id, ok),
           call \in {"pause", "resume"} => ~ok
    PROVE  TableIInv'
<1> USE TableParts
<1>1. IsFiniteSet(Ids')
  <2>1. IsFiniteSet(Ids \cup {id})
      BY FS_AddElement DEF TableIInv
  <2> QED BY <2>1, FS_Subset
<1>2. TypeOK'
  <2>1. Ids \subseteq SessionIds /\ max_concurrent \in Limits \cup {DefaultLimit}
      BY DEF TableIInv, TypeOK
  <2>2. last' \in [call: Calls, id: SessionIds \cup {""}, ok: BOOLEAN]
      BY DEF Returns
  <2>3. Ids' \subseteq SessionIds
      BY <2>1
  <2>4. total_bytes' \in Nat /\ retired' \in Nat
      OBVIOUS
  <2> QED BY <2>1, <2>2, <2>3, <2>4 DEF TypeOK
<1>3. \A x \in Ids' : active_sessions'[x].bytes \in Nat
    BY DEF Session
<1>4. IsTable(active_sessions')
    BY <1>1, <1>3 DEF IsTable, Ids
<1> DEFINE had == IF id \in DOMAIN active_sessions THEN active_sessions[id].bytes ELSE 0
           has == IF id \in DOMAIN active_sessions' THEN active_sessions'[id].bytes ELSE 0
           rest == Others(active_sessions, id)
<1>5. rest = Others(active_sessions', id)
    BY <1>4, OthersAgree DEF Ids
<1>6. rest \in Nat /\ Total(active_sessions) = rest + had
    BY TotalWithout
<1>7. Total(active_sessions') = rest + has
    BY <1>4, <1>5, TotalWithout
<1>8. had \in Nat /\ has \in Nat /\ had + more = gone + has
    BY <1>3 DEF BytesOf, Ids
<1>9. total_bytes' = retired' + Total(active_sessions')
  <2> HIDE DEF had, has, rest
  <2> QED BY <1>6, <1>7, <1>8
<1>10. TotalIsSum'
    BY <1>9, TotalIsFoldNext
<1>11. NeverTransferring'
    BY DEF NeverTransferring, Returns
<1> QED BY <1>1, <1>2, <1>10, <1>11 DEF TableIInv

\* a call that leaves the table alone
LEMMA NoSession ==
    ASSUME TableIInv, UNCHANGED <<active_sessions, total_bytes, retired>>,
           max_concurrent' \in Limits \cup {DefaultLimit},
           NEW call \in Calls, NEW id \in SessionIds \cup {""}, NEW ok \in BOOLEAN,
           Returns(call, id, ok), call \in {"pause", "resume"} => ~ok
    PROVE  TableIInv'
<1>1. Ids' = Ids
    BY DEF Ids
<1>2. TypeOK'
    BY <1>1 DEF TypeOK, Returns, TableIInv
<1>3. TotalIsSum'
    BY TotalIsFold, TotalIsFoldNext DEF TableIInv
<1>4. NeverTransferring'
    BY <1>1 DEF NeverTransferring, Returns, TableIInv
<1> QED BY <1>1, <1>2, <1>3, <1>4 DEF TableIInv

LEMMA Start_IInv ==
    ASSUME TableIInv, NEW id \in SessionIds, NEW m \in Unset, Start(id, m)
    PROVE  TableIInv'
<1> USE TableParts
<1>1. /\ NewSession(m) \in Session(Unset) /\ NewSession(m).state = "INACTIVE"
      /\ NewSession(m).bytes = 0
    BY DEF NewSession, Session, TransferState
<1>2. active_sessions' = [x \in Ids \cup {id} |->
                             IF x = id THEN NewSession(m) ELSE active_sessions[x]]
    BY DEF Start
<1>3. Ids' = Ids \cup {id}
    BY <1>2 DEF Ids
<1>4. /\ active_sessions' \in [Ids' -> Session(Unset)] /\ active_sessions'[id] = NewSession(m)
      /\ \A x \in Ids \ {id} : active_sessions'[x] = active_sessions[x]
    BY <1>1, <1>2, <1>3
<1>5. /\ total_bytes' = total_bytes /\ retired' = retired + BytesOf(id)
      /\ max_concurrent' = max_concurrent /\ Returns("start", id, TRUE)
    BY DEF Start
<1>6. "start" \in Calls /\ total_bytes' = total_bytes + 0
    BY <1>5 DEF Calls
<1>7. BytesOf(id) + 0 = BytesOf(id) + (IF id \in Ids' THEN active_sessions'[id].bytes ELSE 0)
    BY <1>1, <1>3, <1>4
<1>8. /\ Ids' \subseteq Ids \cup {id} /\ Ids \ {id} = Ids' \ {id} /\ BytesOf(id) \in Nat
      /\ active_sessions'[id].state \in {"INACTIVE", "COMPLETED"}
    BY <1>1, <1>3, <1>4
<1> QED BY <1>4, <1>5, <1>6, <1>7, <1>8, OneSession

LEMMA cancel_transfer_IInv ==
    ASSUME TableIInv, NEW id \in SessionIds, cancel_transfer(id)
    PROVE  TableIInv'
<1> USE TableParts
<1>1. active_sessions' = [x \in Ids \ {id} |-> active_sessions[x]]
    BY DEF cancel_transfer, Restrict
<1>2. Ids' = Ids \ {id}
    BY <1>1 DEF Ids
<1>3. /\ active_sessions' \in [Ids' -> Session(Unset)]
      /\ \A x \in Ids \ {id} : active_sessions'[x] = active_sessions[x]
    BY <1>1, <1>2
<1>4. /\ total_bytes' = total_bytes + 0 /\ retired' = retired + BytesOf(id)
      /\ max_concurrent' = max_concurrent /\ Returns("cancel", id, id \in Ids)
    BY DEF cancel_transfer
<1>5. "cancel" \in Calls
    BY DEF Calls
<1>6. BytesOf(id) + 0 = BytesOf(id) + (IF id \in Ids' THEN active_sessions'[id].bytes ELSE 0)
    BY <1>2
<1>7. /\ Ids' \subseteq Ids \cup {id} /\ Ids \ {id} = Ids' \ {id} /\ id \notin Ids'
      /\ BytesOf(id) \in Nat /\ (id \in Ids) \in BOOLEAN
    BY <1>2
<1> DEFINE found == id \in Ids
<1>8. found \in BOOLEAN /\ Returns("cancel", id, found)
    BY <1>4
<1> HIDE DEF found
<1> QED BY <1>3, <1>4, <1>5, <1>6, <1>7, <1>8, OneSession

\* pause_transfer and resume_transfer find no session in the state they want
LEMMA SwitchState_IInv ==
    ASSUME TableIInv, NEW id \in SessionIds, NEW call \in {"pause", "resume"},
           NEW from \in {"TRANSFERRING", "PAUSED"}, NEW to, SwitchState(call, id, from, to)
    PROVE  TableIInv'
<1>1. ~(id \in Ids /\ active_sessions[id].state = from)
    BY TableParts
<1>2. /\ UNCHANGED <<active_sessions, total_bytes, retired, max_concurrent>>
      /\ Returns(call, id, FALSE)
    BY <1>1 DEF SwitchState
<1>3. call \in Calls /\ max_concurrent' \in Limits \cup {DefaultLimit}
    BY <1>2 DEF Calls, TableIInv, TypeOK
<1> QED BY <1>2, <1>3, NoSession

LEMMA MarkedSession ==
    ASSUME NEW s \in Session(Unset), NEW i \in 0 .. Capacity
    PROVE  /\ mark_chunk_requested(s, i) \in Session(Unset)
           /\ mark_chunk_requested(s, i).state = s.state
           /\ mark_chunk_requested(s, i).bytes = s.bytes
<1>1. i \in Nat
    BY CapacityAssumption
<1>2. s.requested \cup {i} \in SUBSET Nat /\ s.fresh \cup {i} \in SUBSET Nat
    BY <1>1 DEF Session
<1> QED BY <1>2 DEF mark_chunk_requested, Session

LEMMA handle_chunk_request_IInv ==
    ASSUME TableIInv, NEW id \in SessionIds, NEW i \in 0 .. Capacity, handle_chunk_request(id, i)
    PROVE  TableIInv'
<1> USE TableParts
<1> DEFINE ok == id \in Ids /\ ~SetThrows(active_sessions[id], i)
<1>1. /\ Returns("chunk_request", id, ok) /\ ok \in BOOLEAN
      /\ UNCHANGED <<total_bytes, retired, max_concurrent>>
    BY DEF handle_chunk_request
<1>2. "chunk_request" \in Calls /\ max_concurrent' \in Limits \cup {DefaultLimit}
    BY <1>1 DEF Calls, TableIInv, TypeOK
<1>3. CASE id \notin Ids
  <2>1. UNCHANGED active_sessions
      BY <1>3 DEF handle_chunk_request
  <2> HIDE DEF ok
  <2> QED BY <1>1, <1>2, <2>1, NoSession
<1>4. CASE id \in Ids
  <2> DEFINE s == mark_chunk_requested(active_sessions[id], i)
  <2>1. active_sessions' = [active_sessions EXCEPT ![id] = s]
      BY <1>4 DEF handle_chunk_request
  <2>2. /\ s \in Session(Unset) /\ s.state = active_sessions[id].state
        /\ s.bytes = active_sessions[id].bytes
      BY <1>4, MarkedSession
  <2> HIDE DEF s, ok
  <2>3. /\ Ids' = Ids /\ active_sessions' \in [Ids' -> Session(Unset)]
        /\ active_sessions'[id] = s
        /\ \A x \in Ids \ {id} : active_sessions'[x] = active_sessions[x]
      BY <1>4, <2>1, <2>2 DEF Ids, TableIInv, TypeOK
  <2>4. BytesOf(id) + 0 = 0 + active_sessions'[id].bytes
      BY <1>4, <2>2, <2>3 DEF BytesOf
  <2>5. total_bytes' = total_bytes + 0 /\ retired' = retired + 0
      BY <1>1
  <2> QED BY <1>1, <1>2, <1>4, <2>2, <2>3, <2>4, <2>5, OneSession
<1> QED BY <1>3, <1>4

\* handle_chunk_received of a session: it completes it at most, and counts an accepted chunk
LEMMA ReceivedSession ==
    ASSUME NEW s \in Session(Unset), NEW i \in 0 .. Capacity,
           NEW d \in [size: Sizes, body: Bodies]
    PROVE  LET r == handle_chunk_received(s, i, d)
           IN  /\ r \in Session(Unset) /\ r.state \in {s.state, "COMPLETED"}
               /\ [r EXCEPT !.state = "COMPLETED"] \in Session(Unset)
               /\ [r EXCEPT !.state = "COMPLETED"].bytes = r.bytes
               /\ [r EXCEPT !.state = "COMPLETED"].state = "COMPLETED"
               /\ r.bytes = s.bytes + (IF AcceptsChunk(s, i, d) THEN d.size ELSE 0)
<1> DEFINE r == handle_chunk_received(s, i, d)
<1>a. d.size \in Sizes
    OBVIOUS
<1>b. i \in Nat
    BY CapacityAssumption
<1>c. d.size \in Nat
    BY <1>a, SizesAssumption
<1>1. i \in Nat /\ d.size \in Nat
    BY <1>b, <1>c
<1>2. s.bytes \in Nat /\ s.received \in SUBSET Nat /\ s.state \in TransferState
    BY DEF Session
<1>3. /\ r \in Session(Unset) /\ r.state \in {s.state, "COMPLETED"}
      /\ r.bytes = s.bytes + (IF AcceptsChunk(s, i, d) THEN d.size ELSE 0)
  <2>1. CASE AcceptsChunk(s, i, d)
    <3> DEFINE got == s.received \cup {i}
               state == IF Cardinality(got) = s.meta.chunk_count THEN "COMPLETED" ELSE s.state
    <3>1. r = [s EXCEPT !.received = got, !.bytes = s.bytes + d.size, !.state = state]
        BY <2>1 DEF handle_chunk_received, Session
    <3>2. got \in SUBSET Nat /\ state \in {s.state, "COMPLETED"} /\ state \in TransferState
          /\ s.bytes + d.size \in Nat
        BY <1>1, <1>2 DEF TransferState
    <3> HIDE DEF got, state, r
    <3>3. r \in Session(Unset) /\ r.state = state /\ r.bytes = s.bytes + d.size
        BY <3>1, <3>2 DEF Session
    <3> QED BY <2>1, <3>2, <3>3
  <2>2. CASE ~AcceptsChunk(s, i, d)
    <3>1. r = s
        BY <2>2 DEF handle_chunk_received
    <3> QED BY <1>2, <2>2, <3>1
  <2> QED BY <2>1, <2>2
<1>4. "COMPLETED" \in TransferState
    BY DEF TransferState
<1>5. /\ [r EXCEPT !.state = "COMPLETED"] \in Session(Unset)
      /\ [r EXCEPT !.state = "COMPLETED"].bytes = r.bytes
      /\ [r EXCEPT !.state = "COMPLETED"].state = "COMPLETED"
  <2> HIDE DEF r
  <2> QED BY <1>3, <1>4 DEF Session
<1> QED BY <1>3, <1>5

LEMMA HandleChunkReceived_IInv ==
    ASSUME TableIInv, NEW id \in SessionIds, NEW i \in 0 .. Capacity,
           NEW d \in [size: Sizes, body: Bodies], HandleChunkReceived(id, i, d)
    PROVE  TableIInv'
<1> USE TableParts
<1> DEFINE ok == AcceptsChunk(active_sessions[id], i, d)
           r == handle_chunk_received(active_sessions[id], i, d)
           s == IF ok /\ is_complete(r) THEN [r EXCEPT !.state = "COMPLETED"] ELSE r
           more == IF ok THEN d.size ELSE 0
<1>1. /\ id \in Ids /\ active_sessions' = [active_sessions EXCEPT ![id] = s]
      /\ total_bytes' = (IF ok THEN total_bytes + d.size ELSE total_bytes)
      /\ Returns("chunk_received", id, ok) /\ ok \in BOOLEAN
      /\ UNCHANGED <<max_concurrent, retired>>
    BY DEF HandleChunkReceived, AcceptsChunk
<1>2. more \in Nat
    BY SizesAssumption
<1>3. total_bytes' = total_bytes + more
    BY <1>1
<1>4. /\ s \in Session(Unset) /\ s.bytes = active_sessions[id].bytes + more
      /\ s.state \in {"INACTIVE", "COMPLETED"}
  <2>1. /\ r \in Session(Unset) /\ r.state \in {active_sessions[id].state, "COMPLETED"}
        /\ [r EXCEPT !.state = "COMPLETED"] \in Session(Unset)
        /\ [r EXCEPT !.state = "COMPLETED"].bytes = r.bytes
        /\ [r EXCEPT !.state = "COMPLETED"].state = "COMPLETED"
        /\ r.bytes = active_sessions[id].bytes + more
      BY <1>1, ReceivedSession
  <2> HIDE DEF r, more, ok
  <2> QED BY <1>1, <2>1
<1> HIDE DEF s, ok, more, r
<1>5. /\ Ids' = Ids /\ active_sessions' \in [Ids' -> Session(Unset)]
      /\ active_sessions'[id] = s
      /\ \A x \in Ids \ {id} : active_sessions'[x] = active_sessions[x]
    BY <1>1, <1>4 DEF Ids, TableIInv, TypeOK
<1>6. BytesOf(id) + more = 0 + active_sessions'[id].bytes
    BY <1>1, <1>2, <1>4, <1>5 DEF BytesOf
<1>7. "chunk_received" \in Calls /\ retired' = retired + 0
    BY <1>1 DEF Calls
<1> QED BY <1>1, <1>2, <1>3, <1>4, <1>5, <1>6, <1>7, OneSession

LEMMA TableNextIInv == TableIInv /\ [Next]_vars => TableIInv'
<1> SUFFICES ASSUME TableIInv, [Next]_vars PROVE TableIInv'
    OBVIOUS
<1>1. ASSUME NEW id \in SessionIds, NEW m \in Unset, Start(id, m) PROVE TableIInv'
    BY <1>1, Start_IInv
<1>2. CASE StartRefused
  <2>1. "start" \in Calls /\ max_concurrent' \in Limits \cup {DefaultLimit}
      BY <1>2 DEF StartRefused, Calls, TableIInv, TypeOK
  <2> QED BY <1>2, <2>1, NoSession DEF StartRefused
<1>3. ASSUME NEW id \in SessionIds, pause_transfer(id) \/ resume_transfer(id) PROVE TableIInv'
    BY <1>3, SwitchState_IInv DEF pause_transfer, resume_transfer
<1>4. ASSUME NEW id \in SessionIds, cancel_transfer(id) PROVE TableIInv'
    BY <1>4, cancel_transfer_IInv
<1>5. ASSUME NEW id \in SessionIds, NEW i \in 0 .. Capacity, handle_chunk_request(id, i)
      PROVE  TableIInv'
    BY <1>5, handle_chunk_request_IInv
<1>6. ASSUME NEW id \in SessionIds, NEW i \in 0 .. Capacity,
             NEW d \in [size: Sizes, body: Bodies], HandleChunkReceived(id, i, d)
      PROVE  TableIInv'
    BY <1>6, HandleChunkReceived_IInv
<1>7. ASSUME NEW id \in SessionIds, ChunkForNobody(id) PROVE TableIInv'
  <2>1. "chunk_received" \in Calls /\ max_concurrent' \in Limits \cup {DefaultLimit}
      BY <1>7 DEF ChunkForNobody, Calls, TableIInv, TypeOK
  <2> QED BY <1>7, <2>1, NoSession DEF ChunkForNobody
<1>8. ASSUME NEW n \in Limits, set_max_concurrent_transfers(n) PROVE TableIInv'
  <2>1. "set_max" \in Calls
      BY DEF Calls
  <2> QED BY <1>8, <2>1, NoSession DEF set_max_concurrent_transfers
<1>9. CASE UNCHANGED vars
  <2>1. TotalIsSum'
      BY <1>9, TotalIsFold, TotalIsFoldNext DEF TableIInv, vars
  <2> QED BY <1>9, <2>1 DEF vars, TableIInv, TypeOK, Ids, NeverTransferring
<1> QED BY <1>1, <1>2, <1>3, <1>4, <1>5, <1>6, <1>7, <1>8, <1>9 DEF Next

LEMMA TableInvariant == Spec => []TableIInv
BY TableInitIInv, TableNextIInv, PTL DEF Spec

(***************************************************************************)
(* The variables of the table of sessions keep their types, whatever the   *)
(* constructor leaves in metadata_ and whichever session ids repeat.       *)
(***************************************************************************)
THEOREM TypeCorrect == Spec => []TypeOK
<1>1. TableIInv => TypeOK
    BY DEF TableIInv
<1> QED BY <1>1, TableInvariant, PTL

(***************************************************************************)
(* total_bytes_transferred_ is the bytes of the sessions in the table and  *)
(* of the ones cancelled or replaced, for any number of sessions: a chunk  *)
(* is counted in both places or in neither (handle_chunk_received), and no *)
(* session is lost from the sum (start_download, cancel_transfer).         *)
(***************************************************************************)
THEOREM TotalAlwaysSum == Spec => []TotalIsSum
<1>1. TableIInv => TotalIsSum
    BY DEF TableIInv
<1> QED BY <1>1, TableInvariant, PTL

(***************************************************************************)
(* No call sequence makes a session of the manager transfer: pause and     *)
(* resume are refused whatever came before (pause_transfer,                *)
(* resume_transfer, and start_download that starts nothing).               *)
(***************************************************************************)
THEOREM ManagerNeverTransfers == Spec => []NeverTransferring
<1>1. TableIInv => NeverTransferring
    BY DEF TableIInv
<1> QED BY <1>1, TableInvariant, PTL

-----------------------------------------------------------------------------
(***************************************************************************)
(* FlowController.  The window is a function of the congestion window and  *)
(* the threshold; out of slow start the first has reached the second.      *)
(***************************************************************************)
FlowTypeOK ==
    /\ window_size \in [Controllers -> Nat]
    /\ slow_start_threshold \in [Controllers -> Nat]
    /\ congestion_window \in [Controllers -> Nat]
    /\ in_slow_start \in [Controllers -> BOOLEAN]
    /\ ack_count \in Nat
    /\ recent_requests \in [Controllers -> Seq(Nat)]
    /\ max_requests_per_second \in [Controllers -> Nat]
    /\ highest \in [Controllers -> Nat]

WindowGood(size, threshold, congestion, slow) ==
    /\ threshold >= 1
    /\ size = max(min(congestion, threshold), 1)
    /\ ~slow => congestion >= threshold

Windows == \A c \in Controllers : WindowGood(window_size[c], slow_start_threshold[c],
                                             congestion_window[c], in_slow_start[c])

\* the requests of the last second and the unused yeses: the last yes was given below the
\* limit, and there are no more yeses than callers
Within(requests, yeses, limit) ==
    Cardinality(Young(requests)) + Cardinality(yeses) < limit + Cardinality(Callers)

Rated == \A c \in Controllers :
            /\ max_requests_per_second[c] <= highest[c]
            /\ Within(recent_requests[c], Yeses(c), highest[c])

FlowIInv == FlowTypeOK /\ Windows /\ Rated

LEMMA YoungFinite ==
    ASSUME NEW s \in Seq(Nat)
    PROVE  /\ DOMAIN s = 1 .. Len(s) /\ Len(s) \in Nat /\ Young(s) \subseteq 1 .. Len(s)
           /\ IsFiniteSet(Young(s)) /\ Cardinality(Young(s)) \in Nat
<1>1. DOMAIN s = 1 .. Len(s) /\ Len(s) \in Nat
    OBVIOUS
<1>2. Young(s) \subseteq 1 .. Len(s)
    BY <1>1 DEF Young
<1>3. IsFiniteSet(1 .. Len(s))
    BY <1>1, FS_Interval
<1>4. IsFiniteSet(Young(s))
    BY <1>2, <1>3, FS_Subset
<1> QED BY <1>1, <1>2, <1>4, FS_CardinalityType

LEMMA YesesFinite ==
    ASSUME NEW s \in SUBSET Callers
    PROVE  /\ IsFiniteSet(s) /\ Cardinality(s) \in Nat /\ Cardinality(Callers) \in Nat
           /\ Cardinality(s) <= Cardinality(Callers)
BY FlowAssumption, FS_Subset, FS_CardinalityType

LEMMA FlowInitIInv == FlowInit => FlowIInv
<1> SUFFICES ASSUME FlowInit PROVE FlowIInv
    OBVIOUS
<1> USE DEF FlowInit
<1>1. FlowTypeOK
    BY FlowAssumption DEF FlowTypeOK
<1>2. Windows
    BY FlowAssumption DEF Windows, WindowGood, max, min
<1>3. ASSUME NEW c \in Controllers PROVE Cardinality(Young(recent_requests[c])) = 0
  <2>1. Young(recent_requests[c]) = {}
      BY DEF Young
  <2> QED BY <2>1, FS_EmptySet
<1>4. Rated
  <2>1. SUFFICES ASSUME NEW c \in Controllers
                 PROVE  /\ max_requests_per_second[c] <= highest[c]
                        /\ Within(recent_requests[c], Yeses(c), highest[c])
      BY DEF Rated
  <2>2. Yeses(c) = {} /\ Cardinality({}) = 0
      BY FS_EmptySet DEF Yeses
  <2>3. Cardinality(Callers) \in Nat /\ Cardinality(Callers) # 0
      BY FlowAssumption, FS_EmptySet, FS_CardinalityType
  <2>4. max_requests_per_second[c] = DefaultRate /\ highest[c] = DefaultRate /\ DefaultRate \in Nat
      BY FlowAssumption
  <2> QED BY <1>3, <2>2, <2>3, <2>4 DEF Within
<1> QED BY <1>1, <1>2, <1>4 DEF FlowIInv

LEMMA FlowParts ==
    ASSUME FlowIInv, NEW c \in Controllers
    PROVE  /\ window_size[c] \in Nat /\ slow_start_threshold[c] \in Nat
           /\ congestion_window[c] \in Nat /\ in_slow_start[c] \in BOOLEAN /\ ack_count \in Nat
           /\ recent_requests[c] \in Seq(Nat)
           /\ WindowGood(window_size[c], slow_start_threshold[c], congestion_window[c],
                         in_slow_start[c])
           /\ max_requests_per_second[c] \in Nat /\ highest[c] \in Nat
           /\ max_requests_per_second[c] <= highest[c]
           /\ Within(recent_requests[c], Yeses(c), highest[c])
BY DEF FlowIInv, FlowTypeOK, Windows, Rated

\* what update_congestion_window leaves
LEMMA WindowStep ==
    ASSUME FlowIInv, NEW c \in Controllers, NEW t \in Nat, NEW w \in Nat, NEW slow \in BOOLEAN,
           slow_start_threshold' = [slow_start_threshold EXCEPT ![c] = t],
           congestion_window' = [congestion_window EXCEPT ![c] = w],
           in_slow_start' = [in_slow_start EXCEPT ![c] = slow],
           update_congestion_window(c), t >= 1, ~slow => w >= t,
           UNCHANGED requestVars, ack_count' \in Nat
    PROVE  FlowIInv'
<1>1. /\ slow_start_threshold'[c] = t /\ congestion_window'[c] = w /\ in_slow_start'[c] = slow
    BY DEF FlowIInv, FlowTypeOK
<1>2. max(min(w, t), 1) \in Nat
    BY DEF max, min
<1>3. window_size' = [window_size EXCEPT ![c] = max(min(w, t), 1)]
    BY <1>1 DEF update_congestion_window
<1>4. FlowTypeOK'
    BY <1>2, <1>3 DEF FlowIInv, FlowTypeOK, requestVars
<1>5. Windows'
  <2>1. SUFFICES ASSUME NEW d \in Controllers
                 PROVE  WindowGood(window_size'[d], slow_start_threshold'[d],
                                   congestion_window'[d], in_slow_start'[d])
      BY DEF Windows
  <2>2. CASE d = c
    <3>1. window_size'[d] = max(min(w, t), 1)
        BY <1>3, <2>2 DEF FlowIInv, FlowTypeOK
    <3> QED BY <1>1, <2>2, <3>1 DEF WindowGood
  <2>3. CASE d # c
    <3>1. /\ window_size'[d] = window_size[d]
          /\ slow_start_threshold'[d] = slow_start_threshold[d]
          /\ congestion_window'[d] = congestion_window[d]
          /\ in_slow_start'[d] = in_slow_start[d]
        BY <1>3, <2>3 DEF FlowIInv, FlowTypeOK
    <3> QED BY <3>1, FlowParts
  <2> QED BY <2>2, <2>3
<1>6. Rated'
    BY DEF FlowIInv, Rated, requestVars, Within, Young, Yeses
<1> QED BY <1>4, <1>5, <1>6 DEF FlowIInv

LEMMA on_ack_received_IInv ==
    ASSUME FlowIInv, NEW c \in Controllers, on_ack_received(c)
    PROVE  FlowIInv'
<1> USE FlowParts
<1>1. /\ UNCHANGED <<slow_start_threshold, requestVars>>
      /\ update_congestion_window(c)
    BY DEF on_ack_received
<1>2. slow_start_threshold' = [slow_start_threshold EXCEPT ![c] = slow_start_threshold[c]]
      /\ slow_start_threshold[c] >= 1
    BY <1>1 DEF FlowIInv, FlowTypeOK, WindowGood
<1>3. CASE AckInSlowStart(c)
  <2> DEFINE slow == congestion_window[c] + 1 < slow_start_threshold[c]
  <2>1. /\ congestion_window' = [congestion_window EXCEPT ![c] = congestion_window[c] + 1]
        /\ in_slow_start' = [in_slow_start EXCEPT ![c] = slow] /\ UNCHANGED ack_count
      BY <1>3 DEF AckInSlowStart
  <2>2. slow \in BOOLEAN /\ congestion_window[c] + 1 \in Nat
        /\ (~slow => congestion_window[c] + 1 >= slow_start_threshold[c])
      OBVIOUS
  <2> HIDE DEF slow
  <2> QED BY <1>1, <1>2, <2>1, <2>2, WindowStep
<1>4. CASE AckInAvoidance(c)
  <2> DEFINE grow == ack_count + 1 >= congestion_window[c]
             w == IF grow THEN congestion_window[c] + 1 ELSE congestion_window[c]
  <2>1. /\ congestion_window' = [congestion_window EXCEPT ![c] = w]
        /\ ack_count' = (IF grow THEN 0 ELSE ack_count + 1) /\ ~in_slow_start[c]
        /\ UNCHANGED in_slow_start
      BY <1>4 DEF AckInAvoidance
  <2>2. w \in Nat /\ w >= slow_start_threshold[c] /\ ack_count' \in Nat
    <3>1. congestion_window[c] >= slow_start_threshold[c]
        BY <2>1 DEF WindowGood
    <3> QED BY <2>1, <3>1
  <2>3. in_slow_start' = [in_slow_start EXCEPT ![c] = FALSE]
      BY <2>1 DEF FlowIInv, FlowTypeOK
  <2> HIDE DEF w
  <2> QED BY <1>1, <1>2, <2>1, <2>2, <2>3, WindowStep
<1> QED BY <1>3, <1>4 DEF on_ack_received

LEMMA on_timeout_IInv ==
    ASSUME FlowIInv, NEW c \in Controllers, on_timeout(c)
    PROVE  FlowIInv'
<1> DEFINE t == max(congestion_window[c] \div 2, 2)
<1>1. /\ slow_start_threshold' = [slow_start_threshold EXCEPT ![c] = t]
      /\ congestion_window' = [congestion_window EXCEPT ![c] = 1]
      /\ in_slow_start' = [in_slow_start EXCEPT ![c] = TRUE]
      /\ update_congestion_window(c) /\ UNCHANGED <<ack_count, requestVars>>
    BY DEF on_timeout
<1>2. t \in Nat /\ t >= 1
    BY FlowParts DEF max
<1> HIDE DEF t
<1> QED BY <1>1, <1>2, WindowStep, FlowParts

\* update_rate_limit takes no request that is a second old or less, and adds none
LEMMA PrunedRequests ==
    ASSUME NEW s \in Seq(Nat)
    PROVE  /\ update_rate_limit(s) \in Seq(Nat)
           /\ Cardinality(Young(update_rate_limit(s))) <= Cardinality(Young(s))
<1> DEFINE N == Len(s)
           Fits(n) == /\ \A i \in 1 .. n : i \notin Young(s)
                      /\ n < N => n + 1 \in Young(s)
           old == CHOOSE n \in 0 .. N : Fits(n)
           r == SubSeq(s, old + 1, N)
<1>1. N \in Nat /\ Young(s) \subseteq 1 .. N /\ IsFiniteSet(Young(s))
    BY YoungFinite
<1>2. \E n \in 0 .. N : Fits(n)
  <2>1. CASE Young(s) = {}
      BY <1>1, <2>1
  <2>2. CASE Young(s) # {}
    <3>1. Young(s) \in SUBSET Nat
        BY <1>1
    <3>2. PICK a \in Young(s) : \A y \in Young(s) : a <= y
        BY <2>2, <3>1, LeastNatural
    <3>3. a \in 1 .. N /\ a - 1 \in 0 .. N /\ (a - 1) + 1 = a
        BY <1>1
    <3>4. Fits(a - 1)
      <4>1. ASSUME NEW i \in 1 .. a - 1 PROVE i \notin Young(s)
          BY <3>2, <3>3
      <4> QED BY <3>2, <3>3, <4>1
    <3> QED BY <3>3, <3>4
  <2> QED BY <2>1, <2>2
<1>3. old \in 0 .. N
  <2> HIDE DEF Fits
  <2> QED BY <1>2
<1>4. update_rate_limit(s) = r
    BY DEF update_rate_limit
<1> HIDE DEF N, Fits, old
<1>5. r \in Seq(Nat) /\ Len(r) = N - old /\ \A k \in 1 .. N - old : r[k] = s[old + k]
  <2>1. old + 1 \in 1 .. N + 1 /\ N = Len(s)
      BY <1>1, <1>3 DEF N
  <2>2. \A k \in (old + 1) .. N : s[k] \in Nat
      BY <1>1, <1>3, <2>1, ElementOfSeq
  <2>3. r = [k \in 1 .. N - old |-> s[old + k]]
    <3>1. SubSeq(s, old + 1, N) = [k \in 1 .. (1 + N) - (old + 1) |-> s[(old + 1) + k - 1]]
        BY <1>1, <1>3
    <3>2. (1 + N) - (old + 1) = N - old
        BY <1>1, <1>3
    <3>3. \A k \in 1 .. N - old : (old + 1) + k - 1 = old + k
        BY <1>1, <1>3
    <3> QED BY <3>1, <3>2, <3>3
  <2>4. \A k \in 1 .. N - old : s[old + k] \in Nat
      BY <1>1, <1>3, <2>2
  <2>5. N - old \in Nat
      BY <1>1, <1>3
  <2> HIDE DEF r
  <2> QED BY <2>3, <2>4, <2>5
<1> HIDE DEF r
<1>6. Young(r) = {k \in 1 .. N - old : s[old + k] <= OneSecond}
  <2>1. DOMAIN r = 1 .. N - old
      BY <1>5
  <2> QED BY <1>5, <2>1 DEF Young
<1> DEFINE f == [k \in Young(r) |-> old + k]
<1>7. f \in [Young(r) -> Young(s)]
  <2>1. ASSUME NEW k \in Young(r) PROVE old + k \in Young(s)
    <3>1. old + k \in 1 .. N /\ s[old + k] <= OneSecond
        BY <1>1, <1>3, <1>6
    <3>2. DOMAIN s = 1 .. N
        BY YoungFinite DEF N
    <3> QED BY <3>1, <3>2 DEF Young
  <2> QED BY <2>1
<1>8. f \in Injection(Young(r), Young(s))
  <2>1. ASSUME NEW a \in Young(r), NEW b \in Young(r), f[a] = f[b] PROVE a = b
    <3>1. a \in Int /\ b \in Int /\ old \in Int
        BY <1>1, <1>3, <1>6
    <3> QED BY <2>1, <3>1
  <2>2. DOMAIN f = Young(r)
      OBVIOUS
  <2> HIDE DEF f
  <2> QED BY <1>7, <2>1, <2>2 DEF Injection, IsInjective
<1>9. Cardinality(Young(r)) <= Cardinality(Young(s))
  <2> HIDE DEF f
  <2> QED BY <1>1, <1>8, FS_Injection
<1> QED BY <1>4, <1>5, <1>9

\* a step that changes the requests of one controller, and its callers' yeses
LEMMA RequestStep ==
    ASSUME FlowIInv, NEW c \in Controllers, NEW s \in Seq(Nat),
           recent_requests' = [recent_requests EXCEPT ![c] = s],
           UNCHANGED <<window, ack_count, max_requests_per_second, highest>>,
           \A d \in Controllers \ {c} : Yeses(d)' = Yeses(d),
           Within(s, Yeses(c)', highest[c])
    PROVE  FlowIInv'
<1>1. FlowTypeOK'
    BY DEF FlowIInv, FlowTypeOK, window
<1>2. Windows'
    BY DEF FlowIInv, Windows, window
<1>3. Rated'
  <2>1. SUFFICES ASSUME NEW d \in Controllers
                 PROVE  /\ max_requests_per_second[d] <= highest[d]
                        /\ Within(recent_requests'[d], Yeses(d)', highest[d])
      BY DEF Rated, Within, Young
  <2>2. CASE d = c
    <3>1. recent_requests'[d] = s
        BY <2>2 DEF FlowIInv, FlowTypeOK
    <3> QED BY <2>2, <3>1, FlowParts
  <2>3. CASE d # c
    <3>1. recent_requests'[d] = recent_requests[d] /\ Yeses(d)' = Yeses(d)
        BY <2>3 DEF FlowIInv, FlowTypeOK
    <3> QED BY <3>1, FlowParts
  <2> QED BY <2>2, <2>3
<1> QED BY <1>1, <1>2, <1>3 DEF FlowIInv

LEMMA can_send_request_IInv ==
    ASSUME FlowIInv, NEW c \in Controllers, NEW k \in Callers, can_send_request(k, c)
    PROVE  FlowIInv'
<1> DEFINE s == Recent(c)
           limit == max_requests_per_second[c]
<1>1. /\ recent_requests' = [recent_requests EXCEPT ![c] = s]
      /\ UNCHANGED <<window, ack_count, max_requests_per_second, highest>>
      /\ allowed' = IF Cardinality(Young(s)) < limit
                    THEN allowed \cup {<<k, c>>} ELSE allowed \ {<<k, c>>}
    BY DEF can_send_request
<1>2. s \in Seq(Nat) /\ Cardinality(Young(s)) <= Cardinality(Young(recent_requests[c]))
    BY FlowParts, PrunedRequests DEF Recent
<1>3. /\ Cardinality(Young(s)) \in Nat /\ Cardinality(Young(recent_requests[c])) \in Nat
      /\ limit \in Nat /\ highest[c] \in Nat /\ limit <= highest[c]
      /\ Within(recent_requests[c], Yeses(c), highest[c])
    BY <1>2, FlowParts, YoungFinite
<1> HIDE DEF s, limit
<1>4. \A d \in Controllers \ {c} : Yeses(d)' = Yeses(d)
    BY <1>1 DEF Yeses
<1>5. /\ Yeses(c)' \in SUBSET Callers /\ Yeses(c) \in SUBSET Callers
      /\ Cardinality(Yeses(c)') \in Nat /\ Cardinality(Yeses(c)) \in Nat
      /\ Cardinality(Callers) \in Nat /\ Cardinality(Yeses(c)') <= Cardinality(Callers)
  <2>1. Yeses(c)' \in SUBSET Callers /\ Yeses(c) \in SUBSET Callers
      BY DEF Yeses
  <2> QED BY <2>1, YesesFinite
<1>6. Within(s, Yeses(c)', highest[c])
  <2>1. CASE Cardinality(Young(s)) < limit
      BY <1>3, <1>5, <2>1 DEF Within
  <2>2. CASE ~(Cardinality(Young(s)) < limit)
    <3>1. Yeses(c)' \subseteq Yeses(c)
        BY <1>1, <2>2 DEF Yeses
    <3>2. Cardinality(Yeses(c)') <= Cardinality(Yeses(c))
        BY <1>5, <3>1, YesesFinite, FS_Subset
    <3> QED BY <1>2, <1>3, <1>5, <3>2 DEF Within
  <2> QED BY <2>1, <2>2
<1> QED BY <1>1, <1>2, <1>4, <1>6, RequestStep

LEMMA on_request_sent_IInv ==
    ASSUME FlowIInv, NEW c \in Controllers, NEW k \in Callers, on_request_sent(k, c)
    PROVE  FlowIInv'
<1> DEFINE o == recent_requests[c]
           s == Append(o, 0)
<1>1. /\ recent_requests' = [recent_requests EXCEPT ![c] = s]
      /\ UNCHANGED <<window, ack_count, max_requests_per_second, highest>>
      /\ allowed' = allowed \ {<<k, c>>} /\ <<k, c>> \in allowed
    BY DEF on_request_sent
<1>2. /\ o \in Seq(Nat) /\ IsFiniteSet(Young(o)) /\ Young(o) \subseteq 1 .. Len(o)
      /\ Cardinality(Young(o)) \in Nat /\ Len(o) \in Nat /\ DOMAIN o = 1 .. Len(o)
      /\ highest[c] \in Nat /\ Within(o, Yeses(c), highest[c])
    BY <1>1, FlowParts, YoungFinite
<1> HIDE DEF o
<1>3. /\ s \in Seq(Nat) /\ DOMAIN s = 1 .. Len(o) + 1 /\ s[Len(o) + 1] = 0
      /\ \A i \in 1 .. Len(o) : s[i] = o[i]
    BY <1>2
<1> HIDE DEF s
<1>4. Young(s) = Young(o) \cup {Len(o) + 1}
    BY <1>2, <1>3, FlowAssumption DEF Young
<1>5. Cardinality(Young(s)) <= Cardinality(Young(o)) + 1
  <2>1. Cardinality(Young(o) \cup {Len(o) + 1}) =
            IF Len(o) + 1 \in Young(o) THEN Cardinality(Young(o))
            ELSE Cardinality(Young(o)) + 1
      BY <1>2, FS_AddElement
  <2> QED BY <1>2, <1>4, <2>1
<1>6. Cardinality(Young(s)) \in Nat
    BY <1>3, YoungFinite
<1>7. \A d \in Controllers \ {c} : Yeses(d)' = Yeses(d)
    BY <1>1 DEF Yeses
<1>8. Yeses(c)' = Yeses(c) \ {k} /\ k \in Yeses(c) /\ Yeses(c) \in SUBSET Callers
    BY <1>1 DEF Yeses
<1>9. /\ Cardinality(Yeses(c)') = Cardinality(Yeses(c)) - 1
      /\ Cardinality(Yeses(c)) \in Nat /\ Cardinality(Callers) \in Nat
    BY <1>8, YesesFinite, FS_RemoveElement
<1>10. Within(s, Yeses(c)', highest[c])
    BY <1>2, <1>5, <1>6, <1>9 DEF Within
<1> QED BY <1>1, <1>3, <1>7, <1>10, RequestStep

LEMMA set_max_requests_per_second_IInv ==
    ASSUME FlowIInv, NEW c \in Controllers, NEW r \in RequestRates,
           set_max_requests_per_second(c, r)
    PROVE  FlowIInv'
<1>1. /\ max_requests_per_second' = [max_requests_per_second EXCEPT ![c] = r]
      /\ highest' = [highest EXCEPT ![c] = max(highest[c], r)]
      /\ UNCHANGED <<window, ack_count, recent_requests, allowed>>
    BY DEF set_max_requests_per_second
<1>2. /\ r \in Nat /\ highest[c] \in Nat /\ max(highest[c], r) \in Nat
      /\ r <= max(highest[c], r) /\ highest[c] <= max(highest[c], r)
    BY FlowParts, FlowAssumption DEF max
<1>3. FlowTypeOK'
    BY <1>1, <1>2 DEF FlowIInv, FlowTypeOK, window
<1>4. Windows'
    BY <1>1 DEF FlowIInv, Windows, window
<1>5. Rated'
  <2>1. SUFFICES ASSUME NEW d \in Controllers
                 PROVE  /\ max_requests_per_second'[d] <= highest'[d]
                        /\ Within(recent_requests[d], Yeses(d), highest'[d])
      BY <1>1 DEF Rated, Within, Young, Yeses
  <2>2. /\ Cardinality(Young(recent_requests[d])) \in Nat /\ Cardinality(Yeses(d)) \in Nat
        /\ Cardinality(Callers) \in Nat /\ highest[d] \in Nat
        /\ max_requests_per_second[d] <= highest[d]
        /\ Within(recent_requests[d], Yeses(d), highest[d])
    <3>1. Yeses(d) \in SUBSET Callers
        BY DEF Yeses
    <3> QED BY <3>1, FlowParts, YoungFinite, YesesFinite
  <2>3. CASE d = c
    <3>1. max_requests_per_second'[d] = r /\ highest'[d] = max(highest[c], r)
        BY <1>1, <2>3 DEF FlowIInv, FlowTypeOK
    <3> QED BY <1>2, <2>2, <2>3, <3>1 DEF Within
  <2>4. CASE d # c
    <3>1. max_requests_per_second'[d] = max_requests_per_second[d] /\ highest'[d] = highest[d]
        BY <1>1, <2>4 DEF FlowIInv, FlowTypeOK
    <3> QED BY <2>2, <3>1
  <2> QED BY <2>3, <2>4
<1> QED BY <1>3, <1>4, <1>5 DEF FlowIInv

LEMMA RequestsAge_IInv ==
    ASSUME FlowIInv, RequestsAge
    PROVE  FlowIInv'
<1>1. /\ recent_requests' = [c \in Controllers |->
            [i \in DOMAIN recent_requests[c] |-> min(recent_requests[c][i] + 1, OneSecond + 1)]]
      /\ UNCHANGED <<window, ack_count, allowed, max_requests_per_second, highest>>
    BY DEF RequestsAge
<1>2. ASSUME NEW c \in Controllers
      PROVE  /\ recent_requests'[c] \in Seq(Nat)
             /\ Cardinality(Young(recent_requests'[c])) <= Cardinality(Young(recent_requests[c]))
             /\ Cardinality(Young(recent_requests'[c])) \in Nat
             /\ Cardinality(Young(recent_requests[c])) \in Nat
  <2> DEFINE o == recent_requests[c]
             s == [i \in 1 .. Len(o) |-> min(o[i] + 1, OneSecond + 1)]
  <2>1. /\ o \in Seq(Nat) /\ DOMAIN o = 1 .. Len(o) /\ Len(o) \in Nat
        /\ IsFiniteSet(Young(o)) /\ Cardinality(Young(o)) \in Nat
      BY FlowParts, YoungFinite
  <2>2. recent_requests'[c] = s
      BY <1>1, <2>1
  <2>3. ASSUME NEW i \in 1 .. Len(o) PROVE o[i] \in Nat
      BY <2>1, ElementOfSeq
  <2> HIDE DEF o
  <2>4. ASSUME NEW i \in 1 .. Len(o)
        PROVE  min(o[i] + 1, OneSecond + 1) \in Nat
               /\ (min(o[i] + 1, OneSecond + 1) <= OneSecond => o[i] <= OneSecond)
      BY <2>3, FlowAssumption DEF min
  <2>5. s \in Seq(Nat) /\ DOMAIN s = 1 .. Len(o)
      BY <2>1, <2>4
  <2>6. Young(s) \subseteq Young(o)
      BY <2>1, <2>4 DEF Young
  <2> HIDE DEF s
  <2>7. Cardinality(Young(s)) <= Cardinality(Young(o))
      BY <2>1, <2>6, FS_Subset
  <2>8. Cardinality(Young(s)) \in Nat
      BY <2>5, YoungFinite
  <2> QED BY <2>1, <2>2, <2>5, <2>7, <2>8 DEF o
<1>3. FlowTypeOK'
  <2>1. recent_requests' \in [Controllers -> Seq(Nat)]
      BY <1>1, <1>2
  <2> QED BY <1>1, <2>1 DEF FlowIInv, FlowTypeOK, window
<1>4. Windows'
    BY <1>1 DEF FlowIInv, Windows, window
<1>5. Rated'
  <2>1. SUFFICES ASSUME NEW d \in Controllers
                 PROVE  /\ max_requests_per_second[d] <= highest[d]
                        /\ Within(recent_requests'[d], Yeses(d), highest[d])
      BY <1>1 DEF Rated, Within, Young, Yeses
  <2>2. /\ Cardinality(Yeses(d)) \in Nat /\ Cardinality(Callers) \in Nat /\ highest[d] \in Nat
        /\ max_requests_per_second[d] <= highest[d]
        /\ Within(recent_requests[d], Yeses(d), highest[d])
    <3>1. Yeses(d) \in SUBSET Callers
        BY DEF Yeses
    <3> QED BY <3>1, FlowParts, YesesFinite
  <2> QED BY <1>2, <2>2 DEF Within
<1> QED BY <1>3, <1>4, <1>5 DEF FlowIInv

LEMMA FlowInvariant == FlowSpec => []FlowIInv
<1>1. FlowIInv /\ [FlowNext]_flowVars => FlowIInv'
  <2> SUFFICES ASSUME FlowIInv, [FlowNext]_flowVars PROVE FlowIInv'
      OBVIOUS
  <2>1. CASE UNCHANGED flowVars
      BY <2>1 DEF flowVars, window, requestVars, FlowIInv, FlowTypeOK, Windows, Rated, Within, Young,
                  Yeses
  <2> QED BY <2>1, on_ack_received_IInv, on_timeout_IInv, can_send_request_IInv,
             on_request_sent_IInv, set_max_requests_per_second_IInv, RequestsAge_IInv
          DEF FlowNext
<1> QED BY <1>1, FlowInitIInv, PTL DEF FlowSpec

(***************************************************************************)
(* Once slow start is over the window stays at the threshold until the     *)
(* next timeout: what congestion avoidance adds never gets through         *)
(* update_congestion_window, for every threshold and number of controllers.*)
(***************************************************************************)
THEOREM WindowStaysAtThreshold == FlowSpec => []AvoidanceKeepsWindow
<1>1. FlowIInv => AvoidanceKeepsWindow
  <2> SUFFICES ASSUME FlowIInv, NEW c \in Controllers
               PROVE  /\ ~in_slow_start[c] => window_size[c] = slow_start_threshold[c]
                      /\ window_size[c] \in 1 .. slow_start_threshold[c]
      BY DEF AvoidanceKeepsWindow
  <2> QED BY FlowParts DEF WindowGood, max, min
<1> QED BY <1>1, FlowInvariant, PTL

(***************************************************************************)
(* Callers that ask can_send_request first never have more requests in a   *)
(* second than the highest limit set so far, but for one for each caller   *)
(* beyond the first, however late they use the answer.                     *)
(***************************************************************************)
THEOREM RateAlwaysLimited == FlowSpec => []RateLimited
<1>1. FlowIInv => RateLimited
  <2> SUFFICES ASSUME FlowIInv, NEW c \in Controllers
               PROVE  Cardinality(Young(recent_requests[c])) < highest[c] + Cardinality(Callers)
      BY DEF RateLimited
  <2>1. Yeses(c) \in SUBSET Callers
      BY DEF Yeses
  <2> QED BY <2>1, FlowParts, YoungFinite, YesesFinite DEF Within
<1> QED BY <1>1, FlowInvariant, PTL

-----------------------------------------------------------------------------
(***************************************************************************)
(* BandwidthLimiter.  The queue is sorted as operator< says; Credit        *)
(* bounds the tokens by the time up to the last refill, for the largest    *)
(* settings there have been.                                               *)
(***************************************************************************)
Request == [priority: Priority, bytes: RequestSizes, stamp: Nat]

BucketTypeOK ==
    /\ max_bandwidth \in Rates /\ bucket_capacity \in Capacities
    /\ available_tokens \in Nat /\ taken \in Nat
    /\ now \in Nat /\ last_refill \in 0 .. now
    /\ checked \in [Senders -> Nat]
    /\ arrivals \in 0 .. MaxRequests
    /\ pending_requests \in Seq(Request) /\ Len(pending_requests) <= arrivals
    /\ served \in Seq(Request)

Credit(rate, capacity, tokens, time) ==
    \E r \in Rates, c \in Capacities :
        /\ rate <= r /\ capacity <= c
        /\ Second * tokens <= Second * c + r * time

\* none precedes one that comes before it
Sorted(queue) == \A i, j \in DOMAIN queue : i < j => ~Precedes(queue[j], queue[i])

\* GrantedInOrder, of any queue and any list of grants
Granted(queue, out) ==
    \A j \in DOMAIN out :
        /\ \A i \in 1 .. j - 1 : out[i].priority = out[j].priority => out[i].stamp <= out[j].stamp
        /\ \A k \in DOMAIN queue :
              queue[k].priority = out[j].priority => queue[k].stamp >= out[j].stamp

\* no stamp is later than the clock
Stamped(out) == \A i \in DOMAIN out : out[i].stamp <= now

BucketIInv ==
    /\ BucketTypeOK
    /\ Credit(max_bandwidth, bucket_capacity, taken + available_tokens, last_refill)
    /\ Sorted(pending_requests) /\ Stamped(pending_requests)
    /\ Granted(pending_requests, served)
    /\ Stamped(served)

LEMMA GrantedIsProperty == GrantedInOrder <=> Granted(pending_requests, served)
<1>1. ASSUME NEW j \in DOMAIN served
      PROVE  (\A r \in ToSet(pending_requests) :
                 r.priority = served[j].priority => r.stamp >= served[j].stamp)
             <=> (\A k \in DOMAIN pending_requests :
                    pending_requests[k].priority = served[j].priority
                    => pending_requests[k].stamp >= served[j].stamp)
    BY DEF ToSet
<1>2. ASSUME NEW j \in DOMAIN served
      PROVE  (\A r \in {served[i] : i \in 1 .. j - 1} :
                 r.priority = served[j].priority => r.stamp <= served[j].stamp)
             <=> (\A i \in 1 .. j - 1 :
                    served[i].priority = served[j].priority => served[i].stamp <= served[j].stamp)
    OBVIOUS
<1> QED BY <1>1, <1>2 DEF GrantedInOrder, Granted

LEMMA BucketInitIInv == BucketInit => BucketIInv
<1> SUFFICES ASSUME BucketInit PROVE BucketIInv
    OBVIOUS
<1> USE BucketAssumption DEF BucketInit
<1>1. <<>> \in Seq(Request) /\ Len(<<>>) = 0 /\ DOMAIN <<>> = {}
    BY EmptySeq
<1>2. BucketTypeOK
    BY <1>1 DEF BucketTypeOK
<1>3. Credit(max_bandwidth, bucket_capacity, taken + available_tokens, last_refill)
  <2>1. max_bandwidth \in Nat /\ bucket_capacity \in Nat /\ taken + available_tokens = bucket_capacity
      OBVIOUS
  <2>2. Second * bucket_capacity <= Second * bucket_capacity + max_bandwidth * 0
      BY <2>1
  <2> QED BY <2>1, <2>2 DEF Credit
<1>4. Sorted(pending_requests) /\ Stamped(pending_requests) /\ Granted(pending_requests, served) /\ Stamped(served)
    BY <1>1 DEF Sorted, Granted, Stamped
<1> QED BY <1>2, <1>3, <1>4 DEF BucketIInv

-----------------------------------------------------------------------------
(* The tokens. *)

LEMMA TimesMonotone ==
    ASSUME NEW a \in Nat, NEW b \in Nat, NEW k \in Nat, a <= b
    PROVE  k * a <= k * b /\ k * a \in Nat /\ k * b \in Nat
<1>1. b = a + (b - a) /\ b - a \in Nat
    OBVIOUS
<1>2. k * b = k * a + k * (b - a) /\ k * (b - a) \in Nat
    BY <1>1
<1> QED BY <1>2

LEMMA RefilledBounded ==
    ASSUME BucketIInv
    PROVE  Refilled \in Nat /\ Credit(max_bandwidth, bucket_capacity, taken + Refilled, now)
<1> USE BucketAssumption
<1> DEFINE time == now - last_refill
           made == max_bandwidth * time
           add == made \div Second
<1>1. /\ max_bandwidth \in Nat /\ bucket_capacity \in Nat /\ time \in Nat
      /\ now \in Nat /\ last_refill \in Nat /\ now = last_refill + time
      /\ taken \in Nat /\ available_tokens \in Nat /\ Second \in Nat \ {0}
    BY DEF BucketIInv, BucketTypeOK
<1> HIDE DEF time
<1>2. made \in Nat
    BY <1>1
<1> HIDE DEF made
<1>3. add \in Nat /\ Second * add <= made
    BY <1>1, <1>2
<1> HIDE DEF add
<1>4. Refilled = Smaller(available_tokens + add, bucket_capacity)
    BY DEF Refilled, add, made, time
<1>5. Refilled \in Nat /\ Refilled <= available_tokens + add
    BY <1>1, <1>3, <1>4 DEF Smaller
<1>6. PICK r \in Rates, c \in Capacities :
         /\ max_bandwidth <= r /\ bucket_capacity <= c
         /\ Second * (taken + available_tokens) <= Second * c + r * last_refill
    BY DEF BucketIInv, Credit
<1>7. r \in Nat /\ c \in Nat
    OBVIOUS
<1>8. made <= r * time
  <2>1. time * max_bandwidth <= time * r
      BY <1>1, <1>6, <1>7, TimesMonotone
  <2> QED BY <1>1, <1>7, <2>1 DEF made
<1>9. r * now = r * last_refill + r * time
    BY <1>1, <1>7
<1>10. Second * (taken + Refilled) <= Second * (taken + available_tokens) + Second * add
  <2>1. taken + Refilled <= (taken + available_tokens) + add
      BY <1>1, <1>3, <1>5
  <2>2. taken + Refilled \in Nat /\ (taken + available_tokens) + add \in Nat
      BY <1>1, <1>3, <1>5
  <2>3. Second * (taken + Refilled) <= Second * ((taken + available_tokens) + add)
      BY <1>1, <2>1, <2>2, TimesMonotone
  <2>4. Second * ((taken + available_tokens) + add)
        = Second * (taken + available_tokens) + Second * add
      BY <1>1, <1>3
  <2> QED BY <2>3, <2>4
<1>11. Second * (taken + Refilled) <= Second * c + r * now
  <2> DEFINE a == Second * (taken + Refilled)
             b == Second * (taken + available_tokens)
             d == Second * add
             e == Second * c
             f == r * last_refill
             g == r * time
             h == r * now
  <2>1. a \in Nat /\ b \in Nat /\ d \in Nat /\ e \in Nat /\ f \in Nat /\ g \in Nat /\ h \in Nat
      BY <1>1, <1>3, <1>5, <1>7
  <2>2. a <= b + d /\ b <= e + f /\ d <= made /\ made <= g /\ h = f + g
      BY <1>3, <1>6, <1>8, <1>9, <1>10
  <2> HIDE DEF a, b, d, e, f, g, h
  <2>3. a <= e + h
      BY <1>2, <2>1, <2>2
  <2> QED BY <2>3 DEF a, e, h
<1> QED BY <1>5, <1>6, <1>11 DEF Credit

\* a credit stays one when tokens are taken, and as time goes by
LEMMA LessCredit ==
    ASSUME BucketIInv, NEW tokens \in Nat, NEW fewer \in Nat, fewer <= tokens,
           NEW time \in Nat, NEW later \in Nat, time <= later, Credit(max_bandwidth, bucket_capacity, tokens, time)
    PROVE  Credit(max_bandwidth, bucket_capacity, fewer, later)
<1> USE BucketAssumption
<1>1. PICK r \in Rates, c \in Capacities :
         /\ max_bandwidth <= r /\ bucket_capacity <= c
         /\ Second * tokens <= Second * c + r * time
    BY DEF Credit
<1>2. r \in Nat /\ c \in Nat /\ Second \in Nat
    OBVIOUS
<1>3. /\ Second * fewer <= Second * tokens /\ Second * fewer \in Nat /\ Second * tokens \in Nat
      /\ r * time <= r * later /\ r * time \in Nat /\ r * later \in Nat
    BY <1>2, TimesMonotone
<1>4. Second * c \in Nat
    BY <1>2
<1> DEFINE a == Second * fewer
           b == Second * tokens
           d == Second * c
           e == r * time
           f == r * later
<1>5. a <= d + f
  <2>1. a <= b /\ b <= d + e /\ e <= f /\ a \in Nat /\ b \in Nat /\ d \in Nat /\ e \in Nat /\ f \in Nat
      BY <1>1, <1>3, <1>4
  <2> HIDE DEF a, b, d, e, f
  <2> QED BY <2>1
<1> QED BY <1>1, <1>5 DEF Credit

-----------------------------------------------------------------------------
(* The loop of process_pending_requests. *)

\* the requests behind the first
LEMMA Rest ==
    ASSUME NEW queue \in Seq(Request), queue # <<>>
    PROVE  /\ Head(queue) = queue[1] /\ Head(queue) \in Request
           /\ Tail(queue) \in Seq(Request) /\ Len(Tail(queue)) = Len(queue) - 1
           /\ DOMAIN queue = 1 .. Len(queue) /\ Len(queue) \in Nat /\ Len(queue) > 0
           /\ DOMAIN Tail(queue) = 1 .. Len(queue) - 1
           /\ \A k \in 1 .. Len(queue) - 1 : Tail(queue)[k] = queue[k + 1]
<1>1. Len(queue) \in Nat /\ Len(queue) > 0 /\ DOMAIN queue = 1 .. Len(queue)
    BY EmptySeq, LenProperties
<1>2. /\ Head(queue) = queue[1] /\ Tail(queue) \in Seq(Request)
      /\ Len(Tail(queue)) = Len(queue) - 1
      /\ \A k \in 1 .. Len(Tail(queue)) : Tail(queue)[k] = queue[k + 1]
    BY HeadTailProperties
<1>3. queue[1] \in Request
    BY <1>1, ElementOfSeq
<1>4. DOMAIN Tail(queue) = 1 .. Len(Tail(queue))
    BY <1>2, LenProperties
<1> QED BY <1>1, <1>2, <1>3, <1>4

LEMMA RestSorted ==
    ASSUME NEW queue \in Seq(Request), queue # <<>>, Sorted(queue)
    PROVE  Sorted(Tail(queue))
<1> DEFINE rest == Tail(queue)
<1>1. /\ DOMAIN queue = 1 .. Len(queue) /\ Len(queue) \in Nat
      /\ DOMAIN rest = 1 .. Len(queue) - 1
      /\ \A k \in 1 .. Len(queue) - 1 : rest[k] = queue[k + 1]
    BY Rest
<1> HIDE DEF rest
<1>2. ASSUME NEW i \in DOMAIN rest, NEW j \in DOMAIN rest, i < j
      PROVE  ~Precedes(rest[j], rest[i])
  <2>1. i + 1 \in DOMAIN queue /\ j + 1 \in DOMAIN queue /\ i + 1 < j + 1
      BY <1>1, <1>2
  <2> QED BY <1>1, <2>1 DEF Sorted
<1>3. Sorted(rest)
    BY <1>2 DEF Sorted
<1> QED BY <1>3 DEF rest

LEMMA GrantFirst ==
    ASSUME NEW queue \in Seq(Request), queue # <<>>, Sorted(queue),
           NEW all \in Seq(Request), Granted(queue, all)
    PROVE  Granted(Tail(queue), Append(all, Head(queue)))
<1> DEFINE rest == Tail(queue)
           r == Head(queue)
           more == Append(all, r)
<1>1. /\ DOMAIN queue = 1 .. Len(queue) /\ Len(queue) \in Nat /\ Len(queue) > 0
      /\ DOMAIN rest = 1 .. Len(queue) - 1 /\ r = queue[1] /\ r \in Request
      /\ \A k \in 1 .. Len(queue) - 1 : rest[k] = queue[k + 1]
    BY Rest
<1>2. /\ DOMAIN all = 1 .. Len(all) /\ Len(all) \in Nat
      /\ \A k \in 1 .. Len(all) : all[k] \in Request
      /\ \A k \in 1 .. Len(queue) : queue[k] \in Request
    BY LenProperties, ElementOfSeq
<1>3. /\ DOMAIN more = 1 .. Len(all) + 1 /\ more[Len(all) + 1] = r
      /\ \A k \in 1 .. Len(all) : more[k] = all[k]
  <2>1. /\ more \in Seq(Request) /\ Len(more) = Len(all) + 1
        /\ more[Len(all) + 1] = r /\ \A k \in 1 .. Len(all) : more[k] = all[k]
      BY <1>1, AppendProperties
  <2> QED BY <2>1, LenProperties
<1> HIDE DEF rest, more, r
<1>4. ASSUME NEW j \in DOMAIN more
      PROVE  /\ \A k \in 1 .. j - 1 :
                   more[k].priority = more[j].priority => more[k].stamp <= more[j].stamp
             /\ \A k \in DOMAIN rest :
                   rest[k].priority = more[j].priority => rest[k].stamp >= more[j].stamp
  <2>1. CASE j \in 1 .. Len(all)
    <3>1. \A k \in 1 .. j - 1 : k \in 1 .. Len(all)
        BY <1>2, <2>1
    <3>2. more[j] = all[j] /\ j \in DOMAIN all /\ \A k \in 1 .. j - 1 : more[k] = all[k]
        BY <1>2, <1>3, <2>1, <3>1
    <3>3. \A k \in 1 .. j - 1 : all[k].priority = all[j].priority => all[k].stamp <= all[j].stamp
        BY <3>2 DEF Granted
    <3>4. ASSUME NEW k \in DOMAIN rest, rest[k].priority = all[j].priority
          PROVE  rest[k].stamp >= all[j].stamp
      <4>1. k + 1 \in DOMAIN queue /\ rest[k] = queue[k + 1]
          BY <1>1
      <4> QED BY <3>2, <3>4, <4>1 DEF Granted
    <3> QED BY <3>2, <3>3, <3>4
  <2>2. CASE j = Len(all) + 1
    <3>1. more[j] = queue[1] /\ 1 .. j - 1 = 1 .. Len(all) /\ 1 \in DOMAIN queue
        BY <1>1, <1>2, <1>3, <2>2
    <3>2. ASSUME NEW k \in 1 .. j - 1, more[k].priority = more[j].priority
          PROVE  more[k].stamp <= more[j].stamp
      <4>1. more[k] = all[k] /\ k \in DOMAIN all
          BY <1>2, <1>3, <3>1
      <4>2. queue[1].stamp >= all[k].stamp
          BY <3>1, <3>2, <4>1 DEF Granted
      <4>3. queue[1].stamp \in Nat /\ all[k].stamp \in Nat
          BY <1>1, <1>2, <4>1 DEF Request
      <4> QED BY <3>1, <4>1, <4>2, <4>3
    <3>3. ASSUME NEW k \in DOMAIN rest, rest[k].priority = more[j].priority
          PROVE  rest[k].stamp >= more[j].stamp
      <4>1. k + 1 \in DOMAIN queue /\ 1 < k + 1 /\ rest[k] = queue[k + 1]
          BY <1>1
      <4>2. ~Precedes(queue[k + 1], queue[1])
          BY <3>1, <4>1 DEF Sorted
      <4>3. queue[k + 1].stamp \in Nat /\ queue[1].stamp \in Nat
          BY <1>1, <1>2, <4>1 DEF Request
      <4> QED BY <3>1, <3>3, <4>1, <4>2, <4>3 DEF Precedes
    <3> QED BY <3>2, <3>3
  <2> QED BY <1>2, <1>3, <2>1, <2>2
<1>5. Granted(rest, more)
    BY <1>4 DEF Granted
<1> QED BY <1>5 DEF rest, more, r

LEMMA AppendToConcat ==
    ASSUME NEW S, NEW a \in Seq(S), NEW b \in Seq(S), NEW e \in S
    PROVE  a \o Append(b, e) = Append(a \o b, e)
<1>1. /\ Append(b, e) \in Seq(S) /\ Len(Append(b, e)) = Len(b) + 1
      /\ \A i \in 1 .. Len(b) : Append(b, e)[i] = b[i]
      /\ Append(b, e)[Len(b) + 1] = e
    BY AppendProperties
<1>2. /\ a \o b \in Seq(S) /\ Len(a \o b) = Len(a) + Len(b)
      /\ \A i \in 1 .. Len(a) + Len(b) :
            (a \o b)[i] = IF i <= Len(a) THEN a[i] ELSE b[i - Len(a)]
    BY ConcatProperties
<1> DEFINE s == Append(b, e)
           t == a \o b
           u == a \o s
           v == Append(t, e)
<1>3. /\ u \in Seq(S) /\ Len(u) = Len(a) + Len(s)
      /\ \A i \in 1 .. Len(a) + Len(s) : u[i] = IF i <= Len(a) THEN a[i] ELSE s[i - Len(a)]
    BY <1>1, ConcatProperties
<1>4. /\ v \in Seq(S) /\ Len(v) = Len(t) + 1 /\ v[Len(t) + 1] = e
      /\ \A i \in 1 .. Len(t) : v[i] = t[i]
    BY <1>2, AppendProperties
<1>5. Len(a) \in Nat /\ Len(b) \in Nat
    BY LenProperties
<1>6. Len(u) = Len(v) /\ Len(u) = Len(a) + Len(b) + 1
    BY <1>1, <1>2, <1>3, <1>4, <1>5
<1>7. ASSUME NEW i \in 1 .. Len(u) PROVE u[i] = v[i]
  <2> HIDE DEF s, t, u, v
  <2>1. Len(s) = Len(b) + 1 /\ s[Len(b) + 1] = e /\ \A j \in 1 .. Len(b) : s[j] = b[j]
      BY <1>1 DEF s
  <2>2. Len(t) = Len(a) + Len(b)
        /\ \A j \in 1 .. Len(a) + Len(b) : t[j] = IF j <= Len(a) THEN a[j] ELSE b[j - Len(a)]
      BY <1>2 DEF t
  <2>3. CASE i <= Len(a)
      BY <1>3, <1>4, <1>5, <1>6, <2>1, <2>2, <2>3
  <2>4. CASE i > Len(a) /\ i <= Len(a) + Len(b)
    <3>1. i - Len(a) \in 1 .. Len(b) /\ i \in 1 .. Len(t) /\ i \in 1 .. Len(a) + Len(s)
        BY <1>5, <2>1, <2>2, <2>4
    <3>2. u[i] = s[i - Len(a)] /\ v[i] = t[i] /\ t[i] = b[i - Len(a)]
        BY <1>3, <1>4, <1>5, <2>2, <2>4, <3>1
    <3> QED BY <2>1, <3>1, <3>2
  <2>5. CASE i = Len(a) + Len(b) + 1
    <3>1. u[i] = s[i - Len(a)] /\ i - Len(a) = Len(b) + 1
        BY <1>3, <1>5, <2>1, <2>5
    <3> QED BY <1>4, <2>1, <2>2, <2>5, <3>1
  <2> QED BY <1>5, <1>6, <2>3, <2>4, <2>5
<1>8. u = v
  <2> HIDE DEF u, v
  <2> QED BY <1>3, <1>4, <1>6, <1>7, SeqEqual
<1> QED BY <1>8

Loop == [queue: Seq(Request), tokens: Nat, out: Seq(Request)]

\* what every turn of the loop leaves
LoopGood(s) ==
    /\ s \in Loop
    /\ s.tokens <= Refilled
    /\ Len(s.queue) <= Len(pending_requests)
    /\ Sorted(s.queue) /\ Stamped(s.queue)
    /\ Granted(s.queue, served \o s.out)
    /\ Stamped(served \o s.out)

LEMMA TurnGood ==
    ASSUME BucketIInv, NEW s, LoopGood(s)
    PROVE  LoopGood(Turn(s))
<1> DEFINE r == Head(s.queue)
           all == served \o s.out
<1>1. CASE s.queue = <<>> \/ s.tokens = 0 \/ s.tokens < r.bytes
  <2>1. Turn(s) = s
      BY <1>1 DEF Turn
  <2> QED BY <2>1
<1>2. CASE ~(s.queue = <<>> \/ s.tokens = 0 \/ s.tokens < r.bytes)
  <2> DEFINE rest == Tail(s.queue)
             left == s.tokens - r.bytes
             out == Append(s.out, r)
  <2>1. Turn(s) = [queue |-> rest, tokens |-> left, out |-> out]
      BY <1>2 DEF Turn
  <2>2. /\ s.queue \in Seq(Request) /\ s.tokens \in Nat /\ s.out \in Seq(Request)
        /\ served \in Seq(Request) /\ pending_requests \in Seq(Request) /\ s.queue # <<>>
      BY <1>2 DEF LoopGood, Loop, BucketIInv, BucketTypeOK
  <2>3. /\ r = s.queue[1] /\ r \in Request /\ rest \in Seq(Request)
        /\ Len(rest) = Len(s.queue) - 1 /\ Len(s.queue) \in Nat /\ Len(s.queue) > 0
        /\ DOMAIN s.queue = 1 .. Len(s.queue) /\ DOMAIN rest = 1 .. Len(s.queue) - 1
        /\ \A k \in 1 .. Len(s.queue) - 1 : rest[k] = s.queue[k + 1]
      BY <2>2, Rest
  <2>4. Sorted(rest)
      BY <2>2, RestSorted DEF LoopGood
  <2>5. r.bytes \in Nat /\ r.stamp <= now
    <3>1. r.bytes \in RequestSizes /\ 1 \in DOMAIN s.queue
        BY <2>3 DEF Request
    <3> QED BY <2>3, <3>1, BucketAssumption DEF LoopGood, Stamped
  <2>6. Refilled \in Nat
      BY RefilledBounded
  <2>7. left \in Nat /\ left <= Refilled
    <3> HIDE DEF r
    <3> QED BY <1>2, <2>2, <2>5, <2>6 DEF LoopGood
  <2>8. Len(rest) <= Len(pending_requests)
    <3>1. Len(pending_requests) \in Nat
        BY <2>2, LenProperties
    <3> QED BY <2>3, <3>1 DEF LoopGood
  <2>9. Stamped(rest)
    <3>1. \A k \in DOMAIN rest : k + 1 \in DOMAIN s.queue /\ rest[k] = s.queue[k + 1]
        BY <2>3
    <3> HIDE DEF rest
    <3> QED BY <3>1 DEF LoopGood, Stamped
  <2>10. all \in Seq(Request)
      BY <2>2, ConcatProperties
  <2>11. Granted(rest, Append(all, r))
      BY <2>2, <2>10, GrantFirst DEF LoopGood
  <2>12. out \in Seq(Request) /\ served \o out = Append(all, r)
    <3> HIDE DEF r
    <3> QED BY <2>2, <2>3, AppendProperties, AppendToConcat
  <2>13. Stamped(Append(all, r))
    <3>1. /\ DOMAIN all = 1 .. Len(all) /\ Len(all) \in Nat
          /\ DOMAIN Append(all, r) = 1 .. Len(Append(all, r))
          /\ Len(Append(all, r)) = Len(all) + 1
          /\ Append(all, r)[Len(all) + 1] = r
          /\ \A k \in 1 .. Len(all) : Append(all, r)[k] = all[k]
        BY <2>3, <2>10, LenProperties, AppendProperties
    <3>2. Stamped(all)
        BY DEF LoopGood
    <3> DEFINE more == Append(all, r)
    <3> HIDE DEF all, r, more
    <3> QED BY <2>5, <3>1, <3>2 DEF Stamped, more
  <2> HIDE DEF rest, left, out, all, r
  <2>14. LoopGood([queue |-> rest, tokens |-> left, out |-> out])
      BY <2>3, <2>4, <2>7, <2>8, <2>9, <2>11, <2>12, <2>13 DEF LoopGood, Loop, all
  <2> QED BY <2>1, <2>14
<1> QED BY <1>1, <1>2

LoopStart == [queue |-> pending_requests, tokens |-> Refilled, out |-> <<>>]

LEMMA LoopStartGood ==
    ASSUME BucketIInv
    PROVE  LoopGood(LoopStart)
<1>1. served \in Seq(Request) /\ pending_requests \in Seq(Request)
    BY DEF BucketIInv, BucketTypeOK
<1>2. <<>> \in Seq(Request) /\ served \o <<>> = served
    BY <1>1, EmptySeq, ConcatEmptySeq
<1>3. Refilled \in Nat /\ Len(pending_requests) \in Nat
    BY <1>1, RefilledBounded, LenProperties
<1> QED BY <1>1, <1>2, <1>3 DEF LoopGood, Loop, LoopStart, BucketIInv

\* the loop is defined for every number of turns
LEMMA TurnsExist ==
    Turns = [n \in 0 .. MaxRequests |-> IF n = 0 THEN LoopStart ELSE Turn(Turns[n - 1])]
<1> USE BucketAssumption
<1> DEFINE Body(g, n) == IF n = 0 THEN LoopStart ELSE Turn(g[n - 1])
           Until(m, g) == g = [n \in 0 .. m |-> Body(g, n)]
           Bad == {m \in Nat : ~\E g : Until(m, g)}
<1>1. \E g : Until(0, g)
  <2> DEFINE g == [n \in 0 .. 0 |-> LoopStart]
  <2>1. \A n \in 0 .. 0 : Body(g, n) = LoopStart
      OBVIOUS
  <2>2. Until(0, g)
      BY <2>1, Zenon
  <2> QED BY <2>2
<1>2. ASSUME NEW m \in Nat, NEW g, Until(m, g) PROVE \E h : Until(m + 1, h)
  <2> DEFINE h == [n \in 0 .. m + 1 |-> Body(g, n)]
  <2>1. ASSUME NEW n \in 0 .. m PROVE h[n] = g[n]
    <3>1. g[n] = Body(g, n)
        BY <1>2, Zenon
    <3>2. n \in 0 .. m + 1
        OBVIOUS
    <3> QED BY <3>1, <3>2
  <2>2. ASSUME NEW n \in 0 .. m + 1 PROVE Body(h, n) = Body(g, n)
    <3>1. CASE n = 0
        BY <3>1
    <3>2. CASE n # 0
      <4>1. n - 1 \in 0 .. m
          BY <3>2
      <4>2. h[n - 1] = g[n - 1]
          BY <2>1, <4>1
      <4> HIDE DEF h
      <4> QED BY <3>2, <4>2
    <3> QED BY <3>1, <3>2
  <2>3. Until(m + 1, h)
      BY <2>2, Zenon
  <2> QED BY <2>3
<1>3. Bad = {}
  <2>1. SUFFICES ASSUME Bad # {} PROVE FALSE
      OBVIOUS
  <2>2. PICK m \in Bad : \A k \in Bad : m <= k
      BY <2>1, LeastNatural
  <2>3. m \in Nat /\ m # 0
      BY <1>1
  <2>4. m - 1 \in Nat /\ m - 1 \notin Bad
    <3>1. m - 1 \in Nat /\ m - 1 < m
        BY <2>3
    <3> HIDE DEF Bad
    <3> QED BY <2>2, <2>3, <3>1
  <2>5. PICK g : Until(m - 1, g)
      BY <2>4
  <2>6. \E h : Until((m - 1) + 1, h)
      BY <1>2, <2>4, <2>5
  <2>7. (m - 1) + 1 = m
      BY <2>3
  <2>8. \E h : Until(m, h)
      BY <2>6, <2>7
  <2> QED BY <2>8
<1>4. \E g : Until(MaxRequests, g)
    BY <1>3
<1>5. Turns = CHOOSE g : Until(MaxRequests, g)
    BY DEF Turns, LoopStart
<1>6. Until(MaxRequests, Turns)
  <2> HIDE DEF Until
  <2> QED BY <1>4, <1>5
<1> QED BY <1>6

LEMMA TurnsGood ==
    ASSUME BucketIInv, NEW m \in 0 .. MaxRequests
    PROVE  LoopGood(Turns[m])
<1> USE BucketAssumption
<1> DEFINE Bad == {n \in Nat : n <= MaxRequests /\ ~LoopGood(Turns[n])}
<1>1. Bad = {}
  <2>1. SUFFICES ASSUME Bad # {} PROVE FALSE
      OBVIOUS
  <2>2. PICK n \in Bad : \A k \in Bad : n <= k
      BY <2>1, LeastNatural
  <2>3. n \in Nat /\ n <= MaxRequests /\ ~LoopGood(Turns[n]) /\ n \in 0 .. MaxRequests
      BY <2>2
  <2>4. Turns[n] = IF n = 0 THEN LoopStart ELSE Turn(Turns[n - 1])
      BY <2>3, TurnsExist, Zenon
  <2>5. n # 0
      BY <2>3, <2>4, LoopStartGood
  <2>6. n - 1 \notin Bad
    <3>1. n - 1 \in Nat /\ n - 1 < n
        BY <2>3, <2>5
    <3> HIDE DEF Bad
    <3> QED BY <2>2, <2>3, <3>1
  <2>7. n - 1 \in Nat /\ n - 1 <= MaxRequests
      BY <2>3, <2>5
  <2>8. LoopGood(Turns[n - 1])
      BY <2>6, <2>7
  <2>9. LoopGood(Turns[n])
      BY <2>4, <2>5, <2>8, TurnGood
  <2> QED BY <2>3, <2>9
<1> QED BY <1>1

-----------------------------------------------------------------------------
LEMMA process_pending_requests_IInv ==
    ASSUME BucketIInv, process_pending_requests
    PROVE  BucketIInv'
<1> USE BucketAssumption
<1> DEFINE end == Turns[Len(pending_requests)]
<1>1. Len(pending_requests) \in 0 .. MaxRequests
    BY LenProperties DEF BucketIInv, BucketTypeOK
<1>2. LoopGood(end)
    BY <1>1, TurnsGood
<1>3. /\ last_refill' = now /\ available_tokens' = end.tokens
      /\ pending_requests' = end.queue /\ served' = served \o end.out
      /\ taken' = taken + (Refilled - end.tokens)
      /\ UNCHANGED <<max_bandwidth, bucket_capacity, now, checked, arrivals>>
    BY DEF process_pending_requests, Refill
<1> HIDE DEF end
<1>4. /\ Refilled \in Nat /\ Credit(max_bandwidth, bucket_capacity, taken + Refilled, now)
    BY RefilledBounded
<1>5. /\ end.queue \in Seq(Request) /\ end.tokens \in Nat /\ end.out \in Seq(Request)
      /\ end.tokens <= Refilled /\ Len(end.queue) <= Len(pending_requests)
    BY <1>2 DEF LoopGood, Loop
<1>6. /\ taken' \in Nat /\ taken' + available_tokens' = taken + Refilled
  <2>1. taken \in Nat
      BY DEF BucketIInv, BucketTypeOK
  <2> DEFINE tokens == end.tokens
  <2>2. tokens \in Nat /\ tokens <= Refilled /\ available_tokens' = tokens
        /\ taken' = taken + (Refilled - tokens)
      BY <1>3, <1>5
  <2> HIDE DEF tokens
  <2> QED BY <1>4, <2>1, <2>2
<1>7. BucketTypeOK'
  <2>1. served' \in Seq(Request)
      BY <1>3, <1>5, ConcatProperties DEF BucketIInv, BucketTypeOK
  <2>2. Len(pending_requests') <= arrivals'
    <3>1. Len(end.queue) \in Nat /\ Len(pending_requests) \in Nat
        BY <1>5, LenProperties DEF BucketIInv, BucketTypeOK
    <3> QED BY <1>3, <1>5, <3>1 DEF BucketIInv, BucketTypeOK
  <2> QED BY <1>3, <1>5, <1>6, <2>1, <2>2 DEF BucketIInv, BucketTypeOK
<1>8. Credit(max_bandwidth, bucket_capacity, taken + available_tokens, last_refill)'
    BY <1>3, <1>4, <1>6
<1>9. /\ Sorted(pending_requests)' /\ Granted(pending_requests, served)'
      /\ Stamped(pending_requests)' /\ Stamped(served)'
    BY <1>2, <1>3 DEF LoopGood, Stamped
<1> QED BY <1>7, <1>8, <1>9 DEF BucketIInv

\* the queue and the grants stay as they are
LEMMA OnlyTokens ==
    ASSUME BucketIInv, UNCHANGED <<pending_requests, served, now>>, BucketTypeOK',
           Credit(max_bandwidth, bucket_capacity, taken + available_tokens, last_refill)'
    PROVE  BucketIInv'
BY DEF BucketIInv, Stamped

\* where the requests of a queue are when one has been put in at i
LEMMA Inserted ==
    ASSUME NEW queue \in Seq(Request), NEW i \in 1 .. Len(queue) + 1, NEW r \in Request
    PROVE  /\ InsertAt(queue, i, r) \in Seq(Request)
           /\ Len(InsertAt(queue, i, r)) = Len(queue) + 1
           /\ DOMAIN InsertAt(queue, i, r) = 1 .. Len(queue) + 1
           /\ InsertAt(queue, i, r)[i] = r
           /\ \A k \in 1 .. i - 1 : InsertAt(queue, i, r)[k] = queue[k]
           /\ \A k \in i .. Len(queue) : InsertAt(queue, i, r)[k + 1] = queue[k]
<1> DEFINE left == SubSeq(queue, 1, i - 1)
           right == SubSeq(queue, i, Len(queue))
           front == left \o <<r>>
<1>1. Len(queue) \in Nat /\ \A k \in 1 .. Len(queue) : queue[k] \in Request
    BY LenProperties, ElementOfSeq
<1>2. left \in Seq(Request) /\ Len(left) = i - 1 /\ \A k \in 1 .. i - 1 : left[k] = queue[k]
  <2>1. \A k \in 1 .. i - 1 : queue[k] \in Request
      BY <1>1
  <2>2. 1 \in Int /\ i - 1 \in Int
      BY <1>1
  <2>3. /\ left \in Seq(Request) /\ Len(left) = (IF 1 <= i - 1 THEN i - 1 - 1 + 1 ELSE 0)
        /\ \A k \in 1 .. i - 1 - 1 + 1 : left[k] = queue[1 + k - 1]
      BY <2>1, <2>2, SubSeqProperties
  <2> QED BY <1>1, <2>3
<1>3. /\ right \in Seq(Request) /\ Len(right) = Len(queue) - i + 1
      /\ \A k \in 1 .. Len(queue) - i + 1 : right[k] = queue[i + k - 1]
  <2>1. \A k \in i .. Len(queue) : queue[k] \in Request
      BY <1>1
  <2>2. i \in Int /\ Len(queue) \in Int
      BY <1>1
  <2>3. /\ right \in Seq(Request)
        /\ Len(right) = (IF i <= Len(queue) THEN Len(queue) - i + 1 ELSE 0)
        /\ \A k \in 1 .. Len(queue) - i + 1 : right[k] = queue[i + k - 1]
      BY <2>1, <2>2, SubSeqProperties
  <2> QED BY <1>1, <2>3
<1>4. <<r>> \in Seq(Request) /\ Len(<<r>>) = 1 /\ <<r>>[1] = r
    OBVIOUS
<1> HIDE DEF left, right
<1>5. /\ front \in Seq(Request) /\ Len(front) = i /\ front[i] = r
      /\ \A k \in 1 .. i - 1 : front[k] = queue[k]
  <2>1. /\ front \in Seq(Request) /\ Len(front) = Len(left) + 1
        /\ \A k \in 1 .. Len(left) + 1 : front[k] = IF k <= Len(left) THEN left[k] ELSE <<r>>[k - Len(left)]
      BY <1>2, <1>4, ConcatProperties
  <2>2. ASSUME NEW k \in 1 .. i - 1 PROVE front[k] = queue[k]
    <3> HIDE DEF front
    <3> QED BY <1>2, <2>1
  <2>3. front[i] = r
    <3>1. i \in 1 .. Len(left) + 1 /\ ~(i <= Len(left)) /\ i - Len(left) = 1
        BY <1>1, <1>2
    <3> HIDE DEF front
    <3> QED BY <1>4, <2>1, <3>1
  <2>4. Len(left) + 1 = i
      BY <1>1, <1>2
  <2> QED BY <2>1, <2>2, <2>3, <2>4
<1> HIDE DEF front
<1> DEFINE more == front \o right
<1>6. /\ more \in Seq(Request) /\ Len(more) = Len(front) + Len(right)
      /\ \A k \in 1 .. Len(front) + Len(right) :
            more[k] = IF k <= Len(front) THEN front[k] ELSE right[k - Len(front)]
    BY <1>3, <1>5, ConcatProperties
<1>7. InsertAt(queue, i, r) = more
    BY DEF InsertAt, left, right, front
<1>8. Len(front) + Len(right) = Len(queue) + 1
    BY <1>1, <1>3, <1>5
<1> HIDE DEF more
<1>9. DOMAIN more = 1 .. Len(queue) + 1
    BY <1>6, <1>8, LenProperties
<1>10. more[i] = r /\ \A k \in 1 .. i - 1 : more[k] = queue[k]
    BY <1>1, <1>5, <1>6, <1>8
<1>11. ASSUME NEW k \in i .. Len(queue) PROVE more[k + 1] = queue[k]
  <2>1. /\ k + 1 \in 1 .. Len(queue) + 1 /\ ~(k + 1 <= i)
        /\ k + 1 - i \in 1 .. Len(queue) - i + 1 /\ i + (k + 1 - i) - 1 = k
      BY <1>1
  <2>2. more[k + 1] = right[k + 1 - i]
      BY <1>5, <1>6, <1>8, <2>1
  <2> QED BY <1>3, <2>1, <2>2
<1> QED BY <1>6, <1>7, <1>8, <1>9, <1>10, <1>11

LEMMA add_request_IInv ==
    ASSUME BucketIInv, NEW p \in Priority, NEW b \in RequestSizes, add_request(p, b)
    PROVE  BucketIInv'
<1> USE BucketAssumption
<1> DEFINE r == [priority |-> p, bytes |-> b, stamp |-> now]
           queue == pending_requests
<1>1. /\ arrivals < MaxRequests /\ arrivals' = arrivals + 1 /\ push(r)
      /\ UNCHANGED <<max_bandwidth, bucket_capacity, available_tokens, last_refill, now,
                     checked, served, taken>>
    BY DEF add_request
<1>2. queue \in Seq(Request) /\ served \in Seq(Request) /\ arrivals \in Nat /\ now \in Nat
    BY DEF BucketIInv, BucketTypeOK
<1>3. r \in Request /\ r.stamp = now
    BY <1>2 DEF Request
<1> HIDE DEF r
<1>4. PICK i \in 1 .. Len(queue) + 1 :
         /\ \A k \in 1 .. i - 1 : ~Precedes(r, queue[k])
         /\ \A k \in i .. Len(queue) : ~Precedes(queue[k], r)
         /\ pending_requests' = InsertAt(queue, i, r)
    BY <1>1 DEF push
<1> DEFINE more == InsertAt(queue, i, r)
<1>5. /\ DOMAIN queue = 1 .. Len(queue) /\ Len(queue) \in Nat
      /\ more \in Seq(Request) /\ Len(more) = Len(queue) + 1 /\ DOMAIN more = 1 .. Len(queue) + 1
      /\ more[i] = r /\ \A k \in 1 .. i - 1 : more[k] = queue[k]
      /\ \A k \in i .. Len(queue) : more[k + 1] = queue[k]
    BY <1>2, <1>3, Inserted, LenProperties
<1>6. pending_requests' = more
    BY <1>4
<1> HIDE DEF more
\* what is at k in the new queue
<1>7. ASSUME NEW k \in DOMAIN more
      PROVE  \/ k = i /\ more[k] = r
             \/ k < i /\ k \in DOMAIN queue /\ more[k] = queue[k]
             \/ k > i /\ k - 1 \in DOMAIN queue /\ k - 1 >= i /\ more[k] = queue[k - 1]
  <2>1. CASE k = i
      BY <1>5, <2>1
  <2>2. CASE k < i
    <3>1. k \in 1 .. i - 1 /\ k \in 1 .. Len(queue)
        BY <1>5, <2>2
    <3> QED BY <1>5, <2>2, <3>1
  <2>3. CASE k > i
    <3>1. k - 1 \in i .. Len(queue) /\ k - 1 \in 1 .. Len(queue) /\ (k - 1) + 1 = k
        BY <1>5, <2>3
    <3> QED BY <1>5, <2>3, <3>1
  <2>4. k \in Int /\ i \in Int
      BY <1>5
  <2> QED BY <2>1, <2>2, <2>3, <2>4
<1>8. Sorted(more)
  <2>1. ASSUME NEW k \in DOMAIN more, NEW l \in DOMAIN more, k < l
        PROVE  ~Precedes(more[l], more[k])
    <3>1. k \in Int /\ l \in Int /\ i \in Int
        BY <1>5
    <3>2. CASE k < i /\ l < i
      <4>1. /\ k \in DOMAIN queue /\ more[k] = queue[k]
            /\ l \in DOMAIN queue /\ more[l] = queue[l]
          BY <1>7, <3>1, <3>2
      <4> QED BY <2>1, <4>1 DEF BucketIInv, Sorted
    <3>3. CASE k < i /\ l = i
      <4>1. k \in 1 .. i - 1 /\ more[k] = queue[k] /\ more[l] = r
          BY <1>5, <3>1, <3>3
      <4> QED BY <1>4, <4>1
    <3>4. CASE k < i /\ l > i
      <4>1. /\ k \in DOMAIN queue /\ more[k] = queue[k] /\ k < l - 1
            /\ l - 1 \in DOMAIN queue /\ more[l] = queue[l - 1]
          BY <1>7, <3>1, <3>4
      <4> QED BY <4>1 DEF BucketIInv, Sorted
    <3>5. CASE k = i /\ l > i
      <4>1. l - 1 \in i .. Len(queue) /\ more[l] = queue[l - 1] /\ more[k] = r
          BY <1>5, <1>7, <3>1, <3>5
      <4> QED BY <1>4, <4>1
    <3>6. CASE k > i
      <4>1. /\ k - 1 \in DOMAIN queue /\ more[k] = queue[k - 1] /\ k - 1 < l - 1
            /\ l - 1 \in DOMAIN queue /\ more[l] = queue[l - 1]
          BY <1>7, <2>1, <3>1, <3>6
      <4> QED BY <4>1 DEF BucketIInv, Sorted
    <3> QED BY <2>1, <3>1, <3>2, <3>3, <3>4, <3>5, <3>6
  <2> QED BY <2>1 DEF Sorted
<1>9. Stamped(more)
  <2>1. ASSUME NEW k \in DOMAIN more PROVE more[k].stamp <= now
    <3>1. more[k] = r \/ \E l \in DOMAIN queue : more[k] = queue[l]
        BY <1>7
    <3> QED BY <1>2, <1>3, <3>1 DEF BucketIInv, Stamped
  <2> QED BY <2>1 DEF Stamped
<1>10. Granted(more, served)
  <2>1. ASSUME NEW j \in DOMAIN served, NEW k \in DOMAIN more,
               more[k].priority = served[j].priority
        PROVE  more[k].stamp >= served[j].stamp
    <3>1. served[j].stamp \in Nat /\ served[j].stamp <= now
      <4>1. served[j] \in Request
          BY <1>2, ElementOfSeq, LenProperties
      <4> QED BY <4>1 DEF Request, BucketIInv, Stamped
    <3>2. CASE more[k] = r
        BY <1>2, <1>3, <3>1, <3>2
    <3>3. CASE \E l \in DOMAIN queue : more[k] = queue[l]
        BY <2>1, <3>3 DEF BucketIInv, Granted
    <3> QED BY <1>7, <3>2, <3>3
  <2> QED BY <2>1 DEF BucketIInv, Granted
<1>11. BucketTypeOK'
    BY <1>1, <1>2, <1>5, <1>6 DEF BucketIInv, BucketTypeOK
<1>12. Credit(max_bandwidth, bucket_capacity, taken + available_tokens, last_refill)'
    BY <1>1 DEF BucketIInv
<1>13. Stamped(served)'
    BY <1>1 DEF BucketIInv, Stamped
<1>14. Stamped(pending_requests)'
    BY <1>1, <1>6, <1>9 DEF Stamped
<1> QED BY <1>1, <1>6, <1>8, <1>10, <1>11, <1>12, <1>13, <1>14 DEF BucketIInv

LEMMA can_send_IInv ==
    ASSUME BucketIInv, NEW s \in Senders, NEW b \in RequestSizes, can_send(s, b)
    PROVE  BucketIInv'
<1> USE BucketAssumption
<1>1. Refilled \in Nat /\ Credit(max_bandwidth, bucket_capacity, taken + Refilled, now)
    BY RefilledBounded
<1>2. /\ last_refill' = now /\ available_tokens' = Refilled
      /\ checked' = [checked EXCEPT ![s] = IF Refilled >= b THEN b ELSE 0]
      /\ UNCHANGED <<max_bandwidth, bucket_capacity, pending_requests, now, arrivals,
                     served, taken>>
    BY DEF can_send, Refill
<1>3. BucketTypeOK'
    BY <1>1, <1>2 DEF BucketIInv, BucketTypeOK
<1>4. Credit(max_bandwidth, bucket_capacity, taken + available_tokens, last_refill)'
    BY <1>1, <1>2
<1> QED BY <1>2, <1>3, <1>4, OnlyTokens

LEMMA consume_tokens_IInv ==
    ASSUME BucketIInv, NEW s \in Senders, consume_tokens(s)
    PROVE  BucketIInv'
<1> DEFINE paid == IF available_tokens >= checked[s] THEN checked[s] ELSE 0
<1>1. /\ available_tokens' = available_tokens - paid /\ taken' = taken + paid
      /\ checked' = [checked EXCEPT ![s] = 0]
      /\ UNCHANGED <<max_bandwidth, bucket_capacity, last_refill, pending_requests, now,
                     arrivals, served>>
    BY DEF consume_tokens
<1>2. paid \in Nat /\ paid <= available_tokens /\ taken \in Nat /\ available_tokens \in Nat
    BY DEF BucketIInv, BucketTypeOK
<1> HIDE DEF paid
<1>3. /\ available_tokens' \in Nat /\ taken' \in Nat
      /\ taken' + available_tokens' = taken + available_tokens
    BY <1>1, <1>2
<1>4. BucketTypeOK'
    BY <1>1, <1>3 DEF BucketIInv, BucketTypeOK
<1>5. Credit(max_bandwidth, bucket_capacity, taken + available_tokens, last_refill)'
    BY <1>1, <1>3 DEF BucketIInv
<1> QED BY <1>1, <1>4, <1>5, OnlyTokens

\* a larger setting, for the credit
LEMMA LargerSetting ==
    ASSUME BucketIInv, NEW rate \in Rates, NEW capacity \in Capacities, NEW tokens \in Nat,
           tokens <= taken + available_tokens
    PROVE  Credit(rate, capacity, tokens, last_refill)
<1> USE BucketAssumption
<1>1. PICK r \in Rates, c \in Capacities :
         /\ max_bandwidth <= r /\ bucket_capacity <= c
         /\ Second * (taken + available_tokens) <= Second * c + r * last_refill
    BY DEF BucketIInv, Credit
<1> DEFINE r1 == IF r <= rate THEN rate ELSE r
           c1 == IF c <= capacity THEN capacity ELSE c
<1>2. /\ r \in Nat /\ c \in Nat /\ r1 \in Rates /\ c1 \in Capacities /\ r1 \in Nat /\ c1 \in Nat
      /\ r <= r1 /\ c <= c1 /\ rate <= r1 /\ capacity <= c1
      /\ rate \in Nat /\ capacity \in Nat
    OBVIOUS
<1>3. last_refill \in Nat /\ Second \in Nat /\ taken + available_tokens \in Nat
    BY DEF BucketIInv, BucketTypeOK
<1> HIDE DEF r1, c1
<1>4. Second * tokens <= Second * (taken + available_tokens) /\ Second * tokens \in Nat
      /\ Second * (taken + available_tokens) \in Nat
    BY <1>3, TimesMonotone
<1>5. Second * c <= Second * c1 /\ Second * c \in Nat /\ Second * c1 \in Nat
    BY <1>2, <1>3, TimesMonotone
<1>6. r * last_refill <= r1 * last_refill /\ r * last_refill \in Nat /\ r1 * last_refill \in Nat
  <2>1. last_refill * r <= last_refill * r1
      BY <1>2, <1>3, TimesMonotone
  <2> QED BY <1>2, <1>3, <2>1
<1> DEFINE a == Second * tokens
           b == Second * (taken + available_tokens)
           d == Second * c
           e == Second * c1
           f == r * last_refill
           g == r1 * last_refill
<1>7. a <= e + g
  <2>1. /\ a <= b /\ b <= d + f /\ d <= e /\ f <= g
        /\ a \in Nat /\ b \in Nat /\ d \in Nat /\ e \in Nat /\ f \in Nat /\ g \in Nat
      BY <1>1, <1>4, <1>5, <1>6
  <2> HIDE DEF a, b, d, e, f, g
  <2> QED BY <2>1
<1> QED BY <1>2, <1>7 DEF Credit

LEMMA BucketNextIInv == BucketIInv /\ [BucketNext]_bucketVars => BucketIInv'
<1> SUFFICES ASSUME BucketIInv, [BucketNext]_bucketVars PROVE BucketIInv'
    OBVIOUS
<1> USE BucketAssumption
<1>1. CASE process_pending_requests
    BY <1>1, process_pending_requests_IInv
<1>2. ASSUME NEW p \in Priority, NEW b \in RequestSizes, add_request(p, b) PROVE BucketIInv'
    BY <1>2, add_request_IInv
<1>3. ASSUME NEW s \in Senders, NEW b \in RequestSizes, can_send(s, b) PROVE BucketIInv'
    BY <1>3, can_send_IInv
<1>4. ASSUME NEW s \in Senders, consume_tokens(s) PROVE BucketIInv'
    BY <1>4, consume_tokens_IInv
<1>5. CASE refill_bucket
  <2>1. Refilled \in Nat /\ Credit(max_bandwidth, bucket_capacity, taken + Refilled, now)
      BY RefilledBounded
  <2>2. /\ last_refill' = now /\ available_tokens' = Refilled
        /\ UNCHANGED <<max_bandwidth, bucket_capacity, pending_requests, now, checked, arrivals,
                       served, taken>>
      BY <1>5 DEF refill_bucket, Refill
  <2>3. BucketTypeOK'
      BY <2>1, <2>2 DEF BucketIInv, BucketTypeOK
  <2>4. Credit(max_bandwidth, bucket_capacity, taken + available_tokens, last_refill)'
      BY <2>1, <2>2
  <2> QED BY <2>2, <2>3, <2>4, OnlyTokens
<1>6. ASSUME NEW r \in Rates, set_max_bandwidth(r) PROVE BucketIInv'
  <2>1. /\ max_bandwidth' = r
        /\ UNCHANGED <<bucket_capacity, available_tokens, last_refill, pending_requests, now,
                       checked, arrivals, served, taken>>
      BY <1>6 DEF set_max_bandwidth
  <2>2. BucketTypeOK'
      BY <2>1 DEF BucketIInv, BucketTypeOK
  <2>3. bucket_capacity \in Capacities /\ taken + available_tokens \in Nat
      BY DEF BucketIInv, BucketTypeOK
  <2>4. Credit(r, bucket_capacity, taken + available_tokens, last_refill)
      BY <2>3, LargerSetting
  <2> QED BY <2>1, <2>2, <2>4, OnlyTokens
<1>7. ASSUME NEW c \in Capacities, set_bucket_capacity(c) PROVE BucketIInv'
  <2>1. /\ bucket_capacity' = c /\ available_tokens' = Smaller(available_tokens, c)
        /\ UNCHANGED <<max_bandwidth, last_refill, pending_requests, now, checked, arrivals,
                       served, taken>>
      BY <1>7 DEF set_bucket_capacity
  <2>2. /\ max_bandwidth \in Rates /\ available_tokens \in Nat /\ taken \in Nat /\ c \in Nat
      BY DEF BucketIInv, BucketTypeOK
  <2>3. available_tokens' \in Nat /\ available_tokens' <= available_tokens
      BY <2>1, <2>2 DEF Smaller
  <2>4. BucketTypeOK'
      BY <2>1, <2>3 DEF BucketIInv, BucketTypeOK
  <2> DEFINE tokens == available_tokens'
  <2>5. taken + tokens \in Nat /\ taken + tokens <= taken + available_tokens
    <3>1. tokens \in Nat /\ tokens <= available_tokens
        BY <2>3
    <3> HIDE DEF tokens
    <3> QED BY <2>2, <3>1
  <2>6. Credit(max_bandwidth, c, taken + available_tokens', last_refill)
      BY <2>2, <2>5, LargerSetting
  <2> QED BY <2>1, <2>4, <2>6, OnlyTokens
<1>8. CASE Tick
  <2>1. /\ now' = now + 1
        /\ UNCHANGED <<max_bandwidth, bucket_capacity, available_tokens, last_refill,
                       pending_requests, checked, arrivals, served, taken>>
      BY <1>8 DEF Tick
  <2>2. BucketTypeOK'
      BY <2>1 DEF BucketIInv, BucketTypeOK
  <2>3. ASSUME NEW q \in Seq(Request), Stamped(q), NEW k \in DOMAIN q PROVE q[k].stamp <= now + 1
    <3>1. q[k].stamp <= now /\ q[k].stamp \in Nat /\ now \in Nat
      <4>1. q[k] \in Request
          BY <2>3, ElementOfSeq, LenProperties
      <4> QED BY <2>3, <4>1 DEF Request, Stamped, BucketIInv, BucketTypeOK
    <3> QED BY <3>1
  <2>4. Stamped(pending_requests)' /\ Stamped(served)'
      BY <2>1, <2>3 DEF Stamped, BucketIInv, BucketTypeOK
  <2>5. Granted(pending_requests, served)' /\ Sorted(pending_requests)'
      BY <2>1 DEF BucketIInv
  <2>6. Credit(max_bandwidth, bucket_capacity, taken + available_tokens, last_refill)'
      BY <2>1 DEF BucketIInv
  <2> QED BY <2>2, <2>4, <2>5, <2>6 DEF BucketIInv
<1>9. CASE UNCHANGED bucketVars
    BY <1>9 DEF bucketVars, BucketIInv, BucketTypeOK, Stamped
<1> QED BY <1>1, <1>2, <1>3, <1>4, <1>5, <1>6, <1>7, <1>8, <1>9 DEF BucketNext

LEMMA BucketInvariant == BucketSpec => []BucketIInv
BY BucketInitIInv, BucketNextIInv, PTL DEF BucketSpec

(***************************************************************************)
(* For any rates, capacities and number of senders, the tokens that leave  *)
(* the bucket are bounded by the largest bucket and the largest bandwidth  *)
(* over the time gone by (update_tokens, and every call that uses it).     *)
(***************************************************************************)
THEOREM TokensAreBounded == BucketSpec => []TokenBucket
<1>1. BucketIInv => TokenBucket
  <2> SUFFICES ASSUME BucketIInv PROVE TokenBucket
      OBVIOUS
  <2>1. /\ taken + available_tokens \in Nat /\ last_refill \in Nat /\ now \in Nat
        /\ last_refill <= now
      BY DEF BucketIInv, BucketTypeOK
  <2>2. Credit(max_bandwidth, bucket_capacity, taken + available_tokens, now)
      BY <2>1, LessCredit DEF BucketIInv
  <2> QED BY <2>2 DEF TokenBucket, Credit
<1> QED BY <1>1, BucketInvariant, PTL

(***************************************************************************)
(* For any number of requests, and grants spread over any number of calls, *)
(* requests of one priority are granted in the order of their time stamps  *)
(* (process_pending_requests and the order of its priority queue).         *)
(***************************************************************************)
THEOREM GrantsKeepOrder == BucketSpec => []GrantedInOrder
<1>1. BucketIInv => GrantedInOrder
    BY GrantedIsProperty DEF BucketIInv
<1> QED BY <1>1, BucketInvariant, PTL
=============================================================================
