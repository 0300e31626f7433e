---------------------------- MODULE CryptoProofs ----------------------------
(***************************************************************************)
(* Proofs about NonceManager (replay protection for every set of peers,    *)
(* every nonce width and every window size) and about SecureHandshake (for *)
(* any number of nodes, keys, messages and any clocks).                    *)
(***************************************************************************)
EXTENDS NonceManager, SecureHandshake, FiniteSetTheorems, TLAPS

(***************************************************************************)
(* The invariant behind all of it: recent_nonces is the part of the        *)
(* accepted nonces that lies above the cutoff, and no accepted nonce is    *)
(* above highest_seen.                                                     *)
(***************************************************************************)
RecentIsWindow(p) ==
    /\ \A n \in accepted[p] : n <= highest_seen[p]
    /\ recent_nonces[p] = Kept(accepted[p], highest_seen[p])

IInv ==
    /\ TypeOK
    /\ \A p \in Peers : RecentIsWindow(p)
    /\ RejectsOnlyForCause

-----------------------------------------------------------------------------
\* Below the cutoff the sum of the test of age does not overflow.
LEMMA BelowCutoffTooOld ==
    ASSUME TypeOK, NEW p \in Peers, NEW n \in Nonces, n < Cutoff(highest_seen[p])
    PROVE  TooOld(p, n) /\ n + window_size < highest_seen[p]
<1> DEFINE h == highest_seen[p]
<1>1. h \in Nonces
  BY DEF TypeOK
<1> HIDE DEF h
<1>2. n \in Nat /\ h \in Nat /\ h < NonceMod /\ window_size \in Nat /\ NonceMod \in Nat
  BY <1>1, NonceAssumption DEF Nonces
<1>3. h > window_size /\ n < h - window_size
  BY <1>2 DEF Cutoff, h
<1>4. n + window_size < h /\ n + window_size < NonceMod
  BY <1>2, <1>3
<1>5. QED
  BY <1>2, <1>4 DEF TooOld, WrapAdd, h

\* An accepted nonce fails one of the two tests of verify_incoming_nonce.
LEMMA AcceptedIsRefused ==
    ASSUME IInv, NEW p \in Peers, NEW n \in accepted[p]
    PROVE  n \in recent_nonces[p] \/ TooOld(p, n)
<1>1. TypeOK /\ RecentIsWindow(p) /\ n \in Nonces
  BY DEF IInv, TypeOK
<1>2. CASE n < Cutoff(highest_seen[p])
  BY <1>1, <1>2, BelowCutoffTooOld
<1>3. CASE ~(n < Cutoff(highest_seen[p]))
  <2>1. Cutoff(highest_seen[p]) \in Nat /\ n \in Nat
    <3>1. highest_seen[p] \in Nat /\ window_size \in Nat /\ n \in Nat
      BY <1>1, NonceAssumption DEF TypeOK, Nonces
    <3>2. QED
      BY <3>1 DEF Cutoff
  <2>2. QED
    BY <1>1, <1>3, <2>1 DEF RecentIsWindow, Kept
<1>4. QED
  BY <1>2, <1>3

-----------------------------------------------------------------------------
LEMMA InitIInv == Init => IInv
<1> SUFFICES ASSUME Init PROVE IInv
  OBVIOUS
<1>1. TypeOK
  BY NonceAssumption DEF Init, TypeOK, Nonces
<1>2. ASSUME NEW p \in Peers
      PROVE  RecentIsWindow(p)
  BY DEF Init, RecentIsWindow, Kept
<1>3. RejectsOnlyForCause
  BY DEF Init, RejectsOnlyForCause
<1>4. QED
  BY <1>1, <1>2, <1>3 DEF IInv

\* The cleanup may use the new highest_seen: the cutoff only rises, so what an
\* earlier cleanup dropped stays below it.
LEMMA AcceptIInv ==
    ASSUME IInv, NEW p \in Peers, NEW n \in Nonces, AcceptNonce(p, n)
    PROVE  IInv'
<1> DEFINE h == highest_seen[p]
           top == IF n > h THEN n ELSE h
<1>1. TypeOK /\ RecentIsWindow(p)
  BY DEF IInv
<1>2. /\ h \in Nat /\ n \in Nat /\ top \in Nat /\ top \in Nonces
      /\ h <= top /\ n <= top /\ window_size \in Nat
  BY <1>1, NonceAssumption DEF TypeOK, Nonces
<1>3. /\ highest_seen' = [highest_seen EXCEPT ![p] = top]
      /\ recent_nonces' = [recent_nonces EXCEPT ![p] = Kept(@ \cup {n}, top)]
      /\ accepted' = [accepted EXCEPT ![p] = @ \cup {n}]
      /\ outgoing_counter' = outgoing_counter
      /\ verdict'.ok = TRUE
  BY DEF AcceptNonce, Verdict
<1> HIDE DEF top, h
<1>4. TypeOK'
  BY <1>1, <1>2, <1>3 DEF TypeOK, Kept
<1>5. RejectsOnlyForCause'
  BY <1>3 DEF RejectsOnlyForCause
<1>6. ASSUME NEW q \in Peers
      PROVE  RecentIsWindow(q)'
  <2>1. CASE q # p
    BY <1>1, <1>3, <2>1 DEF IInv, TypeOK, RecentIsWindow, Kept
  <2>2. CASE q = p
    <3>1. /\ highest_seen'[p] = top
          /\ recent_nonces'[p] = Kept(recent_nonces[p] \cup {n}, top)
          /\ accepted'[p] = accepted[p] \cup {n}
      BY <1>1, <1>3 DEF TypeOK
    <3>2. /\ \A x \in accepted[p] : x <= h /\ x \in Nat
          /\ recent_nonces[p] = {x \in accepted[p] : x >= Cutoff(h)}
      BY <1>1 DEF RecentIsWindow, Kept, TypeOK, Nonces, h
    <3>3. Cutoff(h) \in Nat /\ Cutoff(top) \in Nat /\ Cutoff(h) <= Cutoff(top)
      BY <1>2 DEF Cutoff
    <3>4. Kept(recent_nonces[p] \cup {n}, top) = Kept(accepted[p] \cup {n}, top)
      BY <1>2, <3>2, <3>3 DEF Kept
    <3>5. \A x \in accepted[p] \cup {n} : x <= top
      BY <1>2, <3>2
    <3>6. QED
      BY <2>2, <3>1, <3>4, <3>5 DEF RecentIsWindow
  <2>3. QED
    BY <2>1, <2>2
<1>7. QED
  BY <1>4, <1>5, <1>6 DEF IInv

\* A refusal has one of the three causes: replay, age, overflow.
LEMMA RejectIInv ==
    ASSUME IInv, NEW p \in Peers, NEW n \in Nonces, RejectNonce(p, n)
    PROVE  IInv'
<1>1. /\ UNCHANGED <<outgoing_counter, highest_seen, recent_nonces, accepted>>
      /\ n \in recent_nonces[p] \/ TooOld(p, n)
      /\ verdict' = [peer |-> {p}, nonce |-> n, highest |-> highest_seen[p],
                     seen |-> n \in accepted[p], ok |-> FALSE]
  BY DEF RejectNonce, Verdict
<1>2. TypeOK' /\ \A q \in Peers : RecentIsWindow(q)'
  BY <1>1 DEF IInv, TypeOK, RecentIsWindow, Kept
<1>3. \/ n \in accepted[p]
      \/ n + window_size < highest_seen[p]
      \/ n + window_size >= NonceMod
  <2>1. CASE n \in recent_nonces[p]
    BY <2>1 DEF IInv, RecentIsWindow, Kept
  <2>2. CASE TooOld(p, n)
    <3>1. n \in Nat /\ window_size \in Nat /\ NonceMod \in Nat
      BY NonceAssumption DEF Nonces
    <3>2. QED
      BY <2>2, <3>1 DEF TooOld, WrapAdd
  <2>3. QED
    BY <1>1, <2>1, <2>2
<1>4. RejectsOnlyForCause'
  BY <1>1, <1>3 DEF RejectsOnlyForCause
<1>5. QED
  BY <1>2, <1>4 DEF IInv

LEMMA ResetIInv ==
    ASSUME IInv, NEW p \in Peers, reset_peer_nonces(p)
    PROVE  IInv'
<1>1. TypeOK'
  BY NonceAssumption DEF IInv, TypeOK, reset_peer_nonces, Nonces
<1>2. ASSUME NEW q \in Peers
      PROVE  RecentIsWindow(q)'
  <2>1. CASE q = p
    BY <2>1 DEF IInv, TypeOK, RecentIsWindow, Kept, reset_peer_nonces
  <2>2. CASE q # p
    BY <2>2 DEF IInv, TypeOK, RecentIsWindow, Kept, reset_peer_nonces
  <2>3. QED
    BY <2>1, <2>2
<1>3. RejectsOnlyForCause'
  BY DEF reset_peer_nonces, RejectsOnlyForCause
<1>4. QED
  BY <1>1, <1>2, <1>3 DEF IInv

LEMMA GenerateIInv ==
    ASSUME IInv, generate_outgoing_nonce
    PROVE  IInv'
<1>1. outgoing_counter' \in Nonces
  BY NonceAssumption DEF IInv, TypeOK, Nonces, generate_outgoing_nonce, WrapAdd
<1>2. UNCHANGED <<highest_seen, recent_nonces, accepted, verdict>>
  BY DEF generate_outgoing_nonce
<1>3. QED
  BY <1>1, <1>2 DEF IInv, TypeOK, RecentIsWindow, Kept, RejectsOnlyForCause

\* Every call keeps the invariant.
LEMMA NextIInv == IInv /\ [Next]_vars => IInv'
<1> SUFFICES ASSUME IInv, [Next]_vars PROVE IInv'
  OBVIOUS
<1>1. CASE UNCHANGED vars
  BY <1>1 DEF vars, IInv, TypeOK, RecentIsWindow, Kept, RejectsOnlyForCause
<1>2. CASE Next
  BY <1>2, AcceptIInv, RejectIInv, ResetIInv, GenerateIInv DEF Next
<1>3. QED
  BY <1>1, <1>2

LEMMA Invariance == Spec => []IInv
BY InitIInv, NextIInv, PTL DEF Spec

-----------------------------------------------------------------------------
(***************************************************************************)
(* Type correctness; the counters stay 64-bit numbers.                     *)
(***************************************************************************)
THEOREM TypeCorrect == Spec => []TypeOK
<1>1. IInv => TypeOK
  BY DEF IInv
<1>2. QED
  BY <1>1, Invariance, PTL

(***************************************************************************)
(* verify_incoming_nonce never accepts a nonce twice between two resets:   *)
(* the window implements the abstract guard.                               *)
(***************************************************************************)
THEOREM ReplayProtection == Spec => GuardSpec
<1>1. Init => Guard!Init
  BY DEF Init, NoVerdict, Answer, Guard!Init, Guard!NoAnswer
<1>2. IInv /\ [Next]_vars => [Guard!Next]_Guard!vars
  <2> SUFFICES ASSUME IInv, [Next]_vars PROVE [Guard!Next]_Guard!vars
    OBVIOUS
  <2>1. ASSUME NEW p \in Peers, NEW n \in Nonces, AcceptNonce(p, n)
        PROVE  Guard!Next
    <3>1. n \notin accepted[p]
      BY <2>1, AcceptedIsRefused DEF AcceptNonce
    <3>2. /\ accepted' = [accepted EXCEPT ![p] = @ \cup {n}]
          /\ Answer' = [peer |-> {p}, nonce |-> n, seen |-> FALSE, ok |-> TRUE]
      <4>1. (n \in accepted[p]) = FALSE
        BY <3>1
      <4>2. /\ accepted' = [accepted EXCEPT ![p] = @ \cup {n}]
            /\ Answer' = [peer |-> {p}, nonce |-> n, seen |-> n \in accepted[p], ok |-> TRUE]
        BY <2>1 DEF AcceptNonce, Verdict, Answer
      <4>3. QED
        BY <4>1, <4>2, Zenon
    <3>3. Guard!Accept(p, n)
      BY <3>1, <3>2 DEF Guard!Accept
    <3>4. QED
      BY <3>3 DEF Guard!Next
  <2>2. ASSUME NEW p \in Peers, NEW n \in Nonces, RejectNonce(p, n)
        PROVE  Guard!Next
    <3>1. /\ UNCHANGED accepted
          /\ Answer' = [peer |-> {p}, nonce |-> n, seen |-> n \in accepted[p], ok |-> FALSE]
      BY <2>2 DEF RejectNonce, Verdict, Answer
    <3>2. Guard!Refuse(p, n)
      BY <3>1 DEF Guard!Refuse
    <3>3. QED
      BY <3>2 DEF Guard!Next
  <2>3. ASSUME NEW p \in Peers, reset_peer_nonces(p)
        PROVE  Guard!Next
    <3>1. Guard!Reset(p)
      BY <2>3 DEF reset_peer_nonces, NoVerdict, Answer, Guard!Reset, Guard!NoAnswer
    <3>2. QED
      BY <3>1 DEF Guard!Next
  <2>4. CASE generate_outgoing_nonce \/ UNCHANGED vars
    BY <2>4 DEF generate_outgoing_nonce, vars, Answer, Guard!vars
  <2>5. QED
    BY <2>1, <2>2, <2>3, <2>4 DEF Next
<1>3. QED
  BY <1>1, <1>2, Invariance, PTL DEF Spec, GuardSpec, Guard!Spec

(***************************************************************************)
(* The cleanup forgets only what the test of age rejects.                  *)
(***************************************************************************)
THEOREM CleanupSound == Spec => []ForgottenIsTooOld
<1>1. IInv => ForgottenIsTooOld
  BY AcceptedIsRefused DEF ForgottenIsTooOld
<1>2. QED
  BY <1>1, Invariance, PTL

(***************************************************************************)
(* Fresh nonces inside the window are never refused, short of overflow.    *)
(***************************************************************************)
THEOREM NoSpuriousReject == Spec => []RejectsOnlyForCause
<1>1. IInv => RejectsOnlyForCause
  BY DEF IInv
<1>2. QED
  BY <1>1, Invariance, PTL

(***************************************************************************)
(* The memory kept for one peer is bounded by the window.                  *)
(***************************************************************************)
THEOREM MemoryBounded == Spec => []WindowBoundsMemory
<1>1. ASSUME IInv, NEW p \in Peers
      PROVE  Cardinality(recent_nonces[p]) <= window_size + 1
  <2> DEFINE h == highest_seen[p]
             W == Cutoff(h) .. h
  <2>1. h \in Nat /\ window_size \in Nat /\ accepted[p] \subseteq Nat
    BY <1>1, NonceAssumption DEF IInv, TypeOK, Nonces
  <2>2. recent_nonces[p] \subseteq W
    BY <1>1, <2>1 DEF IInv, RecentIsWindow, Kept, Cutoff
  <2>3. Cutoff(h) \in Nat /\ Cutoff(h) <= h /\ h - Cutoff(h) <= window_size
    BY <2>1 DEF Cutoff
  <2> HIDE DEF h
  <2>4. IsFiniteSet(W) /\ Cardinality(W) = h - Cutoff(h) + 1
    <3> DEFINE c == Cutoff(h)
    <3>1. c \in Int /\ h \in Int /\ ~(c > h)
      BY <2>1, <2>3
    <3> HIDE DEF c
    <3>2. IsFiniteSet(c .. h) /\ Cardinality(c .. h) = h - c + 1
      BY <3>1, FS_Interval
    <3>3. QED
      BY <3>2 DEF c
  <2>5. /\ Cardinality(recent_nonces[p]) <= Cardinality(W)
        /\ IsFiniteSet(recent_nonces[p])
    <3> HIDE DEF W
    <3>1. QED
      BY <2>2, <2>4, FS_Subset
  <2>6. Cardinality(recent_nonces[p]) \in Nat
    BY <2>5, FS_CardinalityType
  <2>7. QED
    BY <2>1, <2>3, <2>4, <2>5, <2>6
<1>2. IInv => WindowBoundsMemory
  BY <1>1 DEF WindowBoundsMemory
<1>3. QED
  BY <1>2, Invariance, PTL

-----------------------------------------------------------------------------
(***************************************************************************)
(* SecureHandshake.  The inductive invariant says which keys exist         *)
(* (nothing holds an ephemeral key that was not drawn yet), what an ack    *)
(* carries, and where the ephemeral key of a COMPLETE node's peer came     *)
(* from.                                                                   *)
(***************************************************************************)

\* the keys a node holds, and that are in the messages and session keys, were drawn
HeldDrawn == \A n \in Nodes : /\ hs[n].eph <= fresh
                              /\ hs[n].peer_eph <= fresh
                              /\ hs[n].rotation_counter <= fresh

SentDrawn == \A m \in network : m.eph <= fresh

PastDrawn == \A n \in Nodes : \A keys \in past[n] : \A k \in keys.pair : k <= fresh

\* an ack is signed over the initiator's ephemeral key and the one drawn after it
AcksOrdered == \A m \in Of("ack") : m.context[4] = m.eph /\ m.context[3] < m.eph

HandshakeIInv == HandshakeTypeOK /\ HeldDrawn /\ SentDrawn /\ PastDrawn /\ AcksOrdered /\ PeerBound

-----------------------------------------------------------------------------
\* complete_handshake never accepts an ack
LEMMA NoAckVerifies ==
    ASSUME HandshakeTypeOK, AcksOrdered, NEW n \in Nodes, NEW m \in Of("ack"),
           NEW intact \in BOOLEAN
    PROVE  ~verify_ack_signature(n, m, intact)
<1>1. SUFFICES ASSUME m.context = <<hs[n].peer_identity, n, m.eph, hs[n].eph>>
               PROVE  FALSE
    BY DEF verify_ack_signature, create_handshake_context
<1>2. m.context[3] = m.eph
    BY <1>1
<1>3. m.eph \in Nat /\ m.context[3] < m.eph
    BY DEF AcksOrdered, HandshakeTypeOK, Of, Message, Key
<1> QED BY <1>2, <1>3

-----------------------------------------------------------------------------
\* what a new value h of one node's members must satisfy
LEMMA NodeStep ==
    ASSUME HandshakeIInv, NEW n \in Nodes, NEW h \in Handshake, hs' = [hs EXCEPT ![n] = h],
           fresh' \in Key, fresh <= fresh', network \subseteq network',
           h.eph <= fresh', h.peer_eph <= fresh', h.rotation_counter <= fresh',
           h.phase = "COMPLETE" =>
               \E m \in network' : /\ m.type \in {"handshake", "rotation"}
                                   /\ m.from = h.peer_identity /\ m.eph = h.peer_eph
    PROVE  hs' \in [Nodes -> Handshake] /\ HeldDrawn' /\ PeerBound'
<1>1. /\ hs \in [Nodes -> Handshake] /\ fresh \in Nat /\ fresh' \in Nat
    BY HandshakeAssumption DEF HandshakeIInv, HandshakeTypeOK, Key
<1>2. \A p \in Nodes : hs'[p] = IF p = n THEN h ELSE hs[p]
    BY <1>1
<1>3. hs' \in [Nodes -> Handshake]
    BY <1>1
<1>4. HeldDrawn'
  <2>1. SUFFICES ASSUME NEW p \in Nodes
                 PROVE  /\ hs'[p].eph <= fresh' /\ hs'[p].peer_eph <= fresh'
                        /\ hs'[p].rotation_counter <= fresh'
      BY DEF HeldDrawn
  <2>2. CASE p = n
      BY <1>2, <2>2
  <2>3. CASE p # n
    <3>1. hs'[p] = hs[p] /\ hs[p] \in Handshake
        BY <1>1, <1>2, <2>3
    <3>2. hs[p].eph \in Nat /\ hs[p].peer_eph \in Nat /\ hs[p].rotation_counter \in Nat
        BY <3>1, HandshakeAssumption DEF Handshake, Key
    <3>3. hs[p].eph <= fresh /\ hs[p].peer_eph <= fresh /\ hs[p].rotation_counter <= fresh
        BY DEF HandshakeIInv, HeldDrawn
    <3> QED BY <1>1, <3>1, <3>2, <3>3
  <2> QED BY <2>2, <2>3
<1>5. PeerBound'
  <2>1. SUFFICES ASSUME NEW p \in Nodes, hs'[p].phase = "COMPLETE"
                 PROVE  \E m \in network' : /\ m.type \in {"handshake", "rotation"}
                                            /\ m.from = hs'[p].peer_identity
                                            /\ m.eph = hs'[p].peer_eph
      BY DEF PeerBound, Of
  <2>2. CASE p = n
      BY <1>2, <2>1, <2>2
  <2>3. CASE p # n
    <3>1. hs'[p] = hs[p]
        BY <1>2, <2>3
    <3>2. PICK m \in network : /\ m.type \in {"handshake", "rotation"}
                               /\ m.from = hs[p].peer_identity /\ m.eph = hs[p].peer_eph
        BY <2>1, <3>1 DEF HandshakeIInv, PeerBound, Of
    <3> QED BY <3>1, <3>2
  <2> QED BY <2>2, <2>3
<1> QED BY <1>3, <1>4, <1>5

\* what a message that is sent must satisfy
LEMMA SendStep ==
    ASSUME HandshakeIInv, NEW m \in Message, network' = network \cup {m},
           fresh' \in Key, fresh <= fresh', m.eph <= fresh',
           m.type = "ack" => m.context[4] = m.eph /\ m.context[3] < m.eph
    PROVE  network' \subseteq Message /\ SentDrawn' /\ AcksOrdered'
<1>1. /\ network \subseteq Message /\ fresh \in Nat /\ fresh' \in Nat
    BY HandshakeAssumption DEF HandshakeIInv, HandshakeTypeOK, Key
<1>2. network' \subseteq Message
    BY <1>1
<1>3. SentDrawn'
  <2>1. SUFFICES ASSUME NEW x \in network' PROVE x.eph <= fresh'
      BY DEF SentDrawn
  <2>2. CASE x \in network
    <3>1. x.eph \in Nat /\ x.eph <= fresh
        BY <1>1, <2>2, HandshakeAssumption DEF HandshakeIInv, SentDrawn, Message, Key
    <3> QED BY <1>1, <3>1
  <2>3. CASE x = m
      BY <2>3
  <2> QED BY <2>2, <2>3
<1>4. AcksOrdered'
    BY DEF HandshakeIInv, AcksOrdered, Of
<1> QED BY <1>2, <1>3, <1>4

\* nothing is sent
LEMMA SilentStep ==
    ASSUME HandshakeIInv, UNCHANGED network, fresh' \in Key, fresh <= fresh'
    PROVE  network' \subseteq Message /\ SentDrawn' /\ AcksOrdered'
<1>1. /\ network \subseteq Message /\ fresh \in Nat /\ fresh' \in Nat
    BY HandshakeAssumption DEF HandshakeIInv, HandshakeTypeOK, Key
<1>2. ASSUME NEW x \in network' PROVE x.eph <= fresh'
  <2>1. x.eph \in Nat /\ x.eph <= fresh
      BY <1>1, HandshakeAssumption DEF HandshakeIInv, SentDrawn, Message, Key
  <2> QED BY <1>1, <2>1
<1> QED BY <1>1, <1>2 DEF HandshakeIInv, AcksOrdered, SentDrawn, Of

\* what the session keys that a node obtains must satisfy
LEMMA KeysStep ==
    ASSUME HandshakeIInv, NEW n \in Nodes, NEW keys \in SessionKeys, Obtains(n, keys),
           fresh' \in Key, fresh <= fresh', \A k \in keys.pair : k <= fresh'
    PROVE  /\ session' \in [Nodes -> SUBSET SessionKeys]
           /\ past' \in [Nodes -> SUBSET SessionKeys]
           /\ PastDrawn'
<1>1. /\ session \in [Nodes -> SUBSET SessionKeys] /\ past \in [Nodes -> SUBSET SessionKeys]
      /\ fresh \in Nat /\ fresh' \in Nat
    BY HandshakeAssumption DEF HandshakeIInv, HandshakeTypeOK, Key
<1>2. \A p \in Nodes : past'[p] = IF p = n THEN past[p] \cup {keys} ELSE past[p]
    BY <1>1 DEF Obtains
<1>3. PastDrawn'
  <2>1. SUFFICES ASSUME NEW p \in Nodes, NEW x \in past'[p], NEW k \in x.pair
                 PROVE  k <= fresh'
      BY DEF PastDrawn
  <2>2. CASE x \in past[p]
    <3>1. x \in SessionKeys
        BY <1>1, <2>2
    <3>2. k \in Nat
        BY <3>1, HandshakeAssumption DEF SessionKeys, Key
    <3>3. k <= fresh
        BY <2>2 DEF HandshakeIInv, PastDrawn
    <3> QED BY <1>1, <3>2, <3>3
  <2>3. CASE x = keys
      BY <2>3
  <2> QED BY <1>2, <2>2, <2>3
<1>4. /\ session' \in [Nodes -> SUBSET SessionKeys]
      /\ past' \in [Nodes -> SUBSET SessionKeys]
    BY <1>1 DEF Obtains
<1> QED BY <1>3, <1>4

\* a node keeps the keys it has
LEMMA KeepStep ==
    ASSUME HandshakeIInv, KeepsKeys, fresh' \in Key, fresh <= fresh'
    PROVE  /\ session' \in [Nodes -> SUBSET SessionKeys]
           /\ past' \in [Nodes -> SUBSET SessionKeys]
           /\ PastDrawn'
<1>1. /\ session \in [Nodes -> SUBSET SessionKeys] /\ past \in [Nodes -> SUBSET SessionKeys]
      /\ fresh \in Nat /\ fresh' \in Nat
    BY HandshakeAssumption DEF HandshakeIInv, HandshakeTypeOK, Key
<1>2. SUFFICES ASSUME NEW p \in Nodes, NEW x \in past[p], NEW k \in x.pair
               PROVE  k <= fresh'
    BY <1>1 DEF PastDrawn, KeepsKeys
<1>3. x \in SessionKeys
    BY <1>1
<1>4. k \in Nat
    BY <1>3, HandshakeAssumption DEF SessionKeys, Key
<1>5. k <= fresh
    BY DEF HandshakeIInv, PastDrawn
<1> QED BY <1>1, <1>4, <1>5

-----------------------------------------------------------------------------
LEMMA HandshakeInitIInv == HandshakeInit => HandshakeIInv
<1> SUFFICES ASSUME HandshakeInit PROVE HandshakeIInv
    OBVIOUS
<1>1. ASSUME NEW n \in Nodes
      PROVE  /\ hs[n].eph = 0 /\ hs[n].peer_eph = 0 /\ hs[n].rotation_counter = 0
             /\ hs[n].phase = "INITIATE" /\ hs[n] \in Handshake
  <2>1. PICK id \in Identity :
            hs[n] = [phase |-> "INITIATE", eph |-> 0, peer_eph |-> 0, peer_identity |-> id,
                     nonce |-> 0, rotation_counter |-> 0, pending |-> 0]
      BY DEF HandshakeInit
  <2> QED BY <2>1, HandshakeAssumption DEF Handshake, Phase, Key
<1>2. hs \in [Nodes -> Handshake]
  <2>1. DOMAIN hs = Nodes /\ hs = [n \in Nodes |-> hs[n]]
      BY DEF HandshakeInit
  <2> QED BY <1>1, <2>1
<1>3. HandshakeTypeOK
  <2>1. last \in [op: Call, node: Identity, ok: BOOLEAN]
    <3>1. last = [op |-> "", node |-> NoKey, ok |-> TRUE]
        BY DEF HandshakeInit
    <3> QED BY <3>1 DEF Identity, Call
  <2>2. network \subseteq Message /\ fresh \in Key /\ now \in 0 .. MaxTime
    <3>1. network = {} /\ fresh = 0 /\ now = 0
        BY DEF HandshakeInit
    <3> QED BY <3>1, HandshakeAssumption DEF Key
  <2>3. /\ uptime \in [Nodes -> Uptimes]
        /\ session \in [Nodes -> SUBSET SessionKeys] /\ past \in [Nodes -> SUBSET SessionKeys]
      BY DEF HandshakeInit
  <2> QED BY <1>2, <2>1, <2>2, <2>3 DEF HandshakeTypeOK
<1>4. HeldDrawn /\ PeerBound
  <2>1. fresh = 0
      BY DEF HandshakeInit
  <2> QED BY <1>1, <2>1 DEF HeldDrawn, PeerBound
<1>5. SentDrawn /\ PastDrawn /\ AcksOrdered
    BY DEF HandshakeInit, SentDrawn, PastDrawn, AcksOrdered, Of
<1> QED BY <1>3, <1>4, <1>5 DEF HandshakeIInv

\* the parts of the state, as every step uses them
LEMMA Parts ==
    ASSUME HandshakeIInv, NEW n \in Nodes
    PROVE  /\ hs[n] \in Handshake /\ hs \in [Nodes -> Handshake]
           /\ hs[n].phase \in Phase /\ hs[n].peer_identity \in Identity
           /\ hs[n].eph \in Key /\ hs[n].peer_eph \in Key /\ hs[n].nonce \in Key
           /\ hs[n].rotation_counter \in Key /\ hs[n].pending \in Key
           /\ hs[n].eph \in Nat /\ hs[n].peer_eph \in Nat /\ hs[n].rotation_counter \in Nat
           /\ hs[n].eph <= fresh /\ hs[n].peer_eph <= fresh
           /\ hs[n].rotation_counter <= fresh
           /\ fresh \in Nat /\ fresh \in Key /\ n \in Identity
BY HandshakeAssumption DEF HandshakeIInv, HandshakeTypeOK, Handshake, HeldDrawn, Key, Identity

LEMMA Drawn ==
    ASSUME HandshakeIInv, DrawsKey
    PROVE  fresh' \in Key /\ fresh' \in Nat /\ fresh \in Nat /\ fresh' = fresh + 1
           /\ fresh <= fresh'
BY HandshakeAssumption DEF HandshakeIInv, HandshakeTypeOK, DrawsKey, Key

LEMMA Returned ==
    ASSUME NEW op \in Call, NEW n \in Identity, NEW ok \in BOOLEAN, Returns(op, n, ok)
    PROVE  last' \in [op: Call, node: Identity, ok: BOOLEAN]
BY DEF Returns

LEMMA initiate_handshake_IInv ==
    ASSUME HandshakeIInv, NEW n \in Nodes, initiate_handshake(n)
    PROVE  HandshakeIInv'
<1> DEFINE h == [hs[n] EXCEPT !.phase = "RESPOND", !.eph = fresh', !.nonce = fresh']
           m == [type |-> "handshake", from |-> n, eph |-> fresh', nonce |-> fresh']
<1>1. DrawsKey /\ hs' = [hs EXCEPT ![n] = h] /\ network' = network \cup {m} /\ KeepsKeys
    BY Parts DEF initiate_handshake
<1>2. h \in Handshake
    BY Parts, <1>1, Drawn DEF Handshake, Phase
<1>3. h.phase = "RESPOND" /\ h.eph = fresh' /\ h.peer_eph = hs[n].peer_eph
      /\ h.rotation_counter = hs[n].rotation_counter
    BY Parts DEF Handshake
<1>4. m \in Message
    BY <1>1, Drawn DEF Message
<1>5. m.eph = fresh' /\ m.type = "handshake"
    OBVIOUS
<1> HIDE DEF h, m
<1>6. hs' \in [Nodes -> Handshake] /\ HeldDrawn' /\ PeerBound'
  <2>1. h.eph <= fresh' /\ h.peer_eph <= fresh' /\ h.rotation_counter <= fresh'
      BY <1>1, <1>3, Parts, Drawn
  <2> QED BY <1>1, <1>2, <1>3, <2>1, NodeStep, Drawn
<1>7. network' \subseteq Message /\ SentDrawn' /\ AcksOrdered'
    BY <1>1, <1>4, <1>5, SendStep, Drawn
<1>8. /\ session' \in [Nodes -> SUBSET SessionKeys]
      /\ past' \in [Nodes -> SUBSET SessionKeys]
      /\ PastDrawn'
    BY <1>1, KeepStep, Drawn
<1>9. last' \in [op: Call, node: Identity, ok: BOOLEAN] /\ UNCHANGED <<now, uptime>>
  <2>1. Returns("initiate", n, TRUE) /\ UNCHANGED <<now, uptime>>
      BY DEF initiate_handshake
  <2> QED BY <2>1, Parts, Returned DEF Call
<1> QED BY <1>1, <1>6, <1>7, <1>8, <1>9, Drawn DEF HandshakeIInv, HandshakeTypeOK

\* a call that draws no key
LEMMA Undrawn ==
    ASSUME HandshakeIInv, UNCHANGED fresh
    PROVE  fresh' \in Key /\ fresh' \in Nat /\ fresh \in Nat /\ fresh' = fresh
           /\ fresh <= fresh'
BY HandshakeAssumption DEF HandshakeIInv, HandshakeTypeOK, Key

LEMMA RejectHandshake_IInv ==
    ASSUME HandshakeIInv, NEW n \in Nodes, NEW m, NEW intact, RejectHandshake(n, m, intact)
    PROVE  HandshakeIInv'
<1> DEFINE h == [hs[n] EXCEPT !.phase = "FAILED"]
<1>1. /\ hs' = [hs EXCEPT ![n] = h] /\ UNCHANGED <<network, fresh, now, uptime>> /\ KeepsKeys
      /\ Returns("respond", n, FALSE)
    BY Parts DEF RejectHandshake
<1>2. h \in Handshake
    BY Parts DEF Handshake, Phase
<1>3. h.phase = "FAILED" /\ h.eph = hs[n].eph /\ h.peer_eph = hs[n].peer_eph
      /\ h.rotation_counter = hs[n].rotation_counter
    BY Parts DEF Handshake
<1> HIDE DEF h
<1>4. hs' \in [Nodes -> Handshake] /\ HeldDrawn' /\ PeerBound'
  <2>1. h.eph <= fresh' /\ h.peer_eph <= fresh' /\ h.rotation_counter <= fresh'
      BY <1>1, <1>3, Parts
  <2> QED BY <1>1, <1>2, <1>3, <2>1, NodeStep, Undrawn
<1>5. network' \subseteq Message /\ SentDrawn' /\ AcksOrdered'
    BY <1>1, SilentStep, Undrawn
<1>6. /\ session' \in [Nodes -> SUBSET SessionKeys]
      /\ past' \in [Nodes -> SUBSET SessionKeys]
      /\ PastDrawn'
    BY <1>1, KeepStep, Undrawn
<1>7. last' \in [op: Call, node: Identity, ok: BOOLEAN]
    BY <1>1, Parts, Returned DEF Call
<1> QED BY <1>1, <1>4, <1>5, <1>6, <1>7, Undrawn DEF HandshakeIInv, HandshakeTypeOK

LEMMA RespondToHandshake_IInv ==
    ASSUME HandshakeIInv, NEW n \in Nodes, NEW m \in Of("handshake"), NEW intact,
           RespondToHandshake(n, m, intact)
    PROVE  HandshakeIInv'
<1> DEFINE h == [hs[n] EXCEPT !.phase = "COMPLETE", !.eph = fresh', !.nonce = fresh',
                              !.peer_eph = m.eph, !.peer_identity = m.from]
           c == <<m.from, n, m.eph, fresh'>>
           ack == [type |-> "ack", from |-> n, eph |-> fresh', nonce |-> fresh',
                   response_nonce |-> m.nonce, context |-> c]
<1>1. /\ DrawsKey /\ hs' = [hs EXCEPT ![n] = h] /\ network' = network \cup {ack}
      /\ UNCHANGED <<now, uptime>> /\ KeepsKeys /\ Returns("respond", n, TRUE)
    BY Parts DEF RespondToHandshake, create_handshake_context
<1>2. /\ m \in network /\ m.type = "handshake" /\ m.from \in Nodes /\ m.from \in Identity
      /\ m.eph \in Key /\ m.nonce \in Key
    BY DEF Of, HandshakeIInv, HandshakeTypeOK, Message, Identity
<1>3. m.eph \in Nat /\ m.eph <= fresh
    BY <1>2, HandshakeAssumption DEF HandshakeIInv, SentDrawn, Key
<1>4. h \in Handshake
    BY Parts, <1>1, <1>2, Drawn DEF Handshake, Phase
<1>5. /\ h.phase = "COMPLETE" /\ h.eph = fresh' /\ h.peer_eph = m.eph
      /\ h.rotation_counter = hs[n].rotation_counter /\ h.peer_identity = m.from
    BY Parts DEF Handshake
<1>6. c \in Context /\ c[3] = m.eph /\ c[4] = fresh'
    BY <1>1, <1>2, Drawn, Parts DEF Context
<1> HIDE DEF c
<1>7. ack \in Message
    BY <1>1, <1>2, <1>6, Drawn DEF Message
<1>8. ack.eph = fresh' /\ ack.type = "ack" /\ ack.context = c
    OBVIOUS
<1> HIDE DEF h, ack
<1>9. hs' \in [Nodes -> Handshake] /\ HeldDrawn' /\ PeerBound'
  <2>1. h.eph <= fresh' /\ h.peer_eph <= fresh' /\ h.rotation_counter <= fresh'
      BY <1>1, <1>3, <1>5, Parts, Drawn
  <2>2. m \in network' /\ network \subseteq network'
      BY <1>1, <1>2
  <2> QED BY <1>1, <1>2, <1>4, <1>5, <2>1, <2>2, NodeStep, Drawn
<1>10. network' \subseteq Message /\ SentDrawn' /\ AcksOrdered'
  <2>1. ack.eph <= fresh' /\ ack.context[4] = ack.eph /\ ack.context[3] < ack.eph
      BY <1>1, <1>3, <1>6, <1>8, Drawn
  <2> QED BY <1>1, <1>7, <2>1, SendStep, Drawn
<1>11. /\ session' \in [Nodes -> SUBSET SessionKeys]
       /\ past' \in [Nodes -> SUBSET SessionKeys]
       /\ PastDrawn'
    BY <1>1, KeepStep, Drawn
<1>12. last' \in [op: Call, node: Identity, ok: BOOLEAN]
    BY <1>1, Parts, Returned DEF Call
<1> QED BY <1>1, <1>9, <1>10, <1>11, <1>12, Drawn DEF HandshakeIInv, HandshakeTypeOK

LEMMA complete_handshake_IInv ==
    ASSUME HandshakeIInv, NEW n \in Nodes, NEW m \in Of("ack"), NEW intact \in BOOLEAN,
           complete_handshake(n, m, intact)
    PROVE  HandshakeIInv' /\ hs'[n].phase = "FAILED"
<1> DEFINE e == IF m.response_nonce = hs[n].nonce THEN m.eph ELSE hs[n].peer_eph
           h == [hs[n] EXCEPT !.phase = "FAILED", !.peer_eph = e]
<1>0. ~verify_ack_signature(n, m, intact)
    BY NoAckVerifies DEF HandshakeIInv
<1>1. /\ hs' = [hs EXCEPT ![n] = h] /\ UNCHANGED <<network, fresh, now, uptime>> /\ KeepsKeys
      /\ Returns("complete", n, FALSE)
  <2> DEFINE echoed == m.response_nonce = hs[n].nonce
             ok == echoed /\ verify_ack_signature(n, m, intact)
  <2>1. /\ hs' = [hs EXCEPT ![n] = [@ EXCEPT !.phase = IF ok THEN "COMPLETE" ELSE "FAILED",
                                             !.peer_eph = e]]
        /\ UNCHANGED <<network, fresh, now, uptime>> /\ (~ok => KeepsKeys)
        /\ Returns("complete", n, ok)
      BY DEF complete_handshake
  <2>2. ok = FALSE
      BY <1>0
  <2>3. hs' = [hs EXCEPT ![n] = h]
      BY <1>0, <2>1
  <2> HIDE DEF ok
  <2> QED BY <2>1, <2>2, <2>3
<1>2. m \in network /\ m.eph \in Key
    BY DEF Of, HandshakeIInv, HandshakeTypeOK, Message
<1>3. m.eph \in Nat /\ m.eph <= fresh
    BY <1>2, HandshakeAssumption DEF HandshakeIInv, SentDrawn, Key
<1>4. e \in Key /\ e <= fresh
    BY <1>2, <1>3, Parts
<1> HIDE DEF e
<1>5. h \in Handshake
    BY <1>4, Parts DEF Handshake, Phase
<1>6. h.phase = "FAILED" /\ h.eph = hs[n].eph /\ h.peer_eph = e
      /\ h.rotation_counter = hs[n].rotation_counter
    BY Parts DEF Handshake
<1> HIDE DEF h
<1>7. hs' \in [Nodes -> Handshake] /\ HeldDrawn' /\ PeerBound'
  <2>1. h.eph <= fresh' /\ h.peer_eph <= fresh' /\ h.rotation_counter <= fresh'
      BY <1>1, <1>4, <1>6, Parts
  <2> QED BY <1>1, <1>5, <1>6, <2>1, NodeStep, Undrawn
<1>8. network' \subseteq Message /\ SentDrawn' /\ AcksOrdered'
    BY <1>1, SilentStep, Undrawn
<1>9. /\ session' \in [Nodes -> SUBSET SessionKeys]
      /\ past' \in [Nodes -> SUBSET SessionKeys]
      /\ PastDrawn'
    BY <1>1, KeepStep, Undrawn
<1>10. last' \in [op: Call, node: Identity, ok: BOOLEAN]
    BY <1>1, Parts, Returned DEF Call
<1>11. hs'[n].phase = "FAILED"
    BY <1>1, <1>6, Parts
<1> QED BY <1>1, <1>7, <1>8, <1>9, <1>10, <1>11, Undrawn DEF HandshakeIInv, HandshakeTypeOK

\* session keys over keys that were drawn
LEMMA KeysTyped ==
    ASSUME HandshakeIInv, NEW n \in Nodes, NEW a \in Key, NEW b \in Key, NEW i \in Identity,
           NEW r \in Identity, NEW x \in Key, NEW y \in Key
    PROVE  derive_session_keys(a, b, create_handshake_context(i, r, x, y)) \in SessionKeys
<1>1. create_handshake_context(i, r, x, y) \in Context
    BY DEF create_handshake_context, Context
<1>2. {a, b} \in SUBSET Key
    OBVIOUS
<1> QED BY <1>1, <1>2 DEF derive_session_keys, SessionKeys

LEMMA derive_server_session_keys_IInv ==
    ASSUME HandshakeIInv, NEW n \in Nodes, derive_server_session_keys(n)
    PROVE  HandshakeIInv'
<1> DEFINE keys == derive_session_keys(hs[n].eph, hs[n].peer_eph,
                     create_handshake_context(hs[n].peer_identity, n, hs[n].peer_eph,
                                              hs[n].eph))
<1>1. /\ UNCHANGED <<hs, network, fresh, now, uptime>> /\ Obtains(n, keys)
      /\ Returns("derive", n, TRUE)
    BY DEF derive_server_session_keys
<1>2. keys \in SessionKeys
    BY Parts, KeysTyped
<1>3. \A k \in keys.pair : k <= fresh'
    BY <1>1, Parts DEF derive_session_keys
<1> HIDE DEF keys
<1>4. /\ session' \in [Nodes -> SUBSET SessionKeys]
      /\ past' \in [Nodes -> SUBSET SessionKeys]
      /\ PastDrawn'
    BY <1>1, <1>2, <1>3, KeysStep, Undrawn
<1>5. last' \in [op: Call, node: Identity, ok: BOOLEAN]
    BY <1>1, Parts, Returned DEF Call
<1>6. HeldDrawn' /\ SentDrawn' /\ AcksOrdered' /\ PeerBound'
    BY <1>1 DEF HandshakeIInv, HeldDrawn, SentDrawn, AcksOrdered, PeerBound, Of
<1> QED BY <1>1, <1>4, <1>5, <1>6 DEF HandshakeIInv, HandshakeTypeOK

LEMMA reset_IInv ==
    ASSUME HandshakeIInv, NEW n \in Nodes, reset(n)
    PROVE  HandshakeIInv'
<1> DEFINE h == [phase |-> "INITIATE", eph |-> 0, peer_eph |-> 0, peer_identity |-> NoKey,
                 nonce |-> 0, rotation_counter |-> 0, pending |-> 0]
<1>1. /\ hs' = [hs EXCEPT ![n] = h] /\ UNCHANGED <<network, fresh, now, uptime>> /\ KeepsKeys
      /\ Returns("reset", n, TRUE)
    BY DEF reset
<1>2. h \in Handshake
    BY HandshakeAssumption DEF Handshake, Phase, Key, Identity
<1>3. h.phase = "INITIATE" /\ h.eph = 0 /\ h.peer_eph = 0 /\ h.rotation_counter = 0
    OBVIOUS
<1> HIDE DEF h
<1>4. hs' \in [Nodes -> Handshake] /\ HeldDrawn' /\ PeerBound'
  <2>1. h.eph <= fresh' /\ h.peer_eph <= fresh' /\ h.rotation_counter <= fresh'
      BY <1>1, <1>3, Undrawn
  <2> QED BY <1>1, <1>2, <1>3, <2>1, NodeStep, Undrawn
<1>5. network' \subseteq Message /\ SentDrawn' /\ AcksOrdered'
    BY <1>1, SilentStep, Undrawn
<1>6. /\ session' \in [Nodes -> SUBSET SessionKeys]
      /\ past' \in [Nodes -> SUBSET SessionKeys]
      /\ PastDrawn'
    BY <1>1, KeepStep, Undrawn
<1>7. last' \in [op: Call, node: Identity, ok: BOOLEAN]
    BY <1>1, Parts, Returned DEF Call
<1> QED BY <1>1, <1>4, <1>5, <1>6, <1>7, Undrawn DEF HandshakeIInv, HandshakeTypeOK

LEMMA initiate_key_rotation_IInv ==
    ASSUME HandshakeIInv, NEW n \in Nodes, initiate_key_rotation(n)
    PROVE  HandshakeIInv'
<1> DEFINE h == [hs[n] EXCEPT !.pending = fresh',
                              !.rotation_counter = hs[n].rotation_counter + 1]
           keys == derive_session_keys(fresh', hs[n].peer_eph,
                     create_handshake_context(n, hs[n].peer_identity, fresh',
                                              hs[n].peer_eph))
<1>1. /\ DrawsKey /\ hs' = [hs EXCEPT ![n] = h] /\ UNCHANGED <<network, now, uptime>>
      /\ Obtains(n, keys) /\ Returns("rotate", n, TRUE) /\ hs[n].phase = "COMPLETE"
    BY Parts DEF initiate_key_rotation
<1>2. hs[n].rotation_counter + 1 \in Key
    BY <1>1, Parts, Drawn, HandshakeAssumption DEF Key
<1>3. h \in Handshake
    BY Parts, <1>1, <1>2, Drawn DEF Handshake
<1>4. /\ h.phase = hs[n].phase /\ h.eph = hs[n].eph /\ h.peer_eph = hs[n].peer_eph
      /\ h.rotation_counter = hs[n].rotation_counter + 1
      /\ h.peer_identity = hs[n].peer_identity
    BY Parts DEF Handshake
<1>5. keys \in SessionKeys
    BY <1>1, Parts, KeysTyped, Drawn
<1>6. \A k \in keys.pair : k <= fresh'
    BY <1>1, Parts, Drawn DEF derive_session_keys
<1> HIDE DEF h, keys
<1>7. hs' \in [Nodes -> Handshake] /\ HeldDrawn' /\ PeerBound'
  <2>1. h.eph <= fresh' /\ h.peer_eph <= fresh' /\ h.rotation_counter <= fresh'
      BY <1>1, <1>4, Parts, Drawn
  <2>2. \E m \in network' : /\ m.type \in {"handshake", "rotation"}
                            /\ m.from = h.peer_identity /\ m.eph = h.peer_eph
      BY <1>1, <1>4 DEF HandshakeIInv, PeerBound, Of
  <2> QED BY <1>1, <1>3, <2>1, <2>2, NodeStep, Drawn
<1>8. network' \subseteq Message /\ SentDrawn' /\ AcksOrdered'
    BY <1>1, SilentStep, Drawn
<1>9. /\ session' \in [Nodes -> SUBSET SessionKeys]
      /\ past' \in [Nodes -> SUBSET SessionKeys]
      /\ PastDrawn'
    BY <1>1, <1>5, <1>6, KeysStep, Drawn
<1>10. last' \in [op: Call, node: Identity, ok: BOOLEAN]
    BY <1>1, Parts, Returned DEF Call
<1> QED BY <1>1, <1>7, <1>8, <1>9, <1>10, Drawn DEF HandshakeIInv, HandshakeTypeOK

LEMMA SendRotation_IInv ==
    ASSUME HandshakeIInv, NEW n \in Nodes, SendRotation(n)
    PROVE  HandshakeIInv'
<1> DEFINE m == [type |-> "rotation", from |-> n, eph |-> fresh', time |-> steady_clock(n)]
<1>1. /\ DrawsKey /\ network' = network \cup {m} /\ UNCHANGED <<hs, now, uptime>> /\ KeepsKeys
      /\ Returns("send", n, TRUE)
    BY DEF SendRotation
<1>2. steady_clock(n) \in Nat
  <2>1. now \in Nat /\ uptime[n] \in Uptimes
      BY HandshakeAssumption DEF HandshakeIInv, HandshakeTypeOK
  <2>2. uptime[n] \in Nat
      BY <2>1, HandshakeAssumption
  <2> QED BY <2>1, <2>2 DEF steady_clock
<1>3. m \in Message
    BY <1>1, <1>2, Drawn DEF Message
<1>4. m.eph = fresh' /\ m.type = "rotation"
    OBVIOUS
<1> HIDE DEF m
<1>5. network' \subseteq Message /\ SentDrawn' /\ AcksOrdered'
    BY <1>1, <1>3, <1>4, SendStep, Drawn
<1>6. hs' \in [Nodes -> Handshake] /\ HeldDrawn' /\ PeerBound'
  <2>1. hs' = [hs EXCEPT ![n] = hs[n]]
      BY <1>1, Parts
  <2>2. hs[n].eph <= fresh' /\ hs[n].peer_eph <= fresh' /\ hs[n].rotation_counter <= fresh'
      BY <1>1, Parts, Drawn
  <2>3. hs[n].phase = "COMPLETE" =>
            \E x \in network' : /\ x.type \in {"handshake", "rotation"}
                                /\ x.from = hs[n].peer_identity /\ x.eph = hs[n].peer_eph
      BY <1>1 DEF HandshakeIInv, PeerBound, Of
  <2>4. network \subseteq network'
      BY <1>1
  <2> QED BY <1>1, <2>1, <2>2, <2>3, <2>4, NodeStep, Drawn, Parts
<1>7. /\ session' \in [Nodes -> SUBSET SessionKeys]
      /\ past' \in [Nodes -> SUBSET SessionKeys]
      /\ PastDrawn'
    BY <1>1, KeepStep, Drawn
<1>8. last' \in [op: Call, node: Identity, ok: BOOLEAN]
    BY <1>1, Parts, Returned DEF Call
<1> QED BY <1>1, <1>5, <1>6, <1>7, <1>8, Drawn DEF HandshakeIInv, HandshakeTypeOK

LEMMA RespondToKeyRotation_IInv ==
    ASSUME HandshakeIInv, NEW n \in Nodes, NEW m \in Of("rotation"), NEW intact,
           RespondToKeyRotation(n, m, intact)
    PROVE  HandshakeIInv'
<1> DEFINE h == [hs[n] EXCEPT !.peer_eph = m.eph, !.eph = fresh']
           keys == derive_session_keys(fresh', m.eph,
                     create_handshake_context(hs[n].peer_identity, n, m.eph, fresh'))
<1>1. /\ DrawsKey /\ hs' = [hs EXCEPT ![n] = h] /\ UNCHANGED <<network, now, uptime>>
      /\ Obtains(n, keys) /\ Returns("rotated", n, TRUE) /\ m.from = hs[n].peer_identity
    BY Parts DEF RespondToKeyRotation, AcceptsRotation
<1>2. m \in network /\ m.type = "rotation" /\ m.eph \in Key
    BY DEF Of, HandshakeIInv, HandshakeTypeOK, Message
<1>3. m.eph \in Nat /\ m.eph <= fresh
    BY <1>2, HandshakeAssumption DEF HandshakeIInv, SentDrawn, Key
<1>4. h \in Handshake
    BY Parts, <1>1, <1>2, Drawn DEF Handshake
<1>5. /\ h.eph = fresh' /\ h.peer_eph = m.eph /\ h.peer_identity = hs[n].peer_identity
      /\ h.rotation_counter = hs[n].rotation_counter
    BY Parts DEF Handshake
<1>6. keys \in SessionKeys
    BY <1>1, <1>2, Parts, KeysTyped, Drawn
<1>7. \A k \in keys.pair : k <= fresh'
    BY <1>1, <1>3, Drawn DEF derive_session_keys
<1> HIDE DEF h, keys
<1>8. hs' \in [Nodes -> Handshake] /\ HeldDrawn' /\ PeerBound'
  <2>1. h.eph <= fresh' /\ h.peer_eph <= fresh' /\ h.rotation_counter <= fresh'
      BY <1>1, <1>3, <1>5, Parts, Drawn
  <2> QED BY <1>1, <1>2, <1>4, <1>5, <2>1, NodeStep, Drawn
<1>9. network' \subseteq Message /\ SentDrawn' /\ AcksOrdered'
    BY <1>1, SilentStep, Drawn
<1>10. /\ session' \in [Nodes -> SUBSET SessionKeys]
       /\ past' \in [Nodes -> SUBSET SessionKeys]
       /\ PastDrawn'
    BY <1>1, <1>6, <1>7, KeysStep, Drawn
<1>11. last' \in [op: Call, node: Identity, ok: BOOLEAN]
    BY <1>1, Parts, Returned DEF Call
<1> QED BY <1>1, <1>8, <1>9, <1>10, <1>11, Drawn DEF HandshakeIInv, HandshakeTypeOK

LEMMA Quiet_IInv ==
    ASSUME HandshakeIInv, UNCHANGED <<hs, network, fresh, uptime>>, KeepsKeys, now' \in 0 .. MaxTime,
           last' \in [op: Call, node: Identity, ok: BOOLEAN]
    PROVE  HandshakeIInv'
BY DEF HandshakeIInv, HandshakeTypeOK, HeldDrawn, SentDrawn, PastDrawn, AcksOrdered, PeerBound, Of,
       KeepsKeys

LEMMA HandshakeNextIInv == HandshakeIInv /\ [HandshakeNext]_handshakeVars => HandshakeIInv'
<1> SUFFICES ASSUME HandshakeIInv, [HandshakeNext]_handshakeVars PROVE HandshakeIInv'
    OBVIOUS
<1>1. ASSUME NEW n \in Nodes, initiate_handshake(n) PROVE HandshakeIInv'
    BY <1>1, initiate_handshake_IInv
<1>2. ASSUME NEW n \in Nodes, derive_server_session_keys(n) PROVE HandshakeIInv'
    BY <1>2, derive_server_session_keys_IInv
<1>3. ASSUME NEW n \in Nodes, reset(n) PROVE HandshakeIInv'
    BY <1>3, reset_IInv
<1>4. ASSUME NEW n \in Nodes, initiate_key_rotation(n) PROVE HandshakeIInv'
    BY <1>4, initiate_key_rotation_IInv
<1>5. ASSUME NEW n \in Nodes, SendRotation(n) PROVE HandshakeIInv'
    BY <1>5, SendRotation_IInv
<1>6. ASSUME NEW n \in Nodes, NEW m \in Of("handshake"), NEW intact \in BOOLEAN,
             RejectHandshake(n, m, intact) \/ RespondToHandshake(n, m, intact)
      PROVE  HandshakeIInv'
    BY <1>6, RejectHandshake_IInv, RespondToHandshake_IInv
<1>7. ASSUME NEW n \in Nodes, NEW m \in Of("ack"), NEW intact \in BOOLEAN,
             complete_handshake(n, m, intact)
      PROVE  HandshakeIInv'
    BY <1>7, complete_handshake_IInv
<1>8. ASSUME NEW n \in Nodes, NEW m \in Of("rotation"), NEW intact \in BOOLEAN,
             RespondToKeyRotation(n, m, intact)
      PROVE  HandshakeIInv'
    BY <1>8, RespondToKeyRotation_IInv
<1>9. ASSUME NEW n \in Nodes, NEW m \in Of("rotation"), NEW intact \in BOOLEAN,
             RefuseKeyRotation(n, m, intact)
      PROVE  HandshakeIInv'
  <2>1. /\ UNCHANGED <<hs, network, fresh, now, uptime>> /\ KeepsKeys
        /\ Returns("rotated", n, FALSE)
      BY <1>9 DEF RefuseKeyRotation
  <2>2. now' \in 0 .. MaxTime
      BY <2>1 DEF HandshakeIInv, HandshakeTypeOK
  <2>3. last' \in [op: Call, node: Identity, ok: BOOLEAN]
      BY <2>1, Parts, Returned DEF Call
  <2> QED BY <2>1, <2>2, <2>3, Quiet_IInv
<1>10. CASE ClockTick
  <2>1. /\ UNCHANGED <<hs, network, fresh, uptime>> /\ KeepsKeys /\ Returns("tick", NoKey, TRUE)
      BY <1>10 DEF ClockTick
  <2>2. now' \in 0 .. MaxTime
      BY <1>10, HandshakeAssumption DEF ClockTick, HandshakeIInv, HandshakeTypeOK
  <2>3. NoKey \in Identity
      BY DEF Identity
  <2>4. last' \in [op: Call, node: Identity, ok: BOOLEAN]
      BY <2>1, <2>3, Returned DEF Call
  <2> QED BY <2>1, <2>2, <2>4, Quiet_IInv
<1>11. CASE UNCHANGED handshakeVars
  <2>1. UNCHANGED <<hs, network, fresh, now, uptime, session, past, last>>
      BY <1>11 DEF handshakeVars
  <2> QED BY <2>1, Quiet_IInv DEF HandshakeIInv, HandshakeTypeOK, KeepsKeys
<1> QED BY <1>1, <1>2, <1>3, <1>4, <1>5, <1>6, <1>7, <1>8, <1>9, <1>10, <1>11
        DEF HandshakeNext

LEMMA HandshakeInvariant == HandshakeSpec => []HandshakeIInv
BY HandshakeInitIInv, HandshakeNextIInv, PTL DEF HandshakeSpec

-----------------------------------------------------------------------------
(***************************************************************************)
(* Type correctness: in particular the rotation counter never passes the   *)
(* number of keys drawn (initiate_key_rotation).                           *)
(***************************************************************************)
THEOREM HandshakeTypeCorrect == HandshakeSpec => []HandshakeTypeOK
<1>1. HandshakeIInv => HandshakeTypeOK
    BY DEF HandshakeIInv
<1> QED BY <1>1, HandshakeInvariant, PTL

(***************************************************************************)
(* The ephemeral key that a COMPLETE node holds for its peer was sent by   *)
(* the node it believes to be the peer (respond_to_handshake,              *)
(* respond_to_key_rotation).                                               *)
(***************************************************************************)
THEOREM PeerAlwaysBound == HandshakeSpec => []PeerBound
<1>1. HandshakeIInv => PeerBound
    BY DEF HandshakeIInv
<1> QED BY <1>1, HandshakeInvariant, PTL

\* keys derived with a key that was just drawn are not among those of the past
LEMMA FreshKeysAreNew ==
    ASSUME HandshakeIInv, NEW n \in Nodes, NEW e \in Key, DrawsKey, NEW c,
           Obtains(n, derive_session_keys(fresh', e, c))
    PROVE  session'[n] \cap past[n] = {}
<1>1. session'[n] = {derive_session_keys(fresh', e, c)}
    BY DEF Obtains, HandshakeIInv, HandshakeTypeOK
<1>2. SUFFICES ASSUME derive_session_keys(fresh', e, c) \in past[n] PROVE FALSE
    BY <1>1
<1>3. fresh' \in derive_session_keys(fresh', e, c).pair
    BY DEF derive_session_keys
<1>4. fresh' <= fresh
    BY <1>2, <1>3 DEF HandshakeIInv, PastDrawn
<1> QED BY <1>4, Drawn

(***************************************************************************)
(* A rotation, on either side, gives keys the node never had: also when a  *)
(* rotation message is delivered twice (initiate_key_rotation,             *)
(* respond_to_key_rotation).                                               *)
(***************************************************************************)
THEOREM RotationsRefresh == HandshakeSpec => RotationRefreshesKeys
<1> DEFINE P == \A n \in Nodes :
                   last'.op \in {"rotate", "rotated"} /\ last'.node = n /\ last'.ok =>
                       session'[n] \cap past[n] = {}
<1>1. ASSUME HandshakeIInv, HandshakeNext PROVE P
  <2>1. ASSUME NEW n \in Nodes, initiate_key_rotation(n) PROVE P
    <3>1. session'[n] \cap past[n] = {}
        BY <1>1, <2>1, Parts, FreshKeysAreNew DEF initiate_key_rotation
    <3>2. last'.node = n
        BY <2>1 DEF initiate_key_rotation, Returns
    <3> QED BY <3>1, <3>2
  <2>2. ASSUME NEW n \in Nodes, NEW m \in Of("rotation"), NEW intact \in BOOLEAN,
               RespondToKeyRotation(n, m, intact)
        PROVE  P
    <3>1. m.eph \in Key
        BY <1>1 DEF Of, HandshakeIInv, HandshakeTypeOK, Message
    <3>2. session'[n] \cap past[n] = {}
        BY <1>1, <2>2, <3>1, FreshKeysAreNew DEF RespondToKeyRotation
    <3>3. last'.node = n
        BY <2>2 DEF RespondToKeyRotation, Returns
    <3> QED BY <3>2, <3>3
  <2>3. ASSUME NEW n \in Nodes, NEW m \in Of("rotation"), NEW intact \in BOOLEAN,
               RefuseKeyRotation(n, m, intact)
        PROVE  P
    <3>1. ~last'.ok
        BY <2>3 DEF RefuseKeyRotation, Returns
    <3> QED BY <3>1
  <2>4. CASE last'.op \notin {"rotate", "rotated"}
      BY <2>4
  <2>5. ASSUME NEW n \in Nodes,
               \/ initiate_handshake(n) \/ derive_server_session_keys(n) \/ reset(n)
               \/ SendRotation(n)
        PROVE  last'.op \notin {"rotate", "rotated"}
      BY <2>5 DEF initiate_handshake, derive_server_session_keys, reset, SendRotation, Returns
  <2>6. ASSUME NEW n \in Nodes, NEW m, NEW intact,
               \/ RejectHandshake(n, m, intact) \/ RespondToHandshake(n, m, intact)
               \/ complete_handshake(n, m, intact)
        PROVE  last'.op \notin {"rotate", "rotated"}
      BY <2>6 DEF RejectHandshake, RespondToHandshake, complete_handshake, Returns
  <2>7. ASSUME ClockTick PROVE last'.op \notin {"rotate", "rotated"}
      BY <2>7 DEF ClockTick, Returns
  <2> HIDE DEF P
  <2> QED BY <1>1, <2>1, <2>2, <2>3, <2>4, <2>5, <2>6, <2>7 DEF HandshakeNext
<1>2. HandshakeIInv /\ [HandshakeNext]_handshakeVars => [P]_handshakeVars
    BY <1>1
<1>3. HandshakeSpec => [][P]_handshakeVars
    BY <1>2, HandshakeInvariant, PTL DEF HandshakeSpec
<1> QED BY <1>3 DEF RotationRefreshesKeys

(***************************************************************************)
(* No initiator ever completes: verify_ack_signature rejects every ack     *)
(* that respond_to_handshake can sign, so a node becomes COMPLETE only by  *)
(* answering a handshake.                                                  *)
(***************************************************************************)
THEOREM InitiatorsNeverComplete == HandshakeSpec => OnlyResponderCompletes
<1> DEFINE P == \A n \in Nodes :
                   hs[n].phase # "COMPLETE" /\ hs'[n].phase = "COMPLETE" => last'.op = "respond"
<1>1. ASSUME HandshakeIInv, HandshakeNext PROVE P
  <2>0. hs \in [Nodes -> Handshake]
      BY <1>1 DEF HandshakeIInv, HandshakeTypeOK
  <2>1. ASSUME NEW n \in Nodes,
               \/ derive_server_session_keys(n) \/ SendRotation(n)
               \/ \E m \in Of("rotation"), intact \in BOOLEAN : RefuseKeyRotation(n, m, intact)
        PROVE  P
      BY <2>1 DEF derive_server_session_keys, SendRotation, RefuseKeyRotation
  <2>2. ASSUME NEW n \in Nodes, initiate_handshake(n) PROVE P
    <3>1. \A p \in Nodes \ {n} : hs'[p] = hs[p]
        BY <2>0, <2>2 DEF initiate_handshake
    <3>2. hs'[n].phase # "COMPLETE"
        BY <2>0, <2>2 DEF initiate_handshake, Handshake
    <3> QED BY <3>1, <3>2
  <2>3. ASSUME NEW n \in Nodes, reset(n) PROVE P
    <3>1. \A p \in Nodes \ {n} : hs'[p] = hs[p]
        BY <2>0, <2>3 DEF reset
    <3>2. hs'[n].phase # "COMPLETE"
        BY <2>0, <2>3 DEF reset
    <3> QED BY <3>1, <3>2
  <2>4. ASSUME NEW n \in Nodes, NEW m, NEW intact,
               RejectHandshake(n, m, intact) \/ RespondToHandshake(n, m, intact)
        PROVE  P
    <3>1. last'.op = "respond"
        BY <2>4 DEF RejectHandshake, RespondToHandshake, Returns
    <3> QED BY <3>1
  <2>5. ASSUME NEW n \in Nodes, NEW m \in Of("ack"), NEW intact \in BOOLEAN,
               complete_handshake(n, m, intact)
        PROVE  P
    <3>1. \A p \in Nodes \ {n} : hs'[p] = hs[p]
        BY <2>0, <2>5 DEF complete_handshake
    <3>2. hs'[n].phase = "FAILED"
        BY <1>1, <2>5, complete_handshake_IInv
    <3> QED BY <3>1, <3>2
  <2>6. ASSUME NEW n \in Nodes,
               \/ initiate_key_rotation(n)
               \/ \E m \in Of("rotation"), intact \in BOOLEAN :
                     RespondToKeyRotation(n, m, intact)
        PROVE  P
    <3>1. \A p \in Nodes \ {n} : hs'[p] = hs[p]
        BY <2>0, <2>6 DEF initiate_key_rotation, RespondToKeyRotation
    <3>2. hs[n].phase = "COMPLETE"
        BY <2>6 DEF initiate_key_rotation, RespondToKeyRotation
    <3> QED BY <3>1, <3>2
  <2>7. CASE ClockTick
      BY <2>7 DEF ClockTick
  <2> HIDE DEF P
  <2> QED BY <1>1, <2>1, <2>2, <2>3, <2>4, <2>5, <2>6, <2>7 DEF HandshakeNext
<1>2. HandshakeIInv /\ [HandshakeNext]_handshakeVars => [P]_handshakeVars
    BY <1>1
<1>3. HandshakeSpec => [][P]_handshakeVars
    BY <1>2, HandshakeInvariant, PTL DEF HandshakeSpec
<1> QED BY <1>3 DEF OnlyResponderCompletes
=============================================================================
