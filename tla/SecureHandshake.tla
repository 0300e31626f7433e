--------------------------- MODULE SecureHandshake ---------------------------
(***************************************************************************)
(* Class SecureHandshake (secure_handshake.cpp), one object per node, and  *)
(* the messages between the objects.  Keys are symbolic: a node stands for *)
(* its identity key, a number for an ephemeral key or a nonce, and a       *)
(* session key for the pair of ephemeral keys and the context it is        *)
(* derived from.  A message that was sent stays in the network: it can be  *)
(* delivered late, in any order, more than once, damaged, or never.        *)
(***************************************************************************)
EXTENDS Naturals, FiniteSets

CONSTANTS
    Nodes,      \* identity public keys
    NoKey,      \* bytes that are nobody's identity key
    MaxFresh,   \* bound: ephemeral keys and nonces generated
    MAX_TIME_SKEW,  \* age a rotation message may have
    MaxTime,    \* bound: ticks of the clock
    Uptimes     \* how long the hosts have been up (the epoch of steady_clock)

ASSUME HandshakeAssumption ==
    /\ MaxFresh \in Nat /\ MAX_TIME_SKEW \in Nat /\ MaxTime \in Nat
    /\ Uptimes \subseteq Nat

VARIABLES
    hs,         \* node -> members of its SecureHandshake
    network,    \* messages sent
    fresh,      \* the last ephemeral key or nonce drawn
    now,        \* time
    uptime,     \* node -> steady_clock at time 0
    session,    \* node -> the session keys it derived last ({} before)
    past,       \* history: node -> session keys it ever derived
    last        \* history: the last call

handshakeVars == <<hs, network, fresh, now, uptime, session, past, last>>

Key == 0 .. MaxFresh
Identity == Nodes \cup {NoKey}
Phase == {"INITIATE", "RESPOND", "COMPLETE", "FAILED"}

Handshake == [phase: Phase, eph: Key, peer_eph: Key, peer_identity: Identity,
              nonce: Key, rotation_counter: Key, pending: Key]

\* the calls, as the history names them
Call == {"", "initiate", "respond", "complete", "derive", "reset", "rotate", "send",
         "rotated", "tick"}

Context == Identity \X Identity \X Key \X Key
SessionKeys == [pair: SUBSET Key, context: Context]

Message ==
    [type: {"handshake"}, from: Nodes, eph: Key, nonce: Key]
        \cup [type: {"ack"}, from: Nodes, eph: Key, nonce: Key, response_nonce: Key,
              context: Context]
        \cup [type: {"rotation"}, from: Nodes, eph: Key, time: Nat]

HandshakeTypeOK ==
    /\ hs \in [Nodes -> Handshake]
    /\ network \subseteq Message
    /\ fresh \in Key
    /\ now \in 0 .. MaxTime
    /\ uptime \in [Nodes -> Uptimes]
    /\ session \in [Nodes -> SUBSET SessionKeys]
    /\ past \in [Nodes -> SUBSET SessionKeys]
    /\ last \in [op: Call, node: Identity, ok: BOOLEAN]

\* the constructor leaves peer_identity_public_key_ uninitialized
HandshakeInit ==
    /\ hs \in [Nodes -> {[phase |-> "INITIATE", eph |-> 0, peer_eph |-> 0,
                          peer_identity |-> id, nonce |-> 0, rotation_counter |-> 0,
                          pending |-> 0] : id \in Identity}]
    /\ network = {}
    /\ fresh = 0
    /\ now = 0
    /\ uptime \in [Nodes -> Uptimes]
    /\ session = [n \in Nodes |-> {}]
    /\ past = [n \in Nodes |-> {}]
    /\ last = [op |-> "", node |-> NoKey, ok |-> TRUE]

create_handshake_context(initiator, responder, initiator_eph, responder_eph) ==
    <<initiator, responder, initiator_eph, responder_eph>>

\* X25519 gives both ends of a pair the same secret; the context is hashed into the keys
derive_session_keys(own_eph, peer_eph, context) ==
    [pair |-> {own_eph, peer_eph}, context |-> context]

steady_clock(n) == now + uptime[n]

-----------------------------------------------------------------------------
Returns(op, n, ok) == last' = [op |-> op, node |-> n, ok |-> ok]

Obtains(n, keys) ==
    /\ session' = [session EXCEPT ![n] = {keys}]
    /\ past' = [past EXCEPT ![n] = @ \cup {keys}]

KeepsKeys == UNCHANGED <<session, past>>

DrawsKey == fresh < MaxFresh /\ fresh' = fresh + 1

initiate_handshake(n) ==
    /\ hs[n].phase = "INITIATE"
    /\ DrawsKey
    /\ hs' = [hs EXCEPT ![n] = [@ EXCEPT !.phase = "RESPOND", !.eph = fresh',
                                         !.nonce = fresh']]
    /\ network' = network \cup {[type |-> "handshake", from |-> n, eph |-> fresh',
                                 nonce |-> fresh']}
    /\ Returns("initiate", n, TRUE)
    /\ KeepsKeys /\ UNCHANGED <<now, uptime>>

\* called in any phase; the signature is checked under the key the message brings
verify_handshake_signature(m, intact) == intact

RejectHandshake(n, m, intact) ==
    /\ ~verify_handshake_signature(m, intact)
    /\ hs' = [hs EXCEPT ![n].phase = "FAILED"]
    /\ Returns("respond", n, FALSE)
    /\ KeepsKeys /\ UNCHANGED <<network, fresh, now, uptime>>

\* mutant: the peer's ephemeral key is not stored
Bug_RespondToHandshake(n, m, intact) ==
    /\ verify_handshake_signature(m, intact)
    /\ DrawsKey
    /\ hs' = [hs EXCEPT ![n] = [@ EXCEPT !.phase = "COMPLETE", !.eph = fresh',
                                         !.nonce = fresh', !.peer_identity = m.from]]
    /\ network' = network \cup
          {[type |-> "ack", from |-> n, eph |-> fresh', nonce |-> fresh',
            response_nonce |-> m.nonce,
            context |-> create_handshake_context(m.from, n, m.eph, fresh')]}
    /\ Returns("respond", n, TRUE)
    /\ KeepsKeys /\ UNCHANGED <<now, uptime>>

RespondToHandshake(n, m, intact) ==
    /\ verify_handshake_signature(m, intact)
    /\ DrawsKey
    /\ hs' = [hs EXCEPT ![n] = [@ EXCEPT !.phase = "COMPLETE", !.eph = fresh',
                                         !.nonce = fresh', !.peer_eph = m.eph,
                                         !.peer_identity = m.from]]
    /\ network' = network \cup
          {[type |-> "ack", from |-> n, eph |-> fresh', nonce |-> fresh',
            response_nonce |-> m.nonce,
            context |-> create_handshake_context(m.from, n, m.eph, fresh')]}
    /\ Returns("respond", n, TRUE)
    /\ KeepsKeys /\ UNCHANGED <<now, uptime>>

verify_ack_signature(n, m, intact) ==
    /\ intact
    /\ m.from = hs[n].peer_identity
    /\ m.context = create_handshake_context(hs[n].peer_identity, n, m.eph, hs[n].eph)

complete_handshake(n, m, intact) ==
    LET echoed == m.response_nonce = hs[n].nonce
        ok == echoed /\ verify_ack_signature(n, m, intact)
    IN  /\ hs[n].phase = "RESPOND"
        /\ hs' = [hs EXCEPT ![n] = [@ EXCEPT !.phase = IF ok THEN "COMPLETE" ELSE "FAILED",
                                             !.peer_eph = IF echoed THEN m.eph
                                                           ELSE hs[n].peer_eph]]
        /\ IF ok
           THEN Obtains(n, derive_session_keys(hs[n].eph, m.eph,
                     create_handshake_context(n, hs[n].peer_identity, hs[n].eph, m.eph)))
           ELSE KeepsKeys
        /\ Returns("complete", n, ok)
        /\ UNCHANGED <<network, fresh, now, uptime>>

derive_server_session_keys(n) ==
    /\ hs[n].phase = "COMPLETE"
    /\ Obtains(n, derive_session_keys(hs[n].eph, hs[n].peer_eph,
                     create_handshake_context(hs[n].peer_identity, n, hs[n].peer_eph,
                                              hs[n].eph)))
    /\ Returns("derive", n, TRUE)
    /\ UNCHANGED <<hs, network, fresh, now, uptime>>

reset(n) ==
    /\ hs' = [hs EXCEPT ![n] = [phase |-> "INITIATE", eph |-> 0, peer_eph |-> 0,
                                peer_identity |-> NoKey, nonce |-> 0,
                                rotation_counter |-> 0, pending |-> 0]]
    /\ Returns("reset", n, TRUE)
    /\ KeepsKeys /\ UNCHANGED <<network, fresh, now, uptime>>

\* the message it builds and signs is a local variable: nothing is sent
initiate_key_rotation(n) ==
    /\ hs[n].phase = "COMPLETE"
    /\ DrawsKey
    /\ hs' = [hs EXCEPT ![n] = [@ EXCEPT !.pending = fresh',
                                  !.rotation_counter = hs[n].rotation_counter + 1]]
    /\ Obtains(n, derive_session_keys(fresh', hs[n].peer_eph,
                     create_handshake_context(n, hs[n].peer_identity, fresh',
                                              hs[n].peer_eph)))
    /\ Returns("rotate", n, TRUE)
    /\ UNCHANGED <<network, now, uptime>>

\* a rotation message signed by the caller itself, as the tests do
SendRotation(n) ==
    /\ hs[n].phase # "INITIATE"
    /\ DrawsKey
    /\ network' = network \cup {[type |-> "rotation", from |-> n, eph |-> fresh',
                                 time |-> steady_clock(n)]}
    /\ Returns("send", n, TRUE)
    /\ KeepsKeys /\ UNCHANGED <<hs, now, uptime>>

time_diff(a, b) == IF a > b THEN a - b ELSE b - a

AcceptsRotation(n, m, intact) ==
    /\ intact
    /\ m.from = hs[n].peer_identity
    /\ time_diff(steady_clock(n), m.time) <= MAX_TIME_SKEW

\* mutant: the node keeps its own ephemeral key
Bug_RespondToKeyRotation(n, m, intact) ==
    /\ hs[n].phase = "COMPLETE"
    /\ AcceptsRotation(n, m, intact)
    /\ hs' = [hs EXCEPT ![n] = [@ EXCEPT !.peer_eph = m.eph]]
    /\ Obtains(n, derive_session_keys(hs[n].eph, m.eph,
                     create_handshake_context(hs[n].peer_identity, n, m.eph, hs[n].eph)))
    /\ Returns("rotated", n, TRUE)
    /\ UNCHANGED <<network, fresh, now, uptime>>

RespondToKeyRotation(n, m, intact) ==
    /\ hs[n].phase = "COMPLETE"
    /\ AcceptsRotation(n, m, intact)
    /\ DrawsKey
    /\ hs' = [hs EXCEPT ![n] = [@ EXCEPT !.peer_eph = m.eph, !.eph = fresh']]
    /\ Obtains(n, derive_session_keys(fresh', m.eph,
                     create_handshake_context(hs[n].peer_identity, n, m.eph, fresh')))
    /\ Returns("rotated", n, TRUE)
    /\ UNCHANGED <<network, now, uptime>>

RefuseKeyRotation(n, m, intact) ==
    /\ hs[n].phase = "COMPLETE"
    /\ ~AcceptsRotation(n, m, intact)
    /\ Returns("rotated", n, FALSE)
    /\ KeepsKeys /\ UNCHANGED <<hs, network, fresh, now, uptime>>

ClockTick ==
    /\ now < MaxTime
    /\ now' = now + 1
    /\ Returns("tick", NoKey, TRUE)
    /\ KeepsKeys /\ UNCHANGED <<hs, network, fresh, uptime>>

Of(type) == {m \in network : m.type = type}

HandshakeNext ==
    \/ \E n \in Nodes :
          \/ initiate_handshake(n)
          \/ derive_server_session_keys(n)
          \/ reset(n)
          \/ initiate_key_rotation(n)
          \/ SendRotation(n)
          \/ \E m \in Of("handshake"), intact \in BOOLEAN :
                RejectHandshake(n, m, intact) \/ RespondToHandshake(n, m, intact)
          \/ \E m \in Of("ack"), intact \in BOOLEAN :
                complete_handshake(n, m, intact)
          \/ \E m \in Of("rotation"), intact \in BOOLEAN :
                RespondToKeyRotation(n, m, intact) \/ RefuseKeyRotation(n, m, intact)
    \/ ClockTick

HandshakeSpec == HandshakeInit /\ [][HandshakeNext]_handshakeVars

-----------------------------------------------------------------------------
(***************************************************************************)
(* A COMPLETE node's peer sent the ephemeral key that the node holds for   *)
(* it, in a handshake or in a rotation: damaged messages and acks, in any  *)
(* order and in any phase, never put one node's ephemeral key under the    *)
(* name of another (respond_to_handshake, respond_to_key_rotation).        *)
(***************************************************************************)
PeerBound ==
    \A n \in Nodes : hs[n].phase = "COMPLETE" =>
        \E m \in Of("handshake") \cup Of("rotation") :
            m.from = hs[n].peer_identity /\ m.eph = hs[n].peer_eph

(***************************************************************************)
(* Neither side of a rotation ever goes back to keys it had before, not    *)
(* even when the same rotation message is delivered twice.                 *)
(***************************************************************************)
RotationRefreshesKeys ==
    [][\A n \in Nodes :
          last'.op \in {"rotate", "rotated"} /\ last'.node = n /\ last'.ok =>
              session'[n] \cap past[n] = {}]_handshakeVars

(***************************************************************************)
(* A node that gets an intact ack to its own handshake message completes   *)
(* the handshake, as the tests of SecureHandshake assert.                  *)
(***************************************************************************)
InitiatorCompletes ==
    [][\A n \in Nodes, m \in Of("ack") :
          m.response_nonce = hs[n].nonce /\ complete_handshake(n, m, TRUE) =>
              last'.ok]_handshakeVars

(***************************************************************************)
(* complete_handshake never succeeds: whatever was left in the             *)
(* uninitialized peer identity and whichever ack arrives, the context that *)
(* verify_ack_signature builds (peer, self) is not the one that            *)
(* respond_to_handshake signed (initiator, responder).  Only a node that   *)
(* answered a handshake is ever COMPLETE.                                  *)
(***************************************************************************)
OnlyResponderCompletes ==
    [][\A n \in Nodes :
          hs[n].phase # "COMPLETE" /\ hs'[n].phase = "COMPLETE" =>
              last'.op = "respond"]_handshakeVars

=============================================================================
