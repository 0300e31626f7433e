------------------------------ MODULE MCCrypto ------------------------------
(* The nonce windows and the handshake objects share no state: `moving` says *)
(* which of the two takes the steps of a behaviour, so that one run explores *)
(* each of them.  Nonces wrap at 6 with a window of 1.  Two nodes draw five  *)
(* keys, enough for a handshake, a rotation message and two answers to it,   *)
(* with rotation messages too old after one tick or under uptimes that       *)
(* differ by one.                                                            *)
EXTENDS NonceManager, SecureHandshake, TLC

VARIABLE moving

\* what stands still starts in one state; only the difference of the uptimes counts, and
\* either the uptimes differ or one object's uninitialized peer identity holds the other's key
MCInit ==
    /\ moving \in {"nonces", "handshake"} /\ Init /\ HandshakeInit
    /\ \E n \in Nodes : /\ uptime[n] = 0 /\ hs[n].peer_identity # n
                        /\ \A m \in Nodes \ {n} : hs[m].peer_identity = NoKey
    /\ (\E n \in Nodes : uptime[n] # 0) => \A n \in Nodes : hs[n].peer_identity = NoKey
    /\ moving = "nonces" => \A n \in Nodes : uptime[n] = 0 /\ hs[n].peer_identity = NoKey

MCNext ==
    \/ moving = "nonces" /\ Next /\ UNCHANGED <<moving, handshakeVars>>
    \/ moving = "handshake" /\ HandshakeNext /\ UNCHANGED <<moving, vars>>

MCSpec == MCInit /\ [][MCNext]_<<moving, vars, handshakeVars>>

\* the nodes run the same code and no property names one of them
NodeSymmetry == Permutations(Nodes)
=============================================================================
