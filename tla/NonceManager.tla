---------------------------- MODULE NonceManager ----------------------------
(***************************************************************************)
(* Class NonceManager (encryption.cpp): the counter of outgoing nonces and *)
(* the sliding window that rejects replayed incoming ones.  A nonce is the *)
(* 64-bit number in its first eight bytes; NonceMod stands for 2^64.       *)
(* Incoming nonces are arbitrary: reordered, duplicated, forged.           *)
(***************************************************************************)
EXTENDS Integers, FiniteSets

CONSTANTS
    Peers,          \* peer ids
    NonceMod,       \* number of nonce values
    window_size     \* window_size_

ASSUME NonceAssumption ==
    NonceMod \in Nat \ {0, 1} /\ window_size \in 0 .. NonceMod - 1

Nonces == 0 .. NonceMod - 1

VARIABLES
    outgoing_counter,   \* outgoing_counter_
    highest_seen,       \* peer -> highest_seen (0 for a peer without a state)
    recent_nonces,      \* peer -> recent_nonces
    accepted,           \* history: peer -> nonces accepted since its last reset
    verdict             \* history: the last verification

vars == <<outgoing_counter, highest_seen, recent_nonces, accepted, verdict>>

NoVerdict == [peer |-> {}, nonce |-> 0, highest |-> 0, seen |-> FALSE, ok |-> FALSE]

TypeOK ==
    /\ outgoing_counter \in Nonces
    /\ highest_seen \in [Peers -> Nonces]
    /\ recent_nonces \in [Peers -> SUBSET Nonces]
    /\ accepted \in [Peers -> SUBSET Nonces]

Init ==
    /\ outgoing_counter = 1
    /\ highest_seen = [p \in Peers |-> 0]
    /\ recent_nonces = [p \in Peers |-> {}]
    /\ accepted = [p \in Peers |-> {}]
    /\ verdict = NoVerdict

\* addition of unsigned 64-bit numbers
WrapAdd(a, b) == IF a + b < NonceMod THEN a + b ELSE a + b - NonceMod

generate_outgoing_nonce ==
    /\ outgoing_counter' = WrapAdd(outgoing_counter, 1)
    /\ UNCHANGED <<highest_seen, recent_nonces, accepted, verdict>>

TooOld(p, n) == WrapAdd(n, window_size) < highest_seen[p]

Verdict(p, n, ok) ==
    verdict' = [peer |-> {p}, nonce |-> n, highest |-> highest_seen[p],
                seen |-> n \in accepted[p], ok |-> ok]

\* mutants: a cutoff one too high, a cleanup that drops the cutoff itself, no cleanup
Bug_Cutoff(highest) == IF highest > window_size THEN highest - window_size + 1 ELSE 0
Bug_KeptAbove(nonces, highest) == {n \in nonces : n + window_size > highest}
Bug_KeptAll(nonces, highest) == nonces

\* the part of recent_nonces that survives the cleanup under a new highest_seen
Cutoff(highest) == IF highest > window_size THEN highest - window_size ELSE 0
Kept(nonces, highest) == {n \in nonces : n >= Cutoff(highest)}

AcceptNonce(p, n) ==
    LET highest == IF n > highest_seen[p] THEN n ELSE highest_seen[p]
    IN  /\ n \notin recent_nonces[p]
        /\ ~TooOld(p, n)
        /\ highest_seen' = [highest_seen EXCEPT ![p] = highest]
        /\ recent_nonces' = [recent_nonces EXCEPT ![p] = Kept(@ \cup {n}, highest)]
        /\ accepted' = [accepted EXCEPT ![p] = @ \cup {n}]
        /\ Verdict(p, n, TRUE)
        /\ UNCHANGED outgoing_counter

RejectNonce(p, n) ==
    /\ n \in recent_nonces[p] \/ TooOld(p, n)
    /\ Verdict(p, n, FALSE)
    /\ UNCHANGED <<outgoing_counter, highest_seen, recent_nonces, accepted>>

reset_peer_nonces(p) ==
    /\ highest_seen' = [highest_seen EXCEPT ![p] = 0]
    /\ recent_nonces' = [recent_nonces EXCEPT ![p] = {}]
    /\ accepted' = [accepted EXCEPT ![p] = {}]
    /\ verdict' = NoVerdict
    /\ UNCHANGED outgoing_counter

Next ==
    \/ generate_outgoing_nonce
    \/ \E p \in Peers, n \in Nonces : AcceptNonce(p, n)
    \/ \E p \in Peers, n \in Nonces : RejectNonce(p, n)
    \/ \E p \in Peers : reset_peer_nonces(p)

Spec == Init /\ [][Next]_vars

-----------------------------------------------------------------------------
(***************************************************************************)
(* The sliding window implements at-most-once acceptance, although the     *)
(* cleanup forgets accepted nonces and the test of age wraps around: no    *)
(* verification answers true to a nonce that was accepted since the reset. *)
(***************************************************************************)
Answer == [peer |-> verdict.peer, nonce |-> verdict.nonce,
           seen |-> verdict.seen, ok |-> verdict.ok]

Guard == INSTANCE ReplayGuard WITH answer <- Answer
GuardSpec == Guard!Spec

(***************************************************************************)
(* What the cleanup forgets is exactly what the test of age rejects: an    *)
(* accepted nonce is still in recent_nonces or too old.                    *)
(***************************************************************************)
ForgottenIsTooOld ==
    \A p \in Peers : \A n \in accepted[p] : n \in recent_nonces[p] \/ TooOld(p, n)

(***************************************************************************)
(* A peer that sends any nonces it likes makes the receiver remember at    *)
(* most window_size + 1 of them.                                           *)
(***************************************************************************)
WindowBoundsMemory ==
    \A p \in Peers : Cardinality(recent_nonces[p]) <= window_size + 1

(***************************************************************************)
(* A nonce is refused only if it was accepted before, if it lies more than *)
(* window_size below the highest one, or if adding window_size to it       *)
(* overflows.                                                              *)
(***************************************************************************)
RejectsOnlyForCause ==
    verdict # NoVerdict /\ ~verdict.ok =>
        \/ verdict.seen
        \/ verdict.nonce + window_size < verdict.highest
        \/ verdict.nonce + window_size >= NonceMod
=============================================================================
