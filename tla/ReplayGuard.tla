---------------------------- MODULE ReplayGuard ----------------------------
(***************************************************************************)
(* What replay protection promises: of each peer every nonce is accepted   *)
(* at most once until that peer's history is reset.  A guard may refuse    *)
(* any nonce, but it never answers yes to one that it accepted before.     *)
(***************************************************************************)
CONSTANTS Peers, Nonces

VARIABLES
    accepted,       \* peer -> nonces accepted since the last reset
    answer          \* the last answer: about which nonce, was it a replay, yes or no

vars == <<accepted, answer>>

NoAnswer == [peer |-> {}, nonce |-> 0, seen |-> FALSE, ok |-> FALSE]

Init ==
    /\ accepted = [p \in Peers |-> {}]
    /\ answer = NoAnswer

Accept(p, n) ==
    /\ n \notin accepted[p]
    /\ accepted' = [accepted EXCEPT ![p] = @ \cup {n}]
    /\ answer' = [peer |-> {p}, nonce |-> n, seen |-> FALSE, ok |-> TRUE]

Refuse(p, n) ==
    /\ answer' = [peer |-> {p}, nonce |-> n, seen |-> n \in accepted[p], ok |-> FALSE]
    /\ UNCHANGED accepted

Reset(p) ==
    /\ accepted' = [accepted EXCEPT ![p] = {}]
    /\ answer' = NoAnswer

Next ==
    \E p \in Peers : Reset(p) \/ \E n \in Nonces : Accept(p, n) \/ Refuse(p, n)

Spec == Init /\ [][Next]_vars
=============================================================================
