--------------------------- MODULE FlowController ---------------------------
(***************************************************************************)
(* Class FlowController (flow_control.cpp): the congestion window and the  *)
(* request rate of several controllers.  They share one thing: the count   *)
(* of acknowledgements in congestion avoidance is a static variable of     *)
(* on_ack_received.  The round trip estimate touches none of this state    *)
(* and is left out.                                                        *)
(***************************************************************************)
EXTENDS Integers, FiniteSets, Sequences, SequencesExt

CONSTANTS
    Controllers,
    Callers,        \* who asks can_send_request and then sends
    Threshold,      \* slow_start_threshold_ after construction (1024 in the code)
    DefaultRate,    \* max_requests_per_second_ after construction (1000 in the code)
    RequestRates,   \* arguments of set_max_requests_per_second
    OneSecond,      \* clock ticks in a second
    MaxWindow,      \* bound: congestion_window_
    MaxRecent       \* bound: recent_requests_

ASSUME FlowAssumption ==
    /\ Threshold \in Nat \ {0} /\ DefaultRate \in Nat /\ RequestRates \subseteq Nat
    /\ OneSecond \in Nat /\ IsFiniteSet(Callers) /\ Callers # {}

VARIABLES
    window_size, slow_start_threshold, congestion_window, in_slow_start,
    ack_count,          \* the static variable
    max_requests_per_second,
    recent_requests,    \* controller -> ages of its requests, oldest first
    allowed,            \* <<k, c>>: caller k has a yes of controller c that it did not use
    own_acks,           \* history: a controller's own acknowledgements in congestion
                        \* avoidance since its congestion window last grew there
    highest             \* history: the highest limit a controller had

window == <<window_size, slow_start_threshold, congestion_window, in_slow_start>>
requestVars == <<max_requests_per_second, recent_requests, allowed, highest>>
flowVars == <<window, ack_count, own_acks, requestVars>>

max(a, b) == IF a >= b THEN a ELSE b
min(a, b) == IF a <= b THEN a ELSE b

FlowInit ==
    /\ window_size = [c \in Controllers |-> 1]
    /\ slow_start_threshold = [c \in Controllers |-> Threshold]
    /\ congestion_window = [c \in Controllers |-> 1]
    /\ in_slow_start = [c \in Controllers |-> TRUE]
    /\ ack_count = 0
    /\ max_requests_per_second = [c \in Controllers |-> DefaultRate]
    /\ recent_requests = [c \in Controllers |-> <<>>]
    /\ allowed = {}
    /\ own_acks = [c \in Controllers |-> 0]
    /\ highest = [c \in Controllers |-> DefaultRate]

update_congestion_window(c) ==
    window_size' = [window_size EXCEPT ![c] =
        max(min(congestion_window'[c], slow_start_threshold'[c]), 1)]

AckInSlowStart(c) ==
    /\ in_slow_start[c]
    /\ congestion_window' = [congestion_window EXCEPT ![c] = @ + 1]
    /\ in_slow_start' = [in_slow_start EXCEPT ![c] = congestion_window[c] + 1 < slow_start_threshold[c]]
    /\ UNCHANGED <<ack_count, own_acks>>

AckInAvoidance(c) ==
    /\ ~in_slow_start[c]
    /\ LET grow == ack_count + 1 >= congestion_window[c]
       IN  /\ ack_count' = IF grow THEN 0 ELSE ack_count + 1
           /\ congestion_window' = [congestion_window EXCEPT ![c] = IF grow THEN @ + 1 ELSE @]
           /\ own_acks' = [own_acks EXCEPT ![c] = IF grow THEN 0 ELSE @ + 1]
    /\ UNCHANGED in_slow_start

on_ack_received(c) ==
    /\ congestion_window[c] < MaxWindow
    /\ AckInSlowStart(c) \/ AckInAvoidance(c)
    /\ UNCHANGED <<slow_start_threshold, requestVars>>
    /\ update_congestion_window(c)

on_timeout(c) ==
    /\ slow_start_threshold' = [slow_start_threshold EXCEPT ![c] = max(congestion_window[c] \div 2, 2)]
    /\ congestion_window' = [congestion_window EXCEPT ![c] = 1]
    /\ in_slow_start' = [in_slow_start EXCEPT ![c] = TRUE]
    /\ update_congestion_window(c)
    /\ UNCHANGED <<ack_count, own_acks, requestVars>>

Young(requests) == {i \in DOMAIN requests : requests[i] <= OneSecond}

\* update_rate_limit: requests more than a second old leave the front of the queue
update_rate_limit(requests) ==
    LET old == CHOOSE n \in 0 .. Len(requests) :
                  /\ \A i \in 1 .. n : i \notin Young(requests)
                  /\ n < Len(requests) => n + 1 \in Young(requests)
    IN  SubSeq(requests, old + 1, Len(requests))

Recent(c) == update_rate_limit(recent_requests[c])

\* the callers with an unused yes of c
Yeses(c) == {k \in Callers : <<k, c>> \in allowed}

\* mutant: off by one
Bug_can_send_request(k, c) ==
    /\ recent_requests' = [recent_requests EXCEPT ![c] = Recent(c)]
    /\ allowed' = IF Cardinality(Young(Recent(c))) <= max_requests_per_second[c]
                  THEN allowed \cup {<<k, c>>} ELSE allowed \ {<<k, c>>}
    /\ UNCHANGED <<window, ack_count, own_acks, max_requests_per_second, highest>>

can_send_request(k, c) ==
    /\ recent_requests' = [recent_requests EXCEPT ![c] = Recent(c)]
    /\ allowed' = IF Cardinality(Young(Recent(c))) < max_requests_per_second[c]
                  THEN allowed \cup {<<k, c>>} ELSE allowed \ {<<k, c>>}
    /\ UNCHANGED <<window, ack_count, own_acks, max_requests_per_second, highest>>

\* a caller sends when it was allowed to
on_request_sent(k, c) ==
    /\ <<k, c>> \in allowed
    /\ Len(recent_requests[c]) < MaxRecent
    /\ recent_requests' = [recent_requests EXCEPT ![c] = Append(@, 0)]
    /\ allowed' = allowed \ {<<k, c>>}
    /\ UNCHANGED <<window, ack_count, own_acks, max_requests_per_second, highest>>

set_max_requests_per_second(c, max_rate) ==
    /\ max_requests_per_second' = [max_requests_per_second EXCEPT ![c] = max_rate]
    /\ highest' = [highest EXCEPT ![c] = max(@, max_rate)]
    /\ UNCHANGED <<window, ack_count, own_acks, recent_requests, allowed>>

\* ages past OneSecond need not be told apart
RequestsAge ==
    /\ recent_requests' = [c \in Controllers |->
          [i \in DOMAIN recent_requests[c] |-> min(recent_requests[c][i] + 1, OneSecond + 1)]]
    /\ UNCHANGED <<window, ack_count, own_acks, max_requests_per_second, allowed, highest>>

FlowNext ==
    \/ \E c \in Controllers :
          \/ on_ack_received(c)
          \/ on_timeout(c)
          \/ \E k \in Callers : can_send_request(k, c) \/ on_request_sent(k, c)
          \/ \E r \in RequestRates : set_max_requests_per_second(c, r)
    \/ RequestsAge

FlowSpec == FlowInit /\ [][FlowNext]_flowVars

-----------------------------------------------------------------------------
(***************************************************************************)
(* A caller that sends only after can_send_request said yes keeps to the   *)
(* limit, the highest one set so far, in every second, also when it uses   *)
(* the yes late.  Callers that ask one after the other before they send    *)
(* see each other's requests too late: each may add one.                   *)
(***************************************************************************)
RateLimited ==
    \A c \in Controllers :
        Cardinality(Young(recent_requests[c])) < highest[c] + Cardinality(Callers)

(***************************************************************************)
(* Once a controller has left slow start its window stays at the threshold *)
(* until the next timeout: update_congestion_window takes the smaller of   *)
(* the two, so the growth of congestion_window_ in congestion avoidance    *)
(* never reaches the window.                                               *)
(***************************************************************************)
AvoidanceKeepsWindow ==
    \A c \in Controllers :
        /\ ~in_slow_start[c] => window_size[c] = slow_start_threshold[c]
        /\ window_size[c] \in 1 .. slow_start_threshold[c]

(***************************************************************************)
(* What the comment of on_ack_received says, "Linear growth in congestion  *)
(* avoidance": when congestion_window_ grows there, the window does.       *)
(***************************************************************************)
AvoidanceGrows ==
    [][\A c \in Controllers :
          ~in_slow_start[c] /\ congestion_window'[c] > congestion_window[c] =>
              window_size'[c] > window_size[c]]_flowVars

(***************************************************************************)
(* What the comment of on_ack_received says, "Increase by 1/cwnd for each  *)
(* ACK": a controller that grows in congestion avoidance had a window of   *)
(* acknowledgements of its own.                                            *)
(***************************************************************************)
GrowsByOwnAcks ==
    [][\A c \in Controllers :
          ~in_slow_start[c] /\ congestion_window'[c] > congestion_window[c] =>
              own_acks[c] + 1 >= congestion_window[c]]_flowVars

(***************************************************************************)
(* What the test FlowController_RateLimiting expects: when nothing was     *)
(* sent for a fifth of a second, can_send_request says yes again.          *)
(***************************************************************************)
AllowedAfterWait ==
    [][\A c \in Controllers, k \in Callers :
          /\ can_send_request(k, c)
          /\ \A i \in DOMAIN recent_requests[c] : 5 * recent_requests[c][i] >= OneSecond
          => <<k, c>> \in allowed']_flowVars
=============================================================================
