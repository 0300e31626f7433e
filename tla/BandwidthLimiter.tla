-------------------------- MODULE BandwidthLimiter --------------------------
(***************************************************************************)
(* Class BandwidthLimiter (bandwidth_limiter.cpp): a token bucket and a    *)
(* priority queue behind one mutex, so each call is one step.  can_send    *)
(* and consume_tokens are two calls: other threads come in between, and    *)
(* consume_tokens does not tell its caller that it took nothing.  Time is  *)
(* a clock in milliseconds, of which Second make the unit of bandwidth.    *)
(***************************************************************************)
EXTENDS Naturals, Sequences, SequencesExt

CONSTANTS
    Senders,        \* threads that test can_send and then consume
    Rates,          \* arguments of set_max_bandwidth, with the default
    Capacities,     \* arguments of set_bucket_capacity, with the default
    RequestSizes,   \* bytes of a request
    Second,         \* milliseconds in a second (1000 in the code)
    MaxClock,       \* bound: the clock
    MaxRequests     \* bound: add_request calls

ASSUME BucketAssumption ==
    /\ Rates \subseteq Nat /\ Capacities \subseteq Nat /\ RequestSizes \subseteq Nat
    /\ Second \in Nat \ {0} /\ MaxClock \in Nat /\ MaxRequests \in Nat

VARIABLES
    max_bandwidth, bucket_capacity, available_tokens,
    last_refill,        \* the clock at the last refill
    pending_requests,   \* the requests of the queue, in the order top and pop give them
    now,                \* the steady clock
    checked,            \* sender -> the bytes can_send allowed it, 0 for none
    arrivals,           \* history: add_request calls so far
    served,             \* history: what process_pending_requests returned, in order
    taken               \* history: tokens taken so far

bucketVars == <<max_bandwidth, bucket_capacity, available_tokens, last_refill, pending_requests,
                now, checked, arrivals, served, taken>>

Priority == {0, 1, 2}   \* LOW, NORMAL, HIGH

BucketInit ==
    /\ max_bandwidth \in Rates
    /\ bucket_capacity \in Capacities
    /\ available_tokens = bucket_capacity
    /\ last_refill = 0 /\ now = 0
    /\ pending_requests = <<>>
    /\ checked = [s \in Senders |-> 0]
    /\ arrivals = 0
    /\ served = <<>>
    /\ taken = 0

Smaller(a, b) == IF a <= b THEN a ELSE b

\* update_tokens: what the bucket holds at this moment
Refilled ==
    Smaller(available_tokens + (max_bandwidth * (now - last_refill)) \div Second, bucket_capacity)

\* mutant: the moment of the refill is not remembered
Bug_Refill == last_refill' = last_refill

Refill == last_refill' = now

\* mutant: the comparison prefers the later stamp
Bug_Precedes(r, q) ==
    \/ r.priority > q.priority
    \/ r.priority = q.priority /\ r.stamp > q.stamp

\* Request::operator<
Precedes(r, q) ==
    \/ r.priority > q.priority
    \/ r.priority = q.priority /\ r.stamp < q.stamp

\* std::priority_queue::push: behind what precedes the request, before what it
\* precedes, and anywhere among those with its priority and its time
push(r) ==
    \E i \in 1 .. Len(pending_requests) + 1 :
        /\ \A k \in 1 .. i - 1 : ~Precedes(r, pending_requests[k])
        /\ \A k \in i .. Len(pending_requests) : ~Precedes(pending_requests[k], r)
        /\ pending_requests' = InsertAt(pending_requests, i, r)

\* one turn of the loop of process_pending_requests
Turn(s) ==
    IF s.queue = <<>> \/ s.tokens = 0 \/ s.tokens < Head(s.queue).bytes THEN s
    ELSE [queue |-> Tail(s.queue), tokens |-> s.tokens - Head(s.queue).bytes,
          out |-> Append(s.out, Head(s.queue))]

Turns[n \in 0 .. MaxRequests] ==
    IF n = 0 THEN [queue |-> pending_requests, tokens |-> Refilled, out |-> <<>>]
    ELSE Turn(Turns[n - 1])

process_pending_requests ==
    LET end == Turns[Len(pending_requests)]
    IN  /\ pending_requests # <<>>
        /\ Refill
        /\ available_tokens' = end.tokens
        /\ pending_requests' = end.queue
        /\ served' = served \o end.out
        /\ taken' = taken + (Refilled - end.tokens)
        /\ UNCHANGED <<max_bandwidth, bucket_capacity, now, checked, arrivals>>

add_request(priority, bytes) ==
    /\ arrivals < MaxRequests
    /\ arrivals' = arrivals + 1
    /\ push([priority |-> priority, bytes |-> bytes, stamp |-> now])
    /\ UNCHANGED <<max_bandwidth, bucket_capacity, available_tokens, last_refill, now,
                   checked, served, taken>>

can_send(s, bytes) ==
    /\ checked[s] = 0
    /\ Refill
    /\ available_tokens' = Refilled
    /\ checked' = [checked EXCEPT ![s] = IF Refilled >= bytes THEN bytes ELSE 0]
    /\ UNCHANGED <<max_bandwidth, bucket_capacity, pending_requests, now, arrivals, served, taken>>

consume_tokens(s) ==
    /\ checked[s] > 0
    /\ LET paid == IF available_tokens >= checked[s] THEN checked[s] ELSE 0
       IN  /\ available_tokens' = available_tokens - paid
           /\ taken' = taken + paid
    /\ checked' = [checked EXCEPT ![s] = 0]
    /\ UNCHANGED <<max_bandwidth, bucket_capacity, last_refill, pending_requests, now,
                   arrivals, served>>

refill_bucket ==
    /\ now > last_refill
    /\ Refill
    /\ available_tokens' = Refilled
    /\ UNCHANGED <<max_bandwidth, bucket_capacity, pending_requests, now, checked, arrivals,
                   served, taken>>

set_max_bandwidth(rate) ==
    /\ max_bandwidth' = rate
    /\ UNCHANGED <<bucket_capacity, available_tokens, last_refill, pending_requests, now,
                   checked, arrivals, served, taken>>

set_bucket_capacity(capacity) ==
    /\ bucket_capacity' = capacity
    /\ available_tokens' = Smaller(available_tokens, capacity)
    /\ UNCHANGED <<max_bandwidth, last_refill, pending_requests, now, checked, arrivals,
                   served, taken>>

Tick ==
    /\ now < MaxClock
    /\ now' = now + 1
    /\ UNCHANGED <<max_bandwidth, bucket_capacity, available_tokens, last_refill,
                   pending_requests, checked, arrivals, served, taken>>

BucketNext ==
    \/ process_pending_requests
    \/ \E p \in Priority, b \in RequestSizes : add_request(p, b)
    \/ \E s \in Senders :
          \/ \E b \in RequestSizes : can_send(s, b)
          \/ consume_tokens(s)
    \/ refill_bucket
    \/ \E r \in Rates : set_max_bandwidth(r)
    \/ \E c \in Capacities : set_bucket_capacity(c)
    \/ Tick

BucketSpec == BucketInit /\ [][BucketNext]_bucketVars

-----------------------------------------------------------------------------
(***************************************************************************)
(* The tokens that leave the bucket never exceed the largest bucket plus   *)
(* the largest bandwidth over the time gone by, whatever the settings are  *)
(* changed to and however refills, checks and grants interleave: no moment *)
(* is credited twice (update_tokens and last_refill_).                     *)
(***************************************************************************)
TokenBucket ==
    \E r \in Rates, c \in Capacities : Second * (taken + available_tokens) <= Second * c + r * now

(***************************************************************************)
(* Requests of one priority are granted in the order of their time stamps, *)
(* and none that waits has an earlier one than a request of its priority   *)
(* that was granted, however many calls the grants were spread over.  Two  *)
(* requests that read the same time may be granted in either order.        *)
(***************************************************************************)
GrantedInOrder ==
    \A j \in DOMAIN served :
        LET before == {served[i] : i \in 1 .. j - 1}
            waiting == ToSet(pending_requests)
        IN  /\ \A r \in before : r.priority = served[j].priority => r.stamp <= served[j].stamp
            /\ \A r \in waiting : r.priority = served[j].priority => r.stamp >= served[j].stamp
=============================================================================
