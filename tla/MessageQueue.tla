---------------------------- MODULE MessageQueue ----------------------------
(***************************************************************************)
(* Class MessageQueue (message_handler.cpp): two bounded queues behind one *)
(* mutex; the priority queue is served first and holds a quarter of        *)
(* max_size_.  A message is its number among the messages pushed to its    *)
(* queue, with the time it was pushed.                                     *)
(***************************************************************************)
EXTENDS Integers, FiniteSets, Sequences, SequencesExt

CONSTANTS
    max_size,   \* max_size_, at least 4: with less, push_priority pops an empty queue
    MaxPushed,  \* bound: messages pushed to each queue
    MaxTicks    \* bound: ticks of the clock

ASSUME QueueAssumption ==
    max_size \in Nat /\ max_size >= 4 /\ MaxPushed \in Nat /\ MaxTicks \in Nat

Queues == {"normal", "priority"}

\* the length at which a queue drops its oldest message
Limit(q) == IF q = "normal" THEN max_size ELSE max_size \div 4

VARIABLES
    queue,      \* normal_queue_ and priority_queue_
    ticks,      \* the clock
    pushed,     \* history: queue -> messages pushed
    popped      \* history: queue -> number of the last message popped

queueVars == <<queue, ticks, pushed, popped>>

Queued == [id: 1 .. MaxPushed, timestamp: 0 .. MaxTicks]

QueueTypeOK ==
    /\ queue \in [Queues -> Seq(Queued)]
    /\ ticks \in 0 .. MaxTicks
    /\ pushed \in [Queues -> 0 .. MaxPushed]
    /\ popped \in [Queues -> 0 .. MaxPushed]

QueueInit ==
    /\ queue = [q \in Queues |-> <<>>]
    /\ ticks = 0
    /\ pushed = [q \in Queues |-> 0]
    /\ popped = [q \in Queues |-> 0]

\* mutant: the newest message is dropped
Bug_MakeRoomAtEnd(q) == IF Len(queue[q]) >= Limit(q) THEN Front(queue[q]) ELSE queue[q]

MakeRoom(q) == IF Len(queue[q]) >= Limit(q) THEN Tail(queue[q]) ELSE queue[q]

\* push and push_priority
push(q) ==
    /\ pushed[q] < MaxPushed
    /\ queue' = [queue EXCEPT ![q] =
                    Append(MakeRoom(q), [id |-> pushed[q] + 1, timestamp |-> ticks])]
    /\ pushed' = [pushed EXCEPT ![q] = @ + 1]
    /\ UNCHANGED <<ticks, popped>>

PopFrom(q) ==
    /\ queue[q] # <<>>
    /\ queue' = [queue EXCEPT ![q] = Tail(@)]
    /\ popped' = [popped EXCEPT ![q] = Head(queue[q]).id]
    /\ UNCHANGED <<ticks, pushed>>

\* mutant: the normal queue is served first
Bug_pop ==
    \/ PopFrom("normal")
    \/ queue["normal"] = <<>> /\ PopFrom("priority")

pop ==
    \/ PopFrom("priority")
    \/ queue["priority"] = <<>> /\ PopFrom("normal")

clear ==
    /\ queue' = [q \in Queues |-> <<>>]
    /\ UNCHANGED <<ticks, pushed, popped>>

\* the messages of s that are young enough, in their order: the k-th of them is the one
\* with k young ones up to it
Young(s, max_age) == {i \in DOMAIN s : ticks - s[i].timestamp <= max_age}

clean_queue(s, max_age) ==
    [k \in 1 .. Cardinality(Young(s, max_age)) |->
        s[CHOOSE i \in Young(s, max_age) :
              Cardinality({j \in Young(s, max_age) : j <= i}) = k]]

cleanup_old_messages(max_age) ==
    /\ queue' = [q \in Queues |-> clean_queue(queue[q], max_age)]
    /\ UNCHANGED <<ticks, pushed, popped>>

QueueClockTick ==
    /\ ticks < MaxTicks
    /\ ticks' = ticks + 1
    /\ UNCHANGED <<queue, pushed, popped>>

QueueNext ==
    \/ \E q \in Queues : push(q)
    \/ pop
    \/ clear
    \/ \E max_age \in 0 .. MaxTicks : cleanup_old_messages(max_age)
    \/ QueueClockTick

QueueSpec == QueueInit /\ [][QueueNext]_queueVars

-----------------------------------------------------------------------------
(***************************************************************************)
(* Overflow, expiry and popping only ever take the oldest messages: a      *)
(* queue is always the last messages pushed to it, without a gap, in their *)
(* order and within its limit.                                             *)
(***************************************************************************)
HoldsTheNewest ==
    \A q \in Queues :
        /\ Len(queue[q]) <= Limit(q)
        /\ \A i \in 1 .. Len(queue[q]) : queue[q][i].id = pushed[q] - Len(queue[q]) + i

(***************************************************************************)
(* Messages of one queue are delivered in order, none twice, and a normal  *)
(* one only when no priority message waits.                                *)
(***************************************************************************)
DeliveredInOrder ==
    [][\A q \in Queues : popped'[q] # popped[q] =>
          /\ popped'[q] > popped[q]
          /\ q = "normal" => queue["priority"] = <<>>]_queueVars
=============================================================================
