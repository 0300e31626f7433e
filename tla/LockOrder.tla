------------------------------ MODULE LockOrder ------------------------------
(***************************************************************************)
(* The mutexes of PeerRouter (peer_router.cpp) and the threads that call   *)
(* it: the users of its public methods and its maintenance thread.  A      *)
(* call is the sequence of its lock and unlock operations; a std::mutex is *)
(* not recursive.  The data the mutexes protect is in PeerRouting.  The    *)
(* callbacks for sending take no mutex of the router.                      *)
(***************************************************************************)
EXTENDS Sequences

CONSTANTS
    Threads,        \* threads
    Maintenance     \* those among them that run routing_maintenance_loop

Mutexes == {"file", "routing", "stats"}     \* file_mutex_, routing_mutex_, stats_mutex_

\* a critical section: a lock_guard on m around body
Hold(m, body) == <<[op |-> "lock", mutex |-> m]>> \o body \o <<[op |-> "unlock", mutex |-> m]>>

Brief(m) == Hold(m, <<>>)

-----------------------------------------------------------------------------
\* The public methods, by the sequence of their critical sections.
add_direct_peer == Hold("routing", Brief("stats"))
remove_peer == Hold("routing", Brief("stats"))
announce_file == Hold("file", Brief("stats"))
remove_file == Hold("file", Brief("stats"))
find_file == Brief("file") \o Brief("routing") \o Brief("stats")
forward_message == Brief("routing") \o Brief("stats")
get_optimal_peers_for_file == Hold("file", Brief("routing"))
handle_route_update == Hold("routing", Brief("stats"))
handle_topology_sync == Brief("routing")
handle_file_query == Brief("routing") \o Brief("stats") \o Brief("file")
handle_file_query_response == Hold("file", Brief("stats"))
get_statistics == Brief("stats")

\* find_file with a hit; forward_message without a route, handle_route_update that
\* changes nothing, handle_file_query for a query seen before
EarlyReturns == {Brief("file"), Brief("routing")}

PublicCalls ==
    EarlyReturns \cup
    {add_direct_peer, remove_peer, announce_file, remove_file, find_file,
     forward_message, get_optimal_peers_for_file, handle_route_update, handle_topology_sync,
     handle_file_query, handle_file_query_response, get_statistics}

\* one cycle of the maintenance thread
cleanup_expired_entries ==
    Hold("routing", Brief("file") \o Hold("stats", Brief("file")))
send_route_updates == Brief("routing")
send_topology_sync == Brief("routing")

routing_maintenance_loop ==
    {cleanup_expired_entries \o send_route_updates,
     cleanup_expired_entries \o send_route_updates \o send_topology_sync}

Calls(t) == IF t \in Maintenance THEN routing_maintenance_loop ELSE PublicCalls

-----------------------------------------------------------------------------
VARIABLES
    todo,       \* thread -> what is left of the call it is in (empty between calls)
    owner       \* mutex -> the thread that holds it, as a set of at most one

vars == <<todo, owner>>

Init ==
    /\ todo = [t \in Threads |-> <<>>]
    /\ owner = [m \in Mutexes |-> {}]

Call(t) ==
    /\ todo[t] = <<>>
    /\ \E call \in Calls(t) : todo' = [todo EXCEPT ![t] = call]
    /\ UNCHANGED owner

AtStep(t, op) == todo[t] # <<>> /\ Head(todo[t]).op = op

Lock(t) ==
    /\ AtStep(t, "lock")
    /\ owner[Head(todo[t]).mutex] = {}
    /\ owner' = [owner EXCEPT ![Head(todo[t]).mutex] = {t}]
    /\ todo' = [todo EXCEPT ![t] = Tail(@)]

Unlock(t) ==
    /\ AtStep(t, "unlock")
    /\ owner' = [owner EXCEPT ![Head(todo[t]).mutex] = {}]
    /\ todo' = [todo EXCEPT ![t] = Tail(@)]

Next == \E t \in Threads : Call(t) \/ Lock(t) \/ Unlock(t)

Spec == Init /\ [][Next]_vars

-----------------------------------------------------------------------------
\* the threads that t waits for
WaitsFor(t) == IF AtStep(t, "lock") THEN owner[Head(todo[t]).mutex] ELSE {}

(***************************************************************************)
(* No set of threads waits in a circle: in every group of threads there is *)
(* one that waits for none of the group.  The public methods of PeerRouter *)
(* take file_mutex_ before routing_mutex_ before stats_mutex_; with the    *)
(* maintenance thread, which takes them the other way round, callers that  *)
(* are to be joined (the test ConcurrentOperations) may never return.      *)
(***************************************************************************)
NoCircularWait ==
    \A S \in SUBSET Threads \ {{}} : \E t \in S : WaitsFor(t) \cap S = {}
=============================================================================
