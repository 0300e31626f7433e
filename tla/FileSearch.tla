----------------------------- MODULE FileSearch -----------------------------
(***************************************************************************)
(* The files of class PeerRouter (peer_router.cpp): announce_file,         *)
(* remove_file and find_file, and the flooding of queries over a network   *)
(* of routers.  Messages wait on their connection for any time (a lost one *)
(* waits forever); clocks of different hosts differ.  The model hands a    *)
(* query to handle_file_query and an answer to handle_file_query_response, *)
(* which nothing calls: the code sends both under the type of a route      *)
(* update, which makes their receivers drop them (see Stream).             *)
(*                                                                         *)
(* The id of a query is a checksum of what is searched for, not of who     *)
(* searches: here the two are the same thing, the file.                    *)
(***************************************************************************)
EXTENDS Integers, Sequences, FiniteSets

CONSTANTS
    Routers,
    Connections,            \* the connected pairs of routers
    Sharers,                \* the routers whose owners have files to share
    Files,
    MAX_HOP_COUNT, MAX_FLOODING_TARGETS, MAX_FILE_LOCATIONS,
    QueryWindow,            \* a query is a duplicate for this long (60 seconds)
    QueryExpiry,            \* query_cache_ keeps a query for this long (5 minutes)
    LocationExpiry,         \* file_locations_ keep a location for this long (an hour)
    Uptime,                 \* router -> what its steady clock is ahead
    MaxSearches,            \* bound: queries that find_file sends
    MaxAnnounced            \* bound: calls of announce_file

ASSUME ConnectionsAssumption == \A r \in Routers : {r} \notin Connections
ASSUME SearchAssumption ==
    /\ QueryExpiry \in Nat /\ LocationExpiry \in Nat /\ Uptime \in [Routers -> Int]
    /\ MaxSearches \in Nat /\ MaxAnnounced \in Nat

VARIABLES
    local_files,        \* router -> the files it has announced and not removed
    file_locations,     \* router -> file -> sequence of [peer, age]; one hash per file
    query_cache,        \* router -> file -> age of the last query for it, or NoQuery
    file_queries,       \* queries on their way
    responses,          \* answers on their way
    searches,           \* how often find_file sent a query
    announcements       \* how often announce_file was called

searchVars ==
    <<local_files, file_locations, query_cache, file_queries, responses, searches, announcements>>
files == <<local_files, file_locations, announcements>>

NoQuery == QueryExpiry + 1      \* as good as any age past the expiry

Neighbours(r) == {s \in Routers : {r, s} \in Connections}

Query == [from: Routers, to: Routers, source: Routers, file: Files, hop_count: Nat]
FileLocation == [peer: Routers, age: Int]
Response == [from: Routers, to: Routers, file: Files, locations: Seq(FileLocation)]

SearchTypeOK ==
    /\ local_files \in [Routers -> SUBSET Files]
    /\ file_locations \in [Routers -> [Files -> Seq(FileLocation)]]
    /\ query_cache \in [Routers -> [Files -> 0 .. NoQuery]]
    /\ file_queries \subseteq Query /\ responses \subseteq Response
    /\ searches \in 0 .. MaxSearches /\ announcements \in 0 .. MaxAnnounced

SearchInit ==
    /\ local_files = [r \in Routers |-> {}]
    /\ file_locations = [r \in Routers |-> [f \in Files |-> <<>>]]
    /\ query_cache = [r \in Routers |-> [f \in Files |-> NoQuery]]
    /\ file_queries = {} /\ responses = {}
    /\ searches = 0 /\ announcements = 0

-----------------------------------------------------------------------------
(* The calls of a router's owner. *)

\* a file that is announced again is listed twice
announce_file(r, f) ==
    /\ r \in Sharers /\ announcements < MaxAnnounced
    /\ announcements' = announcements + 1
    /\ local_files' = [local_files EXCEPT ![r] = @ \cup {f}]
    /\ file_locations' = [file_locations EXCEPT ![r][f] = Append(@, [peer |-> r, age |-> 0])]
    /\ UNCHANGED <<query_cache, file_queries, responses, searches>>

\* the locations at these positions of a list, in their order: the k-th of them is the one
\* with k of the positions up to it
Kept(list, positions) ==
    [k \in 1 .. Cardinality(positions) |->
        list[CHOOSE i \in positions : Cardinality({j \in positions : j <= i}) = k]]

Of(list, r) == {i \in DOMAIN list : list[i].peer = r}

remove_file(r, f) ==
    /\ local_files' = [local_files EXCEPT ![r] = @ \ {f}]
    /\ file_locations' =
          [file_locations EXCEPT ![r][f] = Kept(@, DOMAIN @ \ Of(@, r))]
    /\ UNCHANGED <<query_cache, file_queries, responses, searches, announcements>>

Sent(r, targets, source, f, hops) ==
    {[from |-> r, to |-> t, source |-> source, file |-> f, hop_count |-> hops] : t \in targets}

\* nothing is known of the file: the query goes to every connection
find_file(r, f) ==
    /\ file_locations[r][f] = <<>> /\ searches < MaxSearches
    /\ searches' = searches + 1
    /\ query_cache' = [query_cache EXCEPT ![r][f] = 0]
    /\ file_queries' = file_queries \cup Sent(r, Neighbours(r), r, f, 0)
    /\ UNCHANGED <<responses, files>>

-----------------------------------------------------------------------------
(* The handlers. *)

IsDuplicate(q) == query_cache[q.to][q.file] < QueryWindow

IgnoreDuplicate(q) ==
    /\ IsDuplicate(q)
    /\ file_queries' = file_queries \ {q}
    /\ UNCHANGED <<query_cache, responses, searches, files>>

Remember(q) ==
    /\ ~IsDuplicate(q)
    /\ query_cache' = [query_cache EXCEPT ![q.to][q.file] = 0]
    /\ UNCHANGED <<searches, files>>

\* mutant: whatever is known is passed on
Bug_Matching(q) == file_locations[q.to][q.file]

\* a router answers for itself only
Matching(q) ==
    LET list == file_locations[q.to][q.file]
    IN  Kept(list, Of(list, q.to))

\* the answer goes straight to the source, and is dropped unless the two are connected
Answer(q) ==
    /\ Remember(q) /\ Matching(q) # <<>>
    /\ file_queries' = file_queries \ {q}
    /\ responses' = responses \cup
          {[from |-> q.to, to |-> s, file |-> q.file, locations |-> Matching(q)] :
              s \in {q.source} \cap Neighbours(q.to)}

\* get_flooding_targets: a random choice of the neighbours; the sender can be among them
FloodingTargets(q) ==
    LET candidates == Neighbours(q.to) \ {q.source}
        count == IF Cardinality(candidates) < MAX_FLOODING_TARGETS
                 THEN Cardinality(candidates) ELSE MAX_FLOODING_TARGETS
    IN  {T \in SUBSET candidates : Cardinality(T) = count}

\* mutant: the hop count is not increased
Bug_Forward(q) ==
    /\ Remember(q) /\ Matching(q) = <<>>
    /\ q.hop_count < MAX_HOP_COUNT - 1
    /\ \E targets \in FloodingTargets(q) :
          file_queries' = (file_queries \ {q})
                              \cup Sent(q.to, targets, q.source, q.file, q.hop_count)
    /\ UNCHANGED responses

Forward(q) ==
    /\ Remember(q) /\ Matching(q) = <<>>
    /\ q.hop_count < MAX_HOP_COUNT - 1
    /\ \E targets \in FloodingTargets(q) :
          file_queries' = (file_queries \ {q})
                              \cup Sent(q.to, targets, q.source, q.file, q.hop_count + 1)
    /\ UNCHANGED responses

TooFar(q) ==
    /\ Remember(q) /\ Matching(q) = <<>>
    /\ q.hop_count >= MAX_HOP_COUNT - 1
    /\ file_queries' = file_queries \ {q}
    /\ UNCHANGED responses

handle_file_query(q) == IgnoreDuplicate(q) \/ Answer(q) \/ Forward(q) \/ TooFar(q)

\* a location that is listed already, or finds the list full, is passed over
WithLocation(list, l) ==
    IF (\E i \in DOMAIN list : list[i].peer = l.peer) \/ Len(list) >= MAX_FILE_LOCATIONS
    THEN list ELSE Append(list, l)

\* the loop over the locations of an answer
WithLocations(list, new) ==
    LET after[k \in 0 .. Len(new)] ==
            IF k = 0 THEN list ELSE WithLocation(after[k - 1], new[k])
    IN  after[Len(new)]

\* announced_at is a reading of the announcer's clock
Received(m) ==
    [i \in DOMAIN m.locations |->
        [m.locations[i] EXCEPT !.age = @ + Uptime[m.to] - Uptime[m.from]]]

handle_file_query_response(m) ==
    /\ responses' = responses \ {m}
    /\ file_locations' =
          [file_locations EXCEPT ![m.to][m.file] = WithLocations(@, Received(m))]
    /\ UNCHANGED <<local_files, query_cache, file_queries, searches, announcements>>

-----------------------------------------------------------------------------
(* The maintenance thread, the clocks and the connections. *)

cleanup_expired_entries(r) ==
    /\ file_locations' = [file_locations EXCEPT ![r] =
          [f \in Files |-> Kept(@[f], {i \in DOMAIN @[f] : @[f][i].age <= LocationExpiry})]]
    /\ query_cache' = [query_cache EXCEPT ![r] =
          [f \in Files |-> IF @[f] > QueryExpiry THEN NoQuery ELSE @[f]]]
    /\ UNCHANGED <<local_files, file_queries, responses, searches, announcements>>

Older(age, limit) == IF age > limit THEN age ELSE age + 1

\* the age of a location on its way is the one its announcer's clock tells
Aged(list) == [i \in DOMAIN list |-> [list[i] EXCEPT !.age = Older(@, LocationExpiry)]]

ClockTick ==
    /\ file_locations' = [r \in Routers |-> [f \in Files |-> Aged(file_locations[r][f])]]
    /\ responses' = {[m EXCEPT !.locations = Aged(@)] : m \in responses}
    /\ query_cache' = [r \in Routers |-> [f \in Files |->
                          Older(query_cache[r][f], QueryExpiry)]]
    /\ UNCHANGED <<local_files, file_queries, searches, announcements>>

Deliver ==
    \/ \E q \in file_queries : handle_file_query(q)
    \/ \E m \in responses : handle_file_query_response(m)

SearchNext ==
    \/ \E r \in Routers :
          \/ \E f \in Files : announce_file(r, f) \/ remove_file(r, f) \/ find_file(r, f)
          \/ cleanup_expired_entries(r)
    \/ Deliver
    \/ ClockTick

SearchSpec == SearchInit /\ [][SearchNext]_searchVars

(* What waits on a connection is delivered sooner or later. *)
FairSearchSpec == SearchSpec /\ WF_searchVars(Deliver)

-----------------------------------------------------------------------------
(***************************************************************************)
(* A router lists itself for a file only as long as its owner shares the   *)
(* file: after remove_file no answer that is still on its way, and no      *)
(* other router's memory of the file, brings the location back, and so no  *)
(* router ever answers for a file it has given up.                         *)
(***************************************************************************)
RemovedStaysRemoved ==
    \A r \in Routers, f \in Files :
        (\E i \in DOMAIN file_locations[r][f] : file_locations[r][f][i].peer = r)
        => f \in local_files[r]

(***************************************************************************)
(* The flood of a query ends, on a network with cycles and with copies     *)
(* that arrive after query_cache_ has stopped calling them duplicates: it  *)
(* is the hop count that ends it then.                                     *)
(***************************************************************************)
FloodEnds == <>[](file_queries = {})
=============================================================================
