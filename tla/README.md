# HyperShare: a TLA+ development

HyperShare is a peer-to-peer file sharing daemon in C++: peers find each other,
connect over TCP, shake hands, exchange routes and file announcements, and
transfer files in hashed chunks. A daemon runs in the background; commands ask it
over a Unix socket or work on the file index themselves. This directory holds TLA+
modules translated from the source, TLC configurations that check them on small
instances, and TLAPS proofs, for every value of the constants, of every safety
property the passing runs check but one (`RoutesInTime`). Paths below are relative to the repository.

## Inventory

| Part | State | Operations | Hard because | What makes it correct |
|---|---|---|---|---|
| `TransferSession` | state, two `bitset<1024>`, request cursor, byte count, request times | start, request window, mark, chunk received, retry, pause/resume | chunks come late, twice, out of order, from an earlier transfer | nothing is forgotten, completion means whole, content is verified |
| `TransferManager` | table of sessions, limit, byte total | start, pause, resume, cancel, chunk request, chunk received, set limit | repeated ids, limit moved under load, sessions that are never started | the counters add up, what a session that was never started does |
| `NonceManager` | outgoing counter, per peer highest nonce and recent nonces | generate, verify, reset | forgets nonces; 64-bit wrap | at most once acceptance, bounded memory, no spurious refusal |
| `SecureHandshake` | phase, ephemeral keys, peer identity, nonce, rotation state | initiate, respond, complete, derive, rotate, reset | replay, crossing handshakes, uninitialized members, clocks of two hosts | keys belong to the peer, both ends agree, rotation never repeats keys |
| `PeerRouter` (routes) | direct connections, known peers, routing table | add, remove, update, sync, expiry | stale updates, counting to infinity, clocks of other hosts | tables agree, bounded hops, expiry works, routes learnt in time |
| `PeerRouter` (locks) | three mutexes | every public method, maintenance thread | lock order | nobody waits in a circle |
| `PeerRouter` (files) | own files, file locations, query cache | announce, remove, find, query, response, expiry | flooding on cycles, late copies, stale locations, clocks of other hosts | the flood ends, a removed file does not come back |
| `Connection` | state, write queue, write flag, read buffers | send, write completion, read header and payload, close | no mutex, several threads, a peer that dies mid-message | order on the wire, nothing left behind, handlers get what was sent |
| Wire formats, `MessageHandler`, `MessageSerializer` | handler table | encode, decode, dispatch | three codecs, truncation, one type for three messages | a cut message is never taken for another |
| `MessageQueue` | two bounded queues | push, push_priority, pop, clear, cleanup | overflow, priority, expiry | newest kept, in order |
| `UdpDiscovery` | peer table, announcement and cleanup times | start, announce, query, receive, expire | loss, restarts under a new id, a handler that blocks under the mutex | live peers stay known, dead ones go, everyone is found |
| `ConnectionManager`, `NetworkManager`, `TcpServer`, `TcpClient` | connection tables, io contexts | start, connect, register handlers | connects that never complete, a port that is taken | what the other parts need of them |
| `FlowController`, `BandwidthLimiter` | windows, request times, tokens, request queue | ack, timeout, ask, change the limit, consume, grant | a static shared by objects, check then act, equal times, rounding | the window and the rates hold, grants in order |
| `FileIndex`, share, download | SQLite tables, files on disk | add, remove, progress, cleanup, look up | no transaction, crashes, several processes, files that change | a shared file stays available and its row describes it |
| `ChunkManager`, `FileMetadata` | chunk files, output file | split, write, read, merge | no lock, torn files, a full disk | a merge that returns true is the file |
| IPC, start, status, peers, transfers | socket path, TCP port, accept thread | start, stop, accept, ask, answer | overlapping starts, kills, close() against accept() | nobody waits at a closed socket, every command ends |
| `FileAnnouncer`, crypto primitives, CLI parsing, configuration, logging | various | various | mostly I/O and library calls | left out |

Interactions. `Connection` calls back into the managers from the io thread; the
managers call `PeerRouter` with messages and peers; `PeerRouter` calls back to
send. Discovery calls `ConnectionManager::connect_to_peer` from its io thread and
under its mutex. `TransferManager` owns sessions and calls them under its mutex.
`SecureHandshake` and `NonceManager` are used per peer. Share and download use the
index in their own processes; the daemon and the commands meet at the socket path.
All times are readings of `steady_clock`, whose epoch is a host's own, yet two
protocols send them to peers.

The hazards, each at its line and with the properties that address it, are listed
in `PROJECT.json`.

## Modules and the code

- **TransferSessionOps** (no state): the methods of `TransferSession` as operators
  on one record, so that both modules below use the same text. A chunk is a size
  and a body; the bytes of chunk `i` of file `f` are the body `<<f, i>>`, and a
  hash test is a comparison of bodies. `Capacity` is the 1024 of the bitset: at
  that index `bitset::test` throws, which leaves the marks made so far and keeps
  `get_timed_out_chunks` of a larger file from reporting anything.
- **TransferSession**: one session, its owner and the network. `Unset` is what the
  uninitialized integers of `metadata_` may hold before `start_transfer`
  (`chunk_size` 0 would divide by zero and is excluded). The set `fresh` stands
  for request times younger than the timeout; `ClockTick` ages any of them.
- **TransferManager**: the table. No method of the manager calls `start_transfer`,
  so the sessions keep their uninitialized metadata.
- **ReplayGuard** is the abstract promise (each nonce at most once until reset);
  **NonceManager** the sliding window; `GuardSpec` is the refinement, with the
  history `accepted` mapped to itself and the last verdict to the last answer.
- **SecureHandshake**: one object per node. Identity keys are nodes, ephemeral keys
  and nonces are numbers drawn from one counter, a session key is the pair of
  ephemeral keys with the context. Sent messages stay in `network`, so they can be
  reordered, repeated or never delivered; `intact = FALSE` is a damaged copy.
  `SendRotation` is the application that makes a rotation message, as the tests
  do, because `initiate_key_rotation` drops the one it builds.
- **PeerRouting**: a network of routers, each action one critical section of
  `routing_mutex_`. `Uptime` gives every host its own clock epoch. When two routes
  tie in length the metric decides; the model allows either outcome. Left out:
  statistics, sequence numbers (written, never read), `MAX_ROUTING_ENTRIES`.
- **RoutingRounds**: the same routers on links that stay, driven by their maintenance
  threads: clean up, send routes, now and then ask for topologies, sleep. One tick of
  the clock is one `TOPOLOGY_UPDATE_INTERVAL`, and what was sent is handled within it.
- **FileSearch**: the files of the same class, on a network whose connections stay.
  A location has an age on its holder's clock; a query in `query_cache` is its age.
  The id of a query is a checksum of the file id, so it is the file here. Queries
  and answers are handed to the handlers written for them, which nothing calls in
  the program (see Stream for what happens to the bytes).
- **LockOrder**: the router's calls as sequences of lock and unlock operations.
- **Connection**: every access to a member is a step, because the class has no
  mutex. `Io` is the thread in `io_context::run`, `Senders` are the others (the
  heartbeat thread of `NetworkManager`). Its run shows what goes wrong.
- **Channel** is the abstract promise of a connection: what was put in comes out in
  order, each thing once and unchanged; it may stop, but it skips, repeats and invents
  nothing. Stream implements it from the sender to the handlers (`ChannelSpec`); the
  write path of Connection does not, as its run shows.
- **Wire** (no state): the three codecs (big-endian and throwing in `protocol.cpp`,
  little-endian and throwing in `peer_router.cpp`, little-endian and lenient in
  `file_protocol.cpp`) and the fields of every message. A byte has `Base` values,
  numbers keep their width in bytes. A file response carries its metadata only when it
  says accepted (`Carried`). **Stream** puts them on a TCP connection that
  may end after any byte, with the reading side of `Connection` and the dispatch to
  the handlers that `ConnectionManager::start` registers. `MessagesAssumption` says what
  can be sent: fields and lengths that fit their widths, a type that fits a byte, and
  under a type with a handler for another struct only bytes that this struct's reader
  refuses. The last is a condition on the messages that the code does not enforce:
  `PeerRouter` sends file queries under the type of a route update, and those of the
  run are refused.
- **MessageQueue**: both queues; a message is its number and its time.
- **FlowController**, **BandwidthLimiter**: each call is one step; a request is its
  age, a token a byte. `ack_count` is one variable for all controllers, as in the
  code; `own_acks` and `highest` are history. Several callers ask and send. The clock of
  the limiter counts milliseconds; requests of one priority that read the same time
  stand in the queue in any order, as in a heap.
- **ChunkFiles** (no state): splitting, sizes, completeness. Content is a sequence
  of units; the hash of a file or a chunk is its content. **Storage**: the index
  and the share command, one step per read of the file and per SQL statement; each
  statement commits by itself and may fail, and the process may die anywhere.
  `seen`, `hashed_at` and `shared` are history variables. **ChunkManager**: chunk
  files under concurrent writers, each opening, partial write and write a step, and a
  read two: the size is taken first, and what the file lacks by the time it is read is
  zeros. The disk may be full.
- **Daemon**: processes that share the socket path, which is fixed, and the TCP ports
  that their configurations name. An answer is success, error, one cut at the client's
  4095 bytes, or one larger than the socket's buffer. The queue of a listening
  socket, `SIGPIPE` and the fact that `close()` does not wake `accept()` are Linux.
- **Discovery**: nodes, datagrams and time in periods; whatever is due happens before
  the period ends (`Urgent`), except that an io thread inside a connection attempt does
  nothing for `ConnectTimeout` periods, and the discovery thread may sleep for `Poll`
  periods while its work is due (`late`).

The modules whose names begin with MC give the constants their values. Four of them
put components side by side that share no state: `MCFiles` the manager's table, flow
control, the limiter, the index and the chunk files, `MCCrypto` nonces and handshakes,
`MCNetwork` the routes, the reading side of a connection and the message queue,
`MCDiscovery` discovery and the file search. `moving`, chosen at the start, says which
of them takes the steps, so that each is explored by itself in one run. They extend
their components, as the proof modules do, so most components have names with a prefix
(`IndexSpec`, `ChunkSpec`, `StreamNext`, `QueueTypeOK`, ...).
The modules whose names end in Proofs hold the theorems.

Operators named `Bug_...` are faulty variants of the definition that follows them,
used to confirm that the properties can fail.

## Runs

| Run | Property | Result |
|---|---|---|
| transfer_session | TypeOK, NoChunkForgotten, CompletedIsWhole, VerifiedContent, NoRegress, TransferCompletes | hold, the last under fairness |
| files | TotalIsSum (table); RateLimited (flow control); TokenBucket, GrantedInOrder (limiter); SharedRowsAgree, SharedStaysAvailable, CleanupSparesComplete (index); MergedIsTheFile (chunk files) | hold |
| crypto | ForgottenIsTooOld, WindowBoundsMemory, GuardSpec (nonces); PeerBound, RotationRefreshesKeys (handshake) | hold |
| network | TablesAgree, HopsBounded, LastSeenGenuine, RouteNeverGrows (routes); HandedAsSent, WholeOrNothing (reading); HoldsTheNewest, DeliveredInOrder (queue) | hold |
| routing_rounds | RoutesInTime | holds on links that stay, until the routes expire |
| daemon | QueuedIsServed, EveryRequestEnds | hold, the second under fairness and unless an accept loop died |
| discovery | KnownIsRecent, LivePeerKept, EventuallyKnown (discovery); RemovedStaysRemoved, FloodEnds (file search) | hold, EventuallyKnown and FloodEnds under fairness |
| routing_loop | NoRoutingLoop | violated: two peers route through each other |
| router_threads | NoCircularWait | violated with the maintenance thread |
| up_is_reachable | UpIsReachable | violated: a second start takes the path and dies |
| initiator_completes | InitiatorCompletes | violated: the ack is verified against a context nobody signed |
| accepted_is_sent | AcceptedIsSent | violated with a second thread: a message stays in the queue |

The violations are disagreements between the code and what a test, a comment or a
message of the repository says; `PROJECT.json` quotes the line for each. That an
initiator never completes, and not only in one exchange, is `InitiatorsNeverComplete`.

Three passing properties say less than one might wish, and why:

- `RateLimited`: with k callers up to k - 1 requests more than the limit, since asking
  and sending are two calls; and the limit is the highest one set so far, since a
  lowered one does not call back what was allowed.
- `SharedStaysAvailable` is about shares all of whose statements worked and whose row was
  in place at the end; the others report success, too (next section).
- `LivePeerKept` says when a live peer may be dropped. With the constants of the code,
  two nodes lose each other after two lost announcements (3 * 31 + 30 > 120 seconds), and
  three nodes may without any loss, while connection attempts block them.

### Other disagreements met while modelling

These have no run of their own; the models contain the behaviour. The first ones are
stated as definitions beside the properties: what the repository says, which TLC refutes
as soon as a configuration names the definition.

- `StartedCanPause` (TransferManager): `start_download` never calls `start_transfer`
  (`transfer_manager.cpp:30`), so a transfer that was just started cannot be paused;
  `test_transfer_session.cpp:285` expects success. `ManagerNeverTransfers` proves that it
  is so after every sequence of calls.
- `AvoidanceGrows` (FlowController): the window is the smaller of congestion window and
  threshold (`flow_control.cpp:114`), so out of slow start it stands still until a timeout
  (`WindowStaysAtThreshold`); the comment says "Linear growth in congestion avoidance"
  (`:27`). `GrowsByOwnAcks`: `ack_count` (`:29`) is one for all controllers, so with two of
  them one grows on the acknowledgements of the other; the comment says "Increase by
  1/cwnd for each ACK" (`:28`).
- `AllowedAfterWait` (FlowController): at the limit a caller is refused until a whole
  second is over (`flow_control.cpp:93`); `test_transfer_session.cpp:216` expects to be
  allowed after 200 milliseconds.
- `CutThrows` (Stream): the readers of `file_protocol.cpp` make a blank message of a
  truncated or empty one (`file_protocol.cpp:315`); `test_file_protocol.cpp:320` and `326`
  expect `std::runtime_error`.
- `SentOnce` (Connection): `do_write` tests and sets `write_in_progress_` in two steps
  (`connection.cpp:179`), so two threads can write one message; `test_networking.cpp:206`
  counts one for every client.
- `ReportedIsAvailable` (Storage): `add_file` has no transaction and ignores failures of
  its statements for chunks (`file_index.cpp:129`), and the cleanup of another process can
  take the row between two of them; the command still prints "File is now available for
  download by peers." (`command_handler.cpp:76`). TLC finds it without any removal (`Keep`).
- `ReassembledIsComplete` (ChunkManager): a merge accepts a chunk file of any size but 0
  (`chunk_manager.cpp:175`), so one that a writer of the right data has only begun ends up
  in the output, and the call returns true; a download is to "Reassemble chunks into the
  complete file" (`command_handler.cpp:420`).
- `FailedStartEnds` (Daemon): `stop` closes the socket and joins the accept thread, which
  `close()` does not wake (`ipc_server.cpp:80`), so a start command whose network does not
  come up hangs; the loop takes for granted that `accept()` fails after a stop (`:102`).
- A duplicate chunk is counted again in `bytes_transferred_`
  (`transfer_session.cpp:133`); `test_transfer_session.cpp:330` says "should
  ignore".
- A file of more than 1024 chunks never completes, and its timeouts are never reported:
  `is_chunk_requested` throws (`transfer_session.cpp:147`).
- A default manager refuses the 11th transfer; `test_transfer_session.cpp:402`
  expects 50.
- With a window of 5, nonce 5 is accepted after nonce 10 (`encryption.cpp:316`);
  `test_encryption.cpp:197` calls it outside the window.
- `last_seen` of a direct peer is set once, in `add_direct_peer` (`peer_router.cpp:346`),
  and `cleanup_expired_entries` removes every peer, connected or not, after
  `ROUTE_TIMEOUT`: the routes that `RoutesInTime` is about do not stay.
- The age of a rotation message compares the steady clocks of two hosts
  (`secure_handshake.cpp:446`).
- The quarter of priority messages comes on top of `max_size_`
  (`message_handler.cpp:95`); `test_message_handler.cpp:210` bounds the sum.
- When both nodes initiate, both answer and complete with different keys, because
  `respond_to_handshake` does not look at the phase (`secure_handshake.cpp:182`);
  `test_secure_handshake.cpp:64` says "Both sides should have the same session keys".
- Deleting a row of `files` leaves its chunk rows: `ON DELETE CASCADE`
  (`file_index.cpp:50`) needs a pragma that nobody sets.
- A timeout can leave a slow start threshold above half the window
  (`flow_control.cpp:125`).
- `can_send` and `consume_tokens` are two critical sections: a sender that was told
  yes may consume nothing. A request larger than the bucket blocks the queue; a
  raised rate also pays for the time before it.
- File queries and their answers go out with the type `ROUTE_UPDATE`
  (`peer_router.cpp:502`, `735`, `750`), so no search is ever answered; the query id
  does not contain the searcher, so a second searcher within 60 seconds is taken for
  a duplicate; answers reach only direct neighbours of the searcher; a router's own
  locations expire after an hour although it still shares the file.
- `ConnectionManager::handle_new_connection` has no caller, so the table of
  connections stays empty (`test_networking.cpp:143` expects a connection), and
  what works on the table never runs. `connect_to_peer` returns true
  without a connection, because nobody runs the `io_context` of `TcpClient` (and its
  socket is a local variable, `tcp_client.cpp:38`).
- `TcpServer::stop` (`tcp_server.cpp:71`) and `TcpClient::disconnect` lock their own
  mutex again when a connection is open.
- A second start takes the socket path from a running daemon (run up_is_reachable);
  a client that leaves before its answer kills the daemon with `SIGPIPE`
  (`ipc_server.cpp:178`); an error of `accept` ends the loop for good (`:101`);
  answers are cut at 4095 bytes, and the client closes after one read, so an answer that
  does not fit the socket's buffer kills the daemon, too.
- The CRC table has 12 of its 256 entries (`protocol.cpp:24`). `FileAnnouncer` stores
  remote files under one key and looks them up under another
  (`file_announcer.cpp:119`).
- `chunk_file` overwrites the absolute path that share has put into the metadata
  (`chunk_manager.cpp:78`); sharing one content under two names keeps the second row;
  a failed merge leaves a truncated output, and a disk that fills up when a stream is
  closed is not noticed.

### Bounds

- Transfers: a capacity of 3 with files of 0, 2, 3 and 4 chunks covers the empty
  file, a short last chunk, a file that just fits and one that does not fit the
  bitset. Two starts let messages of one transfer meet the next. `MaxBytes` only
  limits duplicates.
- Manager: three ids for at most two sessions, so ids repeat and starts are
  refused; a limit that moves between 1 and 2; three values of the uninitialized
  metadata, one beyond the capacity.
- Flow control: one controller with two callers and a limit that is lowered from 2 to 1,
  windows up to 7 around a threshold of 4; the proof has any number of controllers that
  share the static count. Limiter: a bucket of two or four bytes at one or three bytes
  in two milliseconds, so that fractions are cut off; two senders; two requests, with
  equal and with different times.
- Nonces: two peers, six nonces and a window of 1 let every nonce be remembered,
  forgotten, too old and wrapping. The proofs cover every size.
- Handshake: two nodes and five fresh keys: a handshake from each side with answers, or
  one handshake (two keys), a rotation message (one) that is delivered twice (two). One
  clock tick, or a host that was booted one unit earlier, makes a rotation message too
  old. Nodes are symmetric: no property or constant names one.
- Routing: three peers in a line, three events (connects, losses, syncs, ticks), a
  queue of one message per connection, and four hops, which the count to infinity
  reaches. The rounds are checked on a chain of four, where a route has to travel
  twice, over the two intervals this takes and with a timeout of three. The host of the
  first peer has another clock epoch.
- File search: a triangle, the smallest network with a cycle; three hops, so that a
  query comes round; a window of one tick, which a message may outwait; two searches
  and one announcement, enough to learn a location, remove the file and search for it
  oneself. One host's clock is ahead.
- Messages: one of every struct, with empty and non-empty strings and lists, in pairs;
  bytes of 8 values; a payload above the limit. A connection that ends after every
  byte. Six messages through each queue with limits of 4 and 1. Write path: the io
  thread and one more, three messages.
- Storage: an empty file, one of one chunk and one of two whose first chunk is the
  other file; two share commands (symmetric), two additions and one rewriting of the
  file. Chunk files: two writers with right and misplaced data.
- Daemon: two daemons, one with a fixed port and one whose configuration names that port
  or another; one command that asks three times and one that asks once.
- Discovery: two addresses with two starts each and one lost datagram; a period is about
  30 seconds, announcements and connection attempts take one, the cleanup two. The second
  of polling is rounded up to a period and the timeout to five with it, so that one loss
  is exactly covered, as it is by the constants of the code, and nothing is to spare.
- Locks: three threads, as many as there are mutexes.

### Fairness

- `TransferSession!FairSpec`: the owner keeps calling `request_next_chunks` with a
  window above 0 while the session allows it, and as long as chunks are outstanding
  some new one arrives that passes the checks. Both are obligations of the owner and
  of the network, not of the session; the run shows that the session needs no more.
- `FairConnectionSpec` of `Connection`: a thread finishes the call it is in, and the io_context
  runs the handler of an operation that is over, which each is some time as long as the
  peer reads (the code has no timeout for a peer that does not). It only serves the
  violation: even so a message stays behind. Nobody is obliged to send.
- `Daemon!FairSpec`: accept threads, handler threads and commands go on while they
  can. Strong fairness of `Accept` for each client: the queue of a listening socket
  is first in, first out, so new clients do not overtake a waiting one. A stop whose
  accept thread has ended returns. Nobody has to start, stop or kill anything.
- `Discovery!FairSpec`: the threads run and time passes. Losing a datagram is allowed,
  not required, and bounded by `MaxLost`.
- `FairSearchSpec` of `FileSearch`: what waits on a connection is handled sooner or later (the io thread).

`CHECK_DEADLOCK FALSE` appears where a system may stop: a connection that is closed and
whose handlers have run (network, accepted_is_sent), an index at its bounds (files), and
routers whose clock has run out.

## Proofs

Eight modules hold 44 theorems. Each one about an invariant has the same shape: an
inductive invariant that the initial states satisfy and every action preserves (one
lemma per action), checked with TLC on the instance of the run before it was proved,
and the property as a consequence. An action property follows from the same
invariant, action by action. What the properties need beyond themselves:

- **TransferSessionProofs** (`TypeCorrect`, `ChunksTracked`, `CompletionSound`,
  `ContentSound`, `TransferMonotone`; any capacity, files, metadata, messages and
  windows). `IInv` joins the types, `ChunksRequested` (everything below the cursor is
  requested, only requested chunks are received, requests stay inside file and
  bitset), the bound of the cursor, and the properties about completion and content.
  The bound is needed because the result of the request loop is described by where
  the cursor stops. That a count equal to `chunk_count` means all chunks is the lemma
  `FullBitset`, from the cardinality theorems for finite sets.
- **TransfersProofs**, three components.
  *Manager* (`TypeCorrect`, `TotalAlwaysSum`, `ManagerNeverTransfers`): the properties
  are inductive with the types and a finite table. The work is in the sum: what it
  is without one session, and that tables which agree on a set have the same sum of it.
  *FlowController* (`WindowStaysAtThreshold`, `RateAlwaysLimited`): the window is a
  function of congestion window and threshold, and out of slow start the first has
  reached the second; recent requests and unused answers together stay below the highest
  limit and the number of callers (`Rated`), which every answer and every use of one keeps.
  *BandwidthLimiter* (`TokensAreBounded`, `GrantsKeepOrder`): `Credit` bounds tokens
  and bytes taken by the time up to the last refill; nothing in the queue precedes what is
  before it (`Sorted`), and no stamp is later than the clock; the loop that grants
  requests preserves both in every turn.
- **CryptoProofs**. *NonceManager* (`TypeCorrect`, `ReplayProtection`, which is the
  refinement of `ReplayGuard`, `CleanupSound`, `NoSpuriousReject`, `MemoryBounded`;
  any nonce width and any window smaller than it): accepted nonces do not exceed
  `highest_seen`, and the remembered ones are those above the cutoff; below the cutoff
  the sum in the test of age cannot wrap, which is the heart of the argument.
  *SecureHandshake* (`HandshakeTypeCorrect`, `PeerAlwaysBound`, `RotationsRefresh`,
  `InitiatorsNeverComplete`; any number of nodes, messages and fresh keys): every key
  held, sent or used was drawn before (`HeldDrawn`, `SentDrawn`, `PastDrawn`), so a key
  that is drawn is new; an ack is signed over two different ephemeral keys in their
  order (`AcksOrdered`), so the context the initiator builds is never the one signed.
- **PeerRoutingProofs** (`TypeCorrect`, `TablesAlwaysAgree`, `HopsAlwaysBounded`,
  `LastSeenAlwaysGenuine`, `RoutesNeverGrow`; any finite network, hop limit of at least
  2, clocks and bounds). The tables are not inductive by themselves: `ChannelsGenuine`
  says that what is under way was true of its sender (neither itself, nor a hop count
  it would have refused, nor a time later than the peer's last connection).
- **MessagingProofs**. *Codecs* (`CodecsReadWholeOrNothing`; any byte of at least 8 values and any values
  that fit their fields): for each piece of a message two facts, that reading it where
  it was written gives the value and stops behind it, and that reading it from a cut
  throws, or makes the lenient reader fail for good. They go from numbers to strings,
  tuples, lists, fields, payloads and frames; the loops are recursive functions, about
  which `LoopExists` (there is one) and `StepByStep` (what holds at first and is kept by
  every turn holds throughout) are proved once.
  *Stream* (`HandlersGetWhatWasSent` and the refinement of `Channel`,
  `ConnectionIsAChannel`; any messages, payload limit and place where the connection
  breaks): `StreamInv` says that some number of messages was read, perhaps a header
  more, that the handlers got the genuine ones among them, and that the stream and the
  lost bytes together are exactly what was written behind (`Reached`); of a foreign
  peer there is only its one frame, whose checksum is wrong (`Strange`).
  *MessageQueue*
  (`QueueHoldsTheNewest`, `QueueDeliversInOrder`; any limits, of at least 4): a queue
  is sorted by time, so what the cleanup removes is always a prefix.
- **StorageProofs**. *Index* (`TypeCorrect`, `RowsDescribeOneContent`,
  `SharedAlwaysAvailable`, `CleanupIsSafe`; any contents, paths, processes and chunk
  size): what a share has read is true of a file that was not rewritten since
  (`Sources`), a row describes the content it is hashed to (`Rows`), a share that lost
  no statement has put the chunks it is past (`Adding`), no two rows or running shares
  have the same file id (`Ids`). *Chunk files* (`ChunkTypeCorrect`,
  `MergeGivesTheFile`; any file, chunk size and writers): a chunk whose size a sound merge
  has taken still verifies and is not being written (`SoundChunk`), the merge has written
  exactly the file up to the next chunk (`Merging`), and adjacent pieces of a file join
  (`PrefixGrows`).
- **DaemonProofs** (`TypeCorrect`, `QueueAlwaysServed`; any daemons, ports and clients):
  with the types the property is inductive; the work is in the stop, which leaves the
  queue only to a thread that is inside `accept`, and in the accept that comes after it.
- **DiscoveryProofs**. *Discovery* (`TypeCorrect`, `KnownAlwaysRecent`; any finite set
  of nodes and any intervals): an entry is as old as the timeout plus the time since the
  last cleanup (`AgedSinceCleanup`), a cleanup is late only by the sleep of the discovery
  thread (`PassDelayed`) and by connection attempts (`CleanupDelayed`), and each node
  attempts every other one once. `LivePeersStayKnown`
  proves `LivePeerKept` without a hypothesis on the constants but that an attempt is no
  longer than an announcement interval: `Punctual` charges every period an entry ages to
  the next announcement or the sleep before it, a loss, a period the peer's cleanup waits
  for its io thread, or one the announcement waits for the receiver's, and these sum up to
  `Excuse`. *File search* (`SearchTypeCorrect`, `RemovedNeverReturns`; any
  routers and connections): an answer names only its sender (`AnswersForItself`).

The proofs rest on the named assumptions of the modules (positive capacity and chunk
sizes, natural bounds, a window smaller than the nonce space, finite networks in which
nobody connects to itself, contents that are no file ids, messages as described under
Stream), which TLC evaluates in the runs, and on nothing else. Where a fact is about all
steps of a loop or a recursive function (the sum over the table, the loop of grants, the
queue's cleanup, the list of locations, the codecs), the argument is that of the least
counterexample (`LeastNatural`), because the induction theorems of the library cannot be
instantiated.

Only model-checked: all liveness, because fairness and ENABLED are out of the prover's
reach (`TransferCompletes`, `EveryRequestEnds`, `EventuallyKnown`, `FloodEnds`), and
`RoutesInTime`, whose statement is by recursion on the distance. The other way round,
`ChannelSpec` is proved and in no run, whose `HandedAsSent` says the same of states; TLC
finds it to hold on the instance of the run network when its configuration names it.

## Not modelled

- Cryptographic primitives, `FileVerification`: library calls and hashing, symbolic
  wherever a module needs them. `secure_message.cpp`: nothing sends these messages.
- `FileMetadata::deserialize`: it checks no bounds, so what it does with a damaged
  blob is undefined; the index only gives it what `serialize` wrote.
- The connection table of `ConnectionManager` and what works on it (heartbeats,
  health checks, reconnects), the rest of `TcpClient`: unreachable, since no
  connection ever enters the table.
- `FileAnnouncer`: a table with expiry like that of discovery, fed by that table.
- `PerformanceMonitor`, the round trip estimate of `FlowController`: no decision
  depends on them. `ResumeManager` and `StorageConfig`: stubs and settings.
- Command line parsing, logging, what commands print, and reading the configuration. Of
  the settings only `server.port` matters between processes; it is a parameter of Daemon.
- The trust table of `SecureHandshake` is written and read by nothing that decides.
  `update_peer_reliability` and `rebuild_routing_table` have no caller.

`components` in `PROJECT.json` lists every part with its status.

## Plan

1. Done: the modules above, a theorem for every safety property that a passing run
   checks except `RoutesInTime`, and the reading side of a connection as a channel.
2. Next: the message queue as a bounded priority FIFO and the index as a map from
   contents to descriptions, as abstract specifications that the modules implement.
3. Then: `RoutesInTime` for every tree, and that the excuses of `LivePeerKept` are not
   only sufficient but needed.
