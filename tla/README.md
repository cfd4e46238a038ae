# Verification of the Knuth node

TLA+ modules of the parts of this repository that decide what the chain is, of the connections it is
fed by, of one channel from its handshake to its release, and of the protocol by which the node catches up with
a peer; TLC configurations that check them on small instances; and TLAPS proofs of the theorems that hold
for every instance.  Paths below are
relative to `src/` of the repository; line numbers are those of the commit the modules were written from.

## 1. Inventory

### 1.1 The chain organizer

| | |
|---|---|
| Code | `blockchain/src/pools/block_organizer.cpp`, `block_pool.cpp`, `block_entry.cpp`, `branch.cpp`, `blockchain/src/populate/populate_chain_state.cpp` |
| State | the pool of valid blocks that lacked work (`block_pool_`, a bimap of entries and root heights), the cached chain state (`pool_state_`), `stopped_`; through the store, the header table |
| Operations | `organize(block)`: check, find the branch, accept, connect, compare work, reorganize, update the pool; `start`, `stop` |
| Talks to | the validators (jobs), the store (`fast_chain_.reorganize`), the subscribers |
| Hard | a reorganization is many store transactions and may fail between two of them; pool and chain must stay disjoint although blocks move both ways; the cached state is one height behind after the first block; copies of a block carry metadata that is lost in the store |
| Correct when | the chain is a path of valid blocks, of the most work the node knows; nothing is pooled twice, forgotten or validated against the wrong ancestors; work only increases |

### 1.2 The validation gate

| | |
|---|---|
| Code | `infrastructure/src/utility/prioritized_mutex.cpp`, `synchronizer.hpp`, `threadpool.cpp`; `organize` of `block_organizer.cpp` and `transaction_organizer.cpp`; `block_chain.cpp` `stop`, `close` |
| State | three mutexes, one reusable promise per organizer, the queue and threads of the priority pool, one counter per synchronizer, the flags `stopped_` |
| Operations | lock and unlock with high and low priority; post the jobs of a phase; a job reports; the promise is fulfilled; stop, shutdown, join, close |
| Talks to | everything that runs on the priority pool |
| Hard | jobs of a phase that failed report during the next call; stop races organize; a call waits for jobs on a pool that stop aborts; a branch is pushed block by block, each block a job that posts the next; `join` detaches |
| Correct when | one call at a time is in the section; each call is answered once, and with success only after all of its jobs; no call waits on an aborted pool; stop falls between no two blocks of a branch; every call returns |

### 1.3 The store

| | |
|---|---|
| Code | `database/include/kth/database/databases/internal_database.ipp`, `reorg_database.ipp`, `utxo_database.ipp`, `header_database.ipp`; `database/src/data_base.cpp` |
| State | LMDB tables: headers by height, unspent outputs, and for reorganizations the spent outputs (`reorg_pool`), their index by height (`reorg_index`) and the blocks (`reorg_block`) |
| Operations | push a block, pop a block, prune; `reorganize` strings pops and pushes together |
| Talks to | the organizer above, LMDB below |
| Hard | one transaction per block, so a process can die in the middle; prune jobs run outside the gate and read heights in earlier transactions than they write; blocks that are old by their timestamp are not kept |
| Correct when | the unspent outputs are those of the branch in the headers; whatever is kept for a pop is complete; a valid block can always be pushed |

### 1.4 Previous outputs

| | |
|---|---|
| Code | `blockchain/src/populate/populate_block.cpp`, `populate_base.cpp`, `branch.cpp` |
| State | none of its own; it reads the store, the branch and the reorganization pool |
| Hard | the block is on another branch than the store describes; four lookups in an order, each correct only if the ones before it are filtered right |
| Correct when | every output a valid block spends is found, unspent, at the height it has along the branch |

### 1.5 Network connections

| | |
|---|---|
| Code | `network/src/p2p.cpp`, `proxy.cpp`, `connector.cpp`, `sessions/session.cpp`, `session_batch.cpp`, `session_outbound.cpp`, `session_manual.cpp`, `session_inbound.cpp`, `protocols/protocol_version_31402.cpp`, `protocol_events.cpp`, `protocol_timer.cpp`; `infrastructure/include/kth/infrastructure/impl/utility/pending.ipp`, `subscriber.ipp` |
| State | per channel the flag `stopped_`, the stop subscriber and its list, the handshake; of p2p the tables `pending_handshake_` and `pending_close_`; per session its connect cycle |
| Operations | connect in batches, accept, register, pend, start, shake hands, store, stop, relay the stop, remove; `p2p::stop`, then `start` again |
| Talks to | sockets and timers below, the protocols of the node above |
| Hard | every step is a handler posted by the one before it; timers, reads and `p2p::stop` stop a channel at any of them, several at once; starting a channel clears the flag that a stop has set; stop answers have to come once each, since each makes a new connection |
| Correct when | no slot runs dry or doubles; no entry of a table outlives its channel; addresses are unique; after stop no stored channel is left running and all work ends |

### 1.6 Block relay

| | |
|---|---|
| Code | `node/src/protocols/protocol_block_in.cpp`, `protocol_block_out.cpp`; `node/src/full_node.cpp` `handle_reorganized`; `block_chain.cpp` `fetch_block_locator`, `fetch_locator_block_headers`, `filter_blocks`, `is_stale`; `network/src/proxy.cpp`, `message_subscriber.cpp` |
| State | of the receiving end `backlog_`, its timer, `compact_blocks_map_`, `compact_blocks_high_bandwidth_set_`; of the sending end `last_locator_top_`, `headers_to_peer_`, `compact_to_peer_`; of the node `top_block_` |
| Operations | ask by a locator, receive hashes, ask for what is unknown, receive blocks whole, compact or completed, organize, ask again; answer each of these; announce; time out |
| Talks to | the organizer above, the channel below |
| Hard | each type of message has a strand of its own, blocks are organized on the thread that reads; the store changes block by block under the readers; what ends the conversation is an answer that brings nothing new |
| Correct when | what is in the backlog is on its way; a channel that falls silent is in step with its peer; the node catches up |

### 1.7 Subscribers of the chain

| | |
|---|---|
| Code | `infrastructure` `resubscriber.ipp`; `block_organizer.cpp` `start`, `stop`, `notify`, `subscribe`, `unsubscribe`; the handlers `handle_reorganized` of `protocol_block_out` and `full_node` |
| State | the list of handlers, `stopped_`, the mutex of the invoking loop |
| Operations | subscribe, invoke, relay (by which a stopped channel has its handler dropped), stop |
| Hard | a loop takes the list away and gives the handlers back one by one; three threads loop, and subscribing goes on meanwhile |
| Correct when | who stays hears everything once; who has left is dropped; nobody is left after the stop |

### 1.8 Hosts and seeding

| | |
|---|---|
| Code | `network/src/hosts.cpp`, `p2p.cpp` `start`, `handle_started`, `stop`; `sessions/session_seed.cpp`; `protocols/protocol_seed_31402.cpp`, `protocol_address_31402.cpp` |
| State | the buffer of addresses and its flag, the hosts file, where a start sequence is, the events of each seed |
| Operations | load, store one or a list by sampling, save; start: load, seed if nothing is known, run; stop |
| Hard | `stop` goes through the hosts before it raises the flag that the start sequence tests; a write may be refused, cut off or die with the process, a file may not open; parsing a saved line throws through `hosts::start`; a seed answers, fails or is silent |
| Correct when | a list of new addresses fills the room there is; a start is answered, with success only if there is an address to connect to |

### 1.9 Connectors

| | |
|---|---|
| Code | `network/src/connector.cpp`, `sessions/session_batch.cpp`, `session_outbound.cpp`, `p2p.cpp` `pend`, `unpend`; `infrastructure` `deadline.cpp`, `synchronizer.hpp`, `pending.ipp` |
| State | per connector its flag, timer and socket; the counter of a batch; the table `pending_connect_` |
| Operations | launch a batch, pend, resolve, race timer and socket, unpend, join; `p2p::stop` |
| Hard | timer and socket end on two threads and neither can take the other's handler back; connectors of a batch end in any order, some while others are launched |
| Correct when | each connector and each batch answers once; a success is not lost to failures before it; what may still connect is in the table or was stopped |

### 1.10 Channels

| | |
|---|---|
| Code | `network/src/channel.cpp`, `proxy.cpp`, `message_subscriber.cpp`; `protocols/protocol_events.cpp`, `protocol_timer.cpp`, `protocol_version_31402.cpp`, `protocol_version_70002.cpp`, `protocol_ping_31402.cpp`, `protocol_ping_60001.cpp`; `infrastructure` `resubscriber.ipp`, `synchronizer.hpp` |
| State | the flag of the proxy, the read cycle, a subscriber and a strand per type of message, four timers, the join of the handshake, the negotiated version, `pending_` of the ping protocol |
| Operations | start, shake hands, attach protocols, read, relay, beat, answer pings, await pongs, time out, stop |
| Talks to | the session that starts it, the socket, the protocols |
| Hard | the reader, the strands, the timers and stop are concurrent; the end of a handshake is reported by five threads; version and verack are handled in the reader's call and the other messages are not; the test for stop and the setting of a timer are two steps |
| Correct when | the session is told once, and with success only if the handshake is complete; no ping of a peer and no pong of an honest one is missed; a channel that is stopped lets go of everything that holds it |

### 1.11 Sending

| | |
|---|---|
| Code | `infrastructure/src/utility/sequencer.cpp`; `network/src/proxy.cpp` `do_send`, `handle_send` |
| State | the queue of sends and `executing_` |
| Operations | lock (send), write, unlock (the end of a write), stop |
| Hard | no thread holds the lock across a write, so every way a write ends must give it back; what waits in the queue holds the channel |
| Correct when | one write is out at a time, in the order of the calls, and every send is answered once the channel stops |

### 1.12 Not modelled

* The rest of the work queue: `dispatcher.cpp` posts to a service or a strand, which is what one step of the modules
  stands for; `monitor.cpp` counts jobs for the log.
* The transaction protocols of the node: they keep no state of their own.  The reservations of the
  initial download (`node/src/utility/reservation.cpp`, `reservations.cpp`) are compiled, but nothing that runs
  constructs them.
* Transaction pool queries, RPC-like reads of `block_chain.cpp`, C API: reads of one transaction each.
* Mempool and templates: compiled only with `KTH_WITH_MEMPOOL`, off by default.
* Consensus rules, scripts, serialization, wallet: pure functions of large data, partly vendored.

The list of what is hard to test, with the line where it bites and the property that covers it, is
`hazards` in `PROJECT.json`.

## 2. Modules

| Module | Models |
|---|---|
| `BlockTree` | the blocks that can be offered, as the tree their headers spell out, with work and validity as constants |
| `BlockPool` | `block_pool` as functions from pool to pool: add, remove, prune, get_path |
| `BestChain` | what the organizer promises: a chain that only moves to more work, and what is kept beside it; `BlockOrganizer` and `BlockRelay` implement it |
| `BlockOrganizer` | the organizer, the header table and the cached chain state; one `organize` is one step, its failures are steps of their own |
| `SerialCalls` | what callers of `organize` and `stop` are promised: calls that run one at a time, phase by phase, and are answered once; `ValidationGate` implements it |
| `ValidationGate` | the prioritized mutex, the pool of workers, the synchronizers and stop, for any callers |
| `AtomicStore` | what `data_base::reorganize` promises: a branch is reorganized, or breaks off, in one step; `ReorgStore` implements it |
| `ReorgStore` | the store during reorganizations, prunes and restarts; one LMDB transaction is one step |
| `Prevouts` | the lookups of `populate_block` over the state of `ReorgStore` |
| `P2P` | channels from their connect to their destruction, the sessions' connect cycles, the tables of p2p, and p2p's stop and restart |
| `BlockRelay` | one channel: `protocol_block_in` of the node, `protocol_block_out` of its peer, and the store and pool that other channels write too |
| `Resubscriber` | the subscribers of reorganizations |
| `Hosts` | the addresses, their file, the start sequence of p2p with its seeds, its stop, and crashes |
| `Connecting` | one slot of the outbound session: its batches of connectors, their table and p2p's stop |
| `Channel` | one channel: reader, subscribers and strands, handshake, ping protocol, timers, stop, and what the peer may send |
| `Sequencer` | the sends of a channel, its sequencer, and connections that break |
| `MC...` | instances for TLC; `Resubscriber`, `Connecting`, `Channel` and `Sequencer` take theirs from the cfg |
| `...Proofs` | theorems and their proofs |

How the modules meet.  `BlockOrganizer` implements `BestChain` by the mapping `tip` - the block at the top of
the header table, `kept` - the pooled blocks that are not in the chain, `failed` - `corrupt`.  `BlockRelay` implements it too, by
`tip` - `top_block`, `kept` - `kept`, without limit of depth and without failures: its `Organize` and
`Keeps` are `Keep`, its `Commit` is `Switch`, the blocks that `Write` puts into the store before it are not seen, and the two ends of
the channel, their messages and the timer move nothing.  `ValidationGate` implements `SerialCalls`: a caller is
`inside` from its last lock to its first unlock, a phase is passed when all its jobs have ended without error, and the last one gives the
answer; locks, queued jobs and jobs that are left over from a phase are not seen.  `ReorgStore` implements `AtomicStore`: until a
branch is done or cut off the chain is seen where it was when the branch began (`origin`), `Finish` is `Reorganize`, and a failed pop
or a crash is `BreakOff`, which is the `Fail` of `BestChain` as long as none came before.  `Resubscriber` has the organizer's critical section
as a mutex, which `ValidationGate` refines to three.  `P2P` is the life of the channels `BlockRelay` talks over;
`Hosts` opens up its start and `Connecting` its `Attempt`s, each with the same `p2p::stop` running beside.
`Channel` opens up the stages of a channel of `P2P` between its start and its removal: what `P2P` takes as one handler per
message of the handshake, as a stop "by a timer", and as a relay are the reader, the timers and the strands of `Channel`, and
`HandshakeToldOnce` is why `P2P` stores a channel once.  Its `Send` is a step because `Sequencer` shows that
writes go out whole and in the order of the calls.

`BlockOrganizer` treats `organize` as one step.  Two refinements justify it.  That `ValidationGate` implements
`SerialCalls` says that nothing another caller does falls between two phases.  `ReorgStore` opens the step
`BlockOrganizer!Reorganize` up again, because prune jobs are outside the gate, and that it implements `AtomicStore` says that this
step is one, with its prune jobs and crashes.  `SpendingAssumption` of
`ReorgStore` is what `PoolIsValid` and `ChainIsPath` provide: only validated branches are written.

How variables correspond to the code:

* `BlockOrganizer`: `chain`, `top` - table `block_header`; `pool[b].root` - right key of the bimap;
  `pool[b].children` - `block_entry::children()`; `pool[b].height` - `header().validation.height` of the
  pooled copy; `pool_state` - the height of the cached `chain_state` and the block after which it was
  collected; `unstamped` - chain blocks written with median time past zero; `result` - the code passed to the
  handler.
* `ValidationGate`: `owner` - `wait_mutex_`, `next_mutex_`, `data_mutex_`; `pc` - where a calling thread is;
  `queue`, `running` - the io_service; `count` - `counter_` of each synchronizer; `signals`, `answer` -
  `resume_`; `good` is a history variable (jobs that ended well).
* `ReorgStore`: `utxo`, `reorg_pool`, `reorg_index`, `reorg_block` - the tables of these names; `goal`,
  `origin` - the branch of the running `reorganize` and where the chain was when it began; `pruning` - the local variables of `prune`; `posted` -
  queued prune jobs; `pop_failed`, `prune_posted` (the last branch organized posted a prune, and no crash came since) -
  history variables.

* `P2P`: `channel[c].stage` - which handler of the start sequence comes next; `stopped` -
  `proxy::stopped_`; `closed` - `stopped_` of the channel's stop subscriber, and `subs` - who is in its list:
  `protocol_events` of the handshake and `handle_remove` of the session; `closing` - calls of `proxy::stop` that
  have set the flag and not ended; `relays` - posted invocations of the stop subscriber; `down` - the
  socket is shut; `inbox` - messages of the handshake that were delivered; `link` - the other end when the node
  is connected to itself; `handshakes`, `connections` - `pending_handshake_`, `pending_close_`, and
  `refusing` - their `stopped_`; `calls`, `batch` - posted `new_connection` and attempts of a batch, per slot;
  `manual` - the cycle of `session_manual`; `phase`, `victims` - where `p2p::stop` is, and the channels that
  `pending::stop` has copied and not stopped; at the end the pool is aborted: what is posted stays in its queue.

* `BlockRelay`: `stored` - the last header of the store, `top_block` - `full_node::top_block()` and `last_block_` of
  `block_chain`; `kept` - the block pool; `writer` - the call inside `block_organizer::organize`; `backlog`, `timer`,
  `high`, `awaiting` - `backlog_`, the deadline of `protocol_timer`, `compact_blocks_high_bandwidth_set_`,
  `compact_blocks_map_`; `sending` - the get_data between `mutex.unlock` and `SEND2` of `send_get_data`; `posted` -
  messages that `message_subscriber` has relayed and no strand has handled; `held` - where a thread is inside
  `organize_block`, and with what answer; `wire`, `requests` - messages between the two ends; `theirs` - the peer's
  chain; `threshold`, `announce_by` - `last_locator_top_`, `headers_to_peer_`, `compact_to_peer_` and
  `compact_high_bandwidth_`; `jobs` - the recursion of `send_next_data`; `events` is the bound of what the world does.

* `Resubscriber`: `stopped_`, `subscriptions_`, `invoke_mutex_` - the members; `validation_mutex_` - the section of the
  organizer; `at`, `rest`, `calling`, `keep` - the local variables of `do_invoke` on the organizer's thread, on the strand
  and in `block_organizer::stop`; `relayed` - posted `relay`s; `open` - channels that run; `known`, `blocks`, `since`,
  `heard`, `told`, `caught` are history variables.

* `Hosts`: `file` - the lines of `hosts_file`; `buffer`, `hosts_stopped` - the members of `hosts`; `stopped`, `refusing` -
  the flag of p2p and of its tables; `working` - the pool has threads; `stopping` - how far `p2p::stop` is; `start` - per call of
  `p2p::start` where its sequence is, the code it carries, whether its seed session was told to stop, and its seeds; `run` -
  how many calls; `unsaved`, `uncaught` - history: what the last save lost, and whether an exception ended the last process.

* `Connecting`: `connector[k].step` - which handler comes next; `timer`, `socket` - the deadline and the socket, with
  handlers that are queued; `stopped` - the member; `mine` - it belongs to the running batch; `calls` - how often it has called
  its handler; `batch` - the loop of `session_batch::connect`, the counter of its synchronizer and its answer; `table`, `victims`,
  `phase` - `pending_connect_`, those that `pending::stop` has copied, and where `p2p::stop` is.

* `Channel`: `stopped` - `proxy::stopped_`; `stopSubs` - the list of the stop subscriber, `relayPosted` - its posted relay; `subs` - the
  types of message somebody is subscribed to (of pongs `pongs`, one nonce for each handler that waits), `strand` - what was
  relayed to a type and has not run, ended by the mark of a broadcast; `reader` - where the thread is that reads: the start sequence, `reading`,
  inside the handler of a version or verack (`event`), attaching protocols, or between two reads (`active`); `armed` - the timers that run;
  `handler` - the member of `protocol_events`, `events` - what was loaded from it and not invoked; `count` - the counter of the
  handshake's synchronizer (2 when it was cleared), `told` - calls of the session's handler; `peer`, `negotiated` - the versions of the channel;
  `heart`, `pending` - the handler and `pending_` of the ping protocol, `pinger` - where a heartbeat is; `pings` numbers the nonces,
  `sent` is what went to the sequencer; `answered`, `asked`, `lied`, `heard`, `early` are history variables about the peer.

* `Sequencer`: `actions`, `executing` - the members; `place` - how far each send is; `wire` - what was written, `broken` - the
  connection; `stopped`, `shut` - the first and the last step of `proxy::stop`; `working` - the pool; `order` is a history variable.

What one step is:

* A call of `organize` in `BlockOrganizer` (the section).
* A lock, an unlock, a job's start or report in `ValidationGate`.  A job's report to its synchronizer is
  one step because the counter is updated under the synchronizer's mutex; only one job sees the counter
  reach the clearance count and goes on outside it.  Phases without jobs, which the code runs on the
  thread at hand, are part of the job that continues.
* An LMDB transaction in `ReorgStore`.  `pop_block` is three (top height, block, removal); only a prune can
  come between them, and then the removal fails as `FailPop` does, so it is one step.

* A handler in `P2P`.  Two are divided further, where another thread can come between: `proxy::start` (the
  flag, then the subscribers, then the handshake) and `proxy::stop` when a timer, a failed read or `p2p::stop`
  calls it (the flag, then the rest).  Two are joined: the last message of a handshake also stores the
  channel, and a start that fails is unpended, stopped and reported in one step.  A handler that fires after the
  channel has ended has its effect on the fields a stop touches, all that is kept of such a channel.

* A handler in `BlockRelay`, divided where another strand, thread or channel can come between: before the send of a
  get_data, around a call of `organize`, and at each block a reorganization pops or pushes.  The peer's own
  reorganization is one step.
* In `Hosts` a handler of the start sequence, except that `handle_manual_started` and `handle_hosts_loaded` are divided
  around `hosts::start`; a stage of `p2p::stop`.  `hosts::start` has two outcomes, each one step: it returns (`LoadHosts`)
  or throws on a line with a port, which ends the process (`LoadThrows`).  `hosts::stop` is one step under its lock, and a crash inside it leaves any
  prefix of what it writes.
* In `Connecting` a handler of a connector; the expiry of a timer and the end of a connect are steps before their handlers.
* A handler in `Channel`, divided between the test for stop and the timer or subscription that depends on it, between the
  loading of an event and its invocation, and between the subscription to a pong and the sending of its ping.  `proxy::stop` is one step:
  after the flag it only posts and closes, and what it does may be done twice.
* In `Sequencer` the critical sections, the post, the write and the handler.
* In `Resubscriber` the exchange of the lists, each call of a handler, each return to the list, and the end of a loop.

## 3. Runs

| Run | Instance | Shows |
|---|---|---|
| `organizer` | eight blocks, two forks, an invalid leaf, depth limit 1 | all safety properties of the organizer, and that it implements `BestChain` |
| `gate` | one block, two transactions, close, two workers; a phase of two jobs and a branch of two blocks to push, a phase of two jobs for a transaction | completion, what stop may cut off, liveness, and that it implements `SerialCalls` |
| `store` | two branches of four and three blocks, five outputs, limit 1, two prune jobs, clock 0..2 | the tables, the previous outputs, and that it implements `AtomicStore` |
| `popping` | the same with limit 2 and a clock that stands | a pop within the limit fails (section 6) |
| `network` | two channels, one outbound slot with batches of two, one manual connect, one caller, the node's own address | all safety and liveness properties of the connections |
| `relay` | a trunk and two branches of two blocks, two headers to a message, one event of the world, channels of whole and of compact blocks | the accounts of the backlog, silence and catching up, and that the node moves as `BestChain` |
| `parent` | the same with compact blocks only and no event | a comment the code does not keep (section 6) |
| `resubscriber` | two channels, an application, two reorganizations and a stop | all safety and liveness properties of the subscribers |
| `hosts` | five addresses, one without a port, a buffer of four, one seed, two starts, five lists | all properties of hosts and seeding |
| `connecting` | two connectors, batches of two | the race, the join and the answer of every batch |
| `channel` | versions 0, 1 and 4 against 3 of our own, four reads, two pings | the handshake, the pings and the release of a channel |
| `sending` | four sends | the order of the wire, and that every send is answered |

Every definition `...` marked *Mutant* in a module is the definition after it with a plausible mistake; for
each property of a passing run there is one that TLC finds to violate it.

The type invariants of `BlockOrganizer`, `ValidationGate`, `ReorgStore`, `P2P`, `Resubscriber`, `Connecting` and `Channel` are proved
(section 4), as are `PoolIsValid`, `PoolIsDisjoint`, `CacheDescribesChain`, `NothingForgotten` (which `ImplementsBestChain` implies),
`PoolIsIndexed`, `KeptBlocksAreWhole`, `AddressesAreUnique`, `OnlyTheCaughtMissStop`, `TableIsCurrent`, and of `ValidationGate`
`MutualExclusion`, `SuccessIsEarned` (which `ImplementsSerialCalls` implies) and `PoolOutlivesCalls` (without which `CallsReturn` fails); the runs leave them out.
So are `RelayTypeOK` of `BlockRelay` and the `TypeOK` of `Hosts`; `SendingTypeOK` of `Sequencer` is part of `InOrder`.  Any of them can be added to its cfg; TLC finds it to hold.

### Properties

`BlockOrganizer`: `ChainIsPath`, `ChildrenArePooled` (the assertions in
`block_pool::remove` and `prune`), `PromotedContext` (the cached chain state),
`ChainIsHeaviest`, and the refinement `ImplementsBestChain`, which says in
particular that work only increases and that of the kept blocks only buried branches go (`WorkIncreases` is proved
as a theorem of its own).  Several hold only
until a reorganization has failed, which `corrupt` records: the code logs "store is now corrupted" there.

`ValidationGate`: `CompletesOnce`, `StopCutsNoBranch` (once the pool is aborted no block is being pushed or waits to be, and a branch whose
push was begun was pushed to its end or failed), the refinement `ImplementsSerialCalls`, which says in
particular that one call runs at a time and that success means that every job of every phase has ended well, and the
liveness property `CallsReturn`.

`ReorgStore`: `UtxoIsOfTop` (also between two blocks of a branch), `PushNeverFails`, `QuietStoreIsPruned`, and the refinement
`ImplementsAtomicStore`, which says in particular that a reorganization that is cut off ends between the old top, the fork and the new top.
`Prevouts`: `PrevoutsAreRight`.

`P2P`: `SlotsConserved` (every end of a connection is answered by one new connection), `TablesHoldTheLiving` (no entry of a table
outlives its channel),
`DestroyedClean` (the assertion of `~subscriber`), `NothingConnectedAfterStop`, and the
liveness property `DeadConnectionsAreReplaced`: while the pool works, a slot or manual connection whose channel ends
gets another attempt.

`BlockRelay`: `BacklogIsOwed` (when nothing more is on its way the backlog is empty, so the timer drops only peers that
owe a block), the refinement `MovesAsBestChain` (a branch is weighed against the chain it replaces, whatever other channels
organize meanwhile), `QuietIsSynced` (a channel that has fallen silent and was kept is no lighter than a peer that is not stale),
and the liveness property `CatchesUp`.  `BacklogIsOwed` is about channels of whole blocks: with compact blocks it is
false, and so is the statement of the timer that it drops slow peers (`DropsOnlySlowPeers`), see section 6.

`Resubscriber`: `NoEventIsMissed`, `ClearedByStop` (the assertion of `~resubscriber`), and the
liveness property `StoppedLeave`.

`Hosts`: `FillsTheGap` (the arithmetic of the sampling, for every list and every random
number), the action property `SuccessHasHosts`, and the liveness property `StartIsAnswered`.  What a save and the next load
keep of the addresses has no property: no load of a saved address returns (`SavedHostsAreRead`, section 6).

`Connecting`: `AnsweredOnce`, `FirstSuccessWins`, and the liveness property `BatchIsAnswered`.

`Channel`: `HandshakeToldOnce`, `PeerIsKnown` (the assertion of `channel::peer_version`), `PingsAreAnswered` (no ping that the peer may
send falls between its verack and the subscription), `HonestPeerIsKept` (the heartbeat does not drop a peer that answers), and the
liveness property `ChannelIsReleased`: with a peer that does nothing, every channel ends and nothing holds it.

`Sequencer`: `WireIsInOrder`, and the liveness property `SendsAreAnswered`.

### Bounds and why they are enough

* The tree of `MCBlockOrganizer` has the smallest shapes of each kind: a fork at genesis and one above it, two
  siblings of the same work, a branch that is longer but lighter, an invalid leaf, and enough height for a
  branch to leave the chain, come back and exceed the depth limit.  Blocks are offered in any order and any
  number of times.  The state is finite without further bounds.
* `MCValidationGate`: two low priority callers are needed for `wait_mutex_` to matter, a second worker for a job
  to outlive its phase, a second phase for its leftovers to meet the next one.  Its phases from `PushFrom` on push one block each:
  a branch of two blocks is the least that a stop could cut between.
* `MCReorgStore`: the branches share a transaction at different heights (`o2`), spend the same output (`o1`),
  spend inside a block (`o5`) and spend a coinbase (`o3`).  `MaxClock`, `MaxPosted` bound the clock and the queue;
  two prune jobs are the least that can overtake each other.  Timestamps run backwards once and ahead once,
  so `reorg_block` gets gaps.
* `MCP2P`: two channels are what a race for an address, a connection to self, and a stop that overtakes a
  start need; each channel meets every stop at every stage, several at once.  They are used again after their
  destruction, so a third one would only add more of the same pairs.  A batch of two has a failed attempt
  before a success.  With `AttemptLimit` 1 a manual connect is not retried inside a cycle; that it connects
  again after its channel has stopped, is.  `InboundLimit` 2 lets both channels be incoming.  `closing` and
  `relays` need no bound: a channel is stopped by as many threads as there are causes.
* `MCBlockRelay`: a chain of three blocks above genesis takes two messages of `MaxHeaders` 2, so the node asks again
  with a threshold set; the fork makes orphans, kept blocks and reorganizations of two pops and two pushes.  `Start`
  lets the node begin stale at genesis or in step on a branch; `Fresh` marks the two tips, so staleness ends at a tip
  and comes back when a reorganization is half done.  `MaxEvents` 1: one broken connection, early timer, block of
  another channel or move of the peer at every point of a conversation; the conversation itself has no bound.
  `MaxBacklog` 2 ends the exchange that compact blocks repeat (section 6): it stands for the minute of the timer.
* `MCResubscriber`: two channels so that one leaves while another stays, an application that never leaves, two
  reorganizations so that one handler can be between them.  The order of handlers in a list is left out, so every
  order of calls happens.
* `MCHosts`: a buffer of four is the smallest in which a step that is rounded up instead of down leaves room unfilled, and
  a step of two samples some of a list and passes over others.  The lists of `Messages` are none, one, with a duplicate and an
  invalid one, all new with one that has no port, and longer than the buffer.  `MaxStarts` 2 lets a second start meet what the
  first has left in the queue, and the number of processes that a crash or an exception ends has no bound.
* `MCConnecting`: two connectors are a batch, or one of a batch and one that an older batch has left with a socket that
  connects late; they are used again when they are destroyed.  When none is free the loop can only fail, as it does when no
  address is known.  The session runs one batch at a time.
* `MCChannel`: of the three versions one is below the minimum, one sufficient without nonces for pings, and one above our own
  (so the lesser is ours); `Bip61` is our own level, so rejects are subscribed to.  `MaxReads` 4 is a version, a verack and two more
  of any kind, in any order: two pings, two pongs, a ping after a repeated version.  `MaxPings` 2 has one heartbeat
  that finds its predecessor answered, late or not at all.  The versions and their levels are ordered as in the code, the
  numbers are not; the proofs are for any.
* `MCSequencer`: four sends are one out, one that waits and two behind it, each at every point of the break, the stop and the abort.
* `MCP2P` starts p2p again only when nothing is left in the queue; what a second start makes of leftovers is in `MCHosts`.
* The runs of the gate, the relay, the resubscriber, the connectors, the channel and the sends set `CHECK_DEADLOCK FALSE`: when every call has returned, when
  the node is in step and the events are used up, when the chain or the pool is stopped, when the channel is released, the system has stopped.  The other runs
  check deadlock; `P2P` goes on after a shutdown because p2p can be started again.

### Fairness

`ValidationGate!FairSpec`: a thread that has called goes on when it can (weak fairness of its
lock, unlock and organize steps, and of close), and every worker serves the queue (weak fairness of its jobs):
these are threads of the operating system blocked on mutexes, promises or an io_service.  Calling is not fair:
a thread need not call.  Mutexes are weakly fair only: a mutex that is free again and again may be given to
others each time.  Every thread calls once, so no one is passed over for ever; with callers that return for
ever a low priority caller could starve, which these instances do not reach.

`P2P!FairSpec`: while the pool works, posted handlers come to run (weak fairness of a channel's work, of each connect cycle and of
what `p2p::stop` has begun), connects end in a success or in the failure that their timer brings, and a socket that
is shut makes the pending read fail.  A peer owes nothing: hearing a message, accepting, a successful connect and the
other causes of a stop are not fair, and neither are `Stop` and `StartAgain`.  A handshake without an answer ends by its
timer (`protocol_timer`), which is work of the channel.

`BlockRelay!FairRelaySpec`: one weak fairness of everything the node, the peer, the session that connects again and the timer
do: posted work runs, sent messages arrive, deadlines fire.  It is weaker than fairness of each: two strands may
overtake each other as they like.  The timer is not allowed to fire early for ever: it fires when nothing is on its
way, or as one of the `events`.  What the world does (breaking a connection, other channels, the peer's reorganizations)
is not fair.

`Hosts!FairSpec`: the handlers of a start sequence run (those that are queued only while the pool works), and a seed is
given up by one of its timers.  A seed need not answer, a peer need not talk, nobody need stop.  Whether a
load throws is not fair either: `StartIsAnswered` excuses a start whose process dies, of a crash or of a saved line.

`Connecting!FairSpec`: while the pool works, the loop of a batch, the handlers of connectors, timers and the resolver go
on, and the session starts the next batch.  No remote host need answer, nor the system give an attempt up.

`Channel!Fairness`: the pool goes on with what was posted - the start and the attachment of protocols, the end of a read on a stopped
channel, each strand, the relay of stop, raised events, heartbeats - and timers expire (`deadline` always calls after an expiry).  No message need be read and
nobody need stop the channel: its expiration timer does.

`Sequencer!FairSendingSpec`: threads that have called `send` go on, the pool runs what is posted while it works, and a write ends
when the socket is shut down; before, the peer may keep it waiting.  `Shutdown` is the last step of a stop that has begun.

`Resubscriber!FairSpec`: the pool runs the strand (weak fairness of `Unsubscribe`), a loop goes on (weak fairness of
`Invoke`), and `invoke_mutex_` is given to everyone who waits for it often enough (strong fairness of `Take`).  Three
threads contend and each holds the mutex for one finite loop; a mutex that passes one of them over for ever would
have to do so at each of the others' loops.  Notifying, closing and stopping are not fair.

## 4. Proofs

All theorems are about the specifications TLC checks, for every value of the constants that satisfies the named
assumptions.  Each safety proof has one inductive invariant, one lemma per action, and a temporal step.

`BlockOrganizerProofs` and `ReorgStoreProofs` begin with what the defining equations of the tree imply: ancestors are
below, lineages are complete and ordered, one ancestor per height.  The library's theorems of induction take an
operator and cannot be used, so induction is carried by a least element (`LeastNumber`), which the well-founded
order of the finite segments of Nat gives (`FS_StrictSubsetOrderingWellFounded`, `WFMin`).

`BlockOrganizerProofs`: `Consistent` = types, path, lineage (heights of the chain are heights of the tree, and the
chain is one lineage), valid pool, genesis not pooled, disjoint, cache, heaviest.  Lineage is needed because a
branch could otherwise fork below the place where the store pushes it; disjointness because `get_path` would
walk into the chain; heaviest and disjoint need each other in `Reorganize`.  From it: `TypeOK`, `ChainIsPath`,
`PoolIsValid`, `PoolIsDisjoint`, `ChainIsHeaviest`, `CacheDescribesChain`, `PromotedContext`, `WorkIncreases`,
`NothingForgotten`.

Its second half shows `ChildrenArePooled` and the refinement.  `Shape` = the pool is a forest of `block_entry`s whose links
agree in both directions, and, until a reorganization has failed, every linked entry is pooled and keyed as a child;
`Replant` and `Add` each have a lemma per half of it.  `ExpiredIsOld` says what `prune` may delete: whatever goes
builds on a pooled block below the minimum, which is what `BestChain!Switch` allows to be lost.  `ForkIsHighest` turns
the fork point the code finds by walking the pool into the last block two lineages have in common.  Then each
action of the organizer is a step of `BestChain` or a stutter, under `Consistent` and `Shape`.

Its last part is about `BlockRelay`, which the module extends too: both are about the same tree, and share its lemmas.  (So the
specification of `BlockRelay` has names of its own: `RelayInit`, `RelayNext`, `RelaySpec`.)
`RelayTypes` = types for each kind of channel (on a channel of headers nothing compact is sent, announced or handled) and
that nothing is under way on a channel that is down.  `Owing`: the backlog is as long as the requests about to be sent, those on their
way, those the peer works on, the blocks and `not_found`s on the wire and the `not_found`s that wait for their handler, added up.  Each
handler moves hashes between these places, and a hash
leaves the backlog when its answer is handled.  A sum along a queue is stated by the function of its
partial sums (`Sums`), and the lemmas about it (a queue that grows at its end, loses its head or one of its elements, or
changes in one place) exhibit that function.  From the two, under `RelayAssumption`: `RelayTypeCorrect`, and that the backlog is empty when
nothing is on its way (`BacklogIsAlwaysOwed`), for every tree, peer, limit and number of messages.

That `BlockRelay` implements `BestChain` (`RelayImplementsBestChain`) rests on `RelayTypes` and `Claims`: while nobody
writes, the store ends with `top_block`; every kept block has its ancestors in the chain of `top_block` or among the kept; and the branch that is
being written (`writer`) is new, has its ancestors there too, and is heavier than `top_block`, which stays so because nobody else commits before it.
Without the lock a second branch could be weighed against a chain that the first is about to replace, which is the
mutant `OrganizeUnlocked`.

`ValidationGateProofs`: `Gate` = the section's owner has the data mutex, no caller waits once stopped, the
pool is aborted after that.  From it `MutualExclusion` and `PoolOutlivesCalls`, with and without priorities, for any
number of threads.  `Accounts` = types and, for each call and phase, a `Ledger`: the jobs that are out (counted in the
queue and in the hands of the workers) and those that ended well are never more than were posted, and fewer once
one has failed; a phase that is not reached has nothing out and nothing counted; the promise is fulfilled when every
phase reached is cleared.  The counting is needed because `count` alone does not tell whether a job is left: a failure
sets it to the clearance while other jobs still run.  What is left over finds its synchronizer cleared, so it neither
fulfils the promise nor posts a phase.  From it `TypeOK`, `CompletesOnce` and `SuccessIsEarned`, for any number of workers, phases and jobs.

For the refinement (`GateImplementsSerialCalls`) a third invariant, `Answers`, relates what a caller will return to where it is: it has
an answer if and only if its promise was fulfilled or it is on its way out, and `stopped` is set from the moment stop has
told the organizers.  With `Gate` and `Accounts`
each step of a thread or a worker is one of `SerialCalls` or is not seen: a job that clears its phase passes it, which the
ledger turns into all jobs of the phase and none of the next having ended well, and a first failure answers the call.

`StopCutsNoBranch` needs all three.  Each block of a branch is a phase of one job, which posts the next (`data_base::push_next`), so the
queue is empty again and again while a branch is pushed, and nothing in the pool remembers that it is not done.  What holds stop back is the
call, which keeps the mutex until it has its answer (`Gate`); an answered call has no push job out (`NoPushIsOut`, by the ledger of a
phase of one job); and if a block was pushed the answer is a failure, or it is a success and every phase was passed (`PushGoesOn`), for a
branch of any length.

`ReorgStoreProofs`: `StoreIsConsistent` = types, lineage, `UtxoIsOfTop`, `PoolIsIndexed`, `PoolHoldsEntries`,
`KeptBlocksAreWhole`, `NothingBelowFirst`.  Lineage gives that no output is spent at two heights, so an output
determines its index entry; `PoolHoldsEntries` (what is kept of a spent output is what it was) makes a pop the
inverse of a push; `NothingBelowFirst` (while a prune is about to write, nothing is stored below the first
height it has read) bounds what a prune on stale heights can do: it counts blocks but deletes index
entries by height, and the count never falls short of the height.  From it the safety properties but
`QuietStoreIsPruned`, which needs `PruneIsDue`: since the last branch organized has posted a prune, one is posted, or a job at
work has read a height no lower than the top, or nothing at or below `top - Limit` is left.  It holds however many
prunes read stale heights, because between two branches the top only falls: what a job has read is too high, never too low,
and a push ends with a prune of its own, unless the chain is stale.  `PrevoutsAreRight` takes one more argument, about trees and not about steps (`PrevoutsFound`): above
the fork, an output that no block of the branch spends is as it was at the fork or was created by exactly
one block of the branch (`UnspentAlong`).  In the first case its entry has a height of at most the fork's and was there
at the fork (`EntriesAreBelow`); so it is in the unspent outputs of the top still, or a block of the chain above the fork spent
it, that block is kept, and `PoolHoldsEntries` says that its entry in the reorganization pool is the fork's.

That the store implements `AtomicStore` (`StoreImplementsAtomicStore`) needs `StoreIsConsistent` and `OnItsWay`: a branch that is organized
is heavier than where the chain was, and the chain is on the lineage of one of the two and not below their fork.  A pop goes down the one
lineage, since it stops at the first block of the branch it meets; a push goes up the other.  Begin, the pops, the pushes and the prune jobs
are not seen, and the outputs at the end are right by `UtxoIsOfTop`.

`P2PProofs`: `IInv` = types, `TablesHoldTheLiving`, `AddressesAreUnique` and three that are not properties of their own.
`RemovesAreOpen`: only the channel that is open has the session among its subscribers, so a relay to the
session removes an entry that is there.  `SubsAreTold`: a list of subscribers that takes no more, or belongs to a channel that has ended, has a relay coming that
takes it; `DestroyedClean` itself speaks of the flag `stopped_`, which says nothing of the list, as a channel
is started while an earlier stop of it runs, so it is not inductive.  `StopIsThorough`:
once a table refuses, what is in it was stopped or is among the victims.  `SlotInv` adds `Served`: a
slot is answered for by exactly one of a posted call, a batch of attempts, and a live channel, or by nothing once the
sessions were stopped; a removal ends a live channel because `RemovesAreOpen` says that it finds one.  From
the two all the safety properties, for any number of channels, slots and attempts.

`ResubscriberProofs`: `Locks` (program counters and mutexes), `Hands` (what a loop has taken, only while it runs), `Listed`
(a handler that stays is in the member list or in the hands of the running loop, and the account of what it has heard) and
`AfterStop` (nothing returns to the list once the flag is set).  From them the four safety properties, for any number
of channels, applications and reorganizations.

The same module extends `Sequencer` (`SendingSpec`) and shows its `WireIsInOrder`, as both are about handlers that wait for their turn.  `InOrder` = types, `Queue` (at most one send holds the sequencer, and the others wait in the
order of the calls) and `Written`: until a write fails, the calls taken are what was written, what is out, and
the queue, in that order.  The failure is in the invariant because the sends after it are answered and not written.

`ConnectingProofs`: `Orderly` (nothing is out for a connector before its race) and `Ledger`: while no connector of the batch
has succeeded, those that were not launched, those that wait and those that were counted are the batch.  So a batch that
has failed has nobody left who could succeed, and a success that comes late finds that another was first.  From them the
safety properties, for any number of connectors and any size of a batch.

`ChannelProofs`: types, and `Handshake` = `ToldByCount` (the session was told if and only if the join was cleared), `HeardOnce` (a message of the
handshake that was heard has no subscriber any more, and a version that was accepted is sufficient and negotiated),
`OneInHand` (successes are raised by the reader only, one at a time: the others may be many) and `SuccessIsMeant` (a success that is counted or in hand
stands for a message heard, and both together for both).  The last needs the others, since a success does not say which message it is for.  From it `HandshakeToldOnce` and `PeerIsKnown`,
for every version and any number of messages.  `Pings` = `OnePinger` (the ping protocol runs on the reader's thread, then on its timer's, never on both),
`HeartBeats` (it has its handler until the channel stops), `InOrder` (the pongs of a peer that keeps to the protocol wait in the order of the pings, with a
stop only behind them), `OneAwaited` and `Outstanding`: a ping is pending, and its pong awaited, from before it is sent until its pong runs.  The
order of awaiting and sending matters there: were the ping sent first, its pong could run before it is awaited.  From it
`HonestPeerIsKept`, and that a pong of such a peer stops nothing (`HonestPongIsWelcome`), for any number of pings.

`Answers` = `Listening` (from its attachment until the stop the ping protocol has its handler and its subscription), `PongsInOrder` (the
pongs sent are in the order of their pings) and `Heard`: there is a number up to which the pings were heard, those above it wait on
their strand in order, with a stop only behind them, no pong is for one above it, and each that came after the attachment and is not
above it has its pong.  It needs `Handshake` and `Pings`, which say when protocols are attached and when they stop.  From it
`PingsAreAnswered`, for any number of pings.

`HostsProofs`: first, what the fold of `Hosts` is.  `Stored` goes over a list by a recursive function, whose
existence is shown by the least list for which there is none (`FoldExists`), and which keeps what each of its steps keeps
(`StoredIsFold`).  `Sound` = buffer and file are lists of addresses within the capacity, and the buffer is empty whenever the hosts are
stopped; the last is why a load that returns leaves nothing known, and a stop that goes through the hosts first takes what a start sequence
was about to succeed with.  `StoredFills` is the arithmetic of `hosts::store`: with `usable` addresses
and room for `gap`, the step between two samples leaves at least `gap` of them.  `Backed`: when a
start sequence is about to report success, the buffer is not empty or a stop has begun.  From them
`FillsTheGap` and `SuccessHasHosts`, for any addresses, lists, seeds and starts, and any number of processes before.

Only model-checked: `QuietIsSynced`, which is claimed for the trees and limits of the instance (whether two nodes that have
fallen silent agree depends on which blocks are fresh, on `MaxHeaders`, and on how far below the announced branch the locator
reaches; section 6 has a branch for which they do not), and the liveness properties `CallsReturn`, `DeadConnectionsAreReplaced`, `CatchesUp`,
`StoppedLeave`, `StartIsAnswered`, `BatchIsAnswered`, `ChannelIsReleased` and `SendsAreAnswered`, which are out of the prover's reach.

## 5. Assumptions and what is left out

* `BlockTreeAssumption`: positive work per block, which `header::proof` gives for every target that passes the
  check of the bits.  Validity of a block depends on its ancestors only.
* `SpendingAssumption`: blocks in the store are valid, and an output is not created again while it is unspent.  The
  latter is BIP30; `populate_base.cpp:32` says that it is not validated ("We are not validating tx
  duplication"), so for such a block the store is outside what is shown here.
* In `BlockOrganizer` check, accept and connect are one membership test; the ABLA state and the difficulty are
  not part of the cached record; `filter` (the removal of known hashes from a getdata list) is a read.
* In `ValidationGate` a job may fail at will; `transaction_validate` runs outside the section and is left out.
  `PoolAssumption`: a branch that is validated is pushed, by a phase of one job for each of its blocks (`data_base.cpp:303`), and the
  pool has a finite number of threads.  The pops of a reorganization run in the job that ends the validation, before the
  first push is posted.
* In `ReorgStore` an LMDB call does not fail by itself (disk full, map size); the tables of the modes `full` and
  `blocks` are left out.  The clock only grows.
* In `Prevouts` prevouts are looked up at one moment: only prune jobs run beside the lookup.

* In `Hosts` an address is its ip and port, timestamps and services are dropped; a file is cut off between two lines, and a line cut
  off inside is one that throws or one that is skipped.  The time between the opening of a file
  and its last line is one step.  The first two of the three events a seed's join waits for are left out: the third ends it.
* In `Connecting` connectors belong to one slot.  Sockets end or not as the system likes.
* In `P2P` the seed session (see `Hosts`), the connectors of a batch (see `Connecting`), the blacklist, the subscribers of new connections and what
  protocols do after the handshake are left out.  `synchronize` lets the first success of a batch through; the channels of
  later ones are dropped before anything is started on them.  A peer sends its version before
  it acknowledges ours.  Whether a version is acceptable is a choice.
* In `Channel` the heartbeat is longer than the attachment of the protocols takes, which settings of zero minutes would break.  A stop before the start has set
  its timers belongs to `P2P`.  Of the protocols of the node only the ping protocol is attached; the others subscribe as it does.
  Messages arrive when the peer is read, so the time on the wire is the time the peer takes.  A message sent just before a stop, such as a
  reject, need not be written.  The rejects of `protocol_version_70002` for insufficient services are left out: the services required by
  default are none.
* In `Sequencer` a write that ends has been written whole.
* In `BlockRelay` the peer is honest: it sends what the code of `protocol_block_out` sends, and blocks are valid.  The
  hashes of a locator are read in one step.  `get_blocks` and versions before headers, filtered blocks, and the
  messages that a decoder refuses are left out.  A peer that leaves announcements out because the block
  came from us (`originator`) is not modelled: what it would announce is known here.
* In `Resubscriber` handlers return what `handle_reorganized` of the node and of its block protocols return; an error
  code other than the stop does not occur, because `notify` and `unsubscribe` pass success.

* The caller of `p2p::connect` is not part of `P2P`.  Reading `session_manual.cpp:111` shows that it may not be
  told: if the first handshake fails, the channel's stop handler connects again with an empty handler, whereas
  `p2p.hpp:153` promises to call it.

## 6. What the code does not do

| Run | Statement | What happens |
|---|---|---|
| `popping` | `internal_database.ipp:454` "This should never become invalid if this call is protected." | prune jobs are not protected by the validation mutex; on stale heights they delete blocks within `reorg_pool_limit` |
| `parent` | `protocol_block_in.cpp:475` "if we haven't the parent block already, send a get_header message and return" | only the store is asked: a compact block that extends a branch in the block pool is dropped, so a heavier branch of two blocks is never adopted over such a channel |

These are further statements that TLC refutes, each by `tlc -config <cfg> <module>`; they are not among the runs of
`PROJECT.json`:

| cfg, module | Statement | What happens |
|---|---|---|
| `MCStoreClosedLast`, `MCValidationGate` | `threadpool.hpp:75` "Wait for all threads in the pool to terminate." | `join` detaches; the store is closed while a prune job may be in a write transaction |
| `MCRestart`, `MCP2P` | `p2p.hpp:95` "start may be reinvoked after." | the tables keep the flag that stop has set and refuse every channel afterwards |
| `MCIncomingStamped`, `MCBlockOrganizer` | `block_organizer.cpp:420` "Incoming blocks must have median_time_past set." | a block that was popped and is pushed again has none |
| `MCLoopback`, `MCP2P` | `session_outbound.cpp:145` "Pend outgoing connections so we can detect connection to self." | the outbound end is unpended when its handshake is complete, which may be before the inbound end looks for it |
| `MCClosedIsQuiet`, `MCP2P` | `p2p.hpp:100` "Blocking call to coalesce all work and then terminate all threads." | `shutdown` stops the io_service and `join` detaches: posted stops and retries stay in its queue |
| `MCDropsOnlySlow`, `MCBlockRelay` | `protocol_block_in.cpp:75` "Use timer to drop slow peers." | compact blocks enter `backlog_` (line 254) and only `handle_receive_block` pops it, so a peer that has answered everything with compact blocks is dropped |
| `MCLoading`, `MCHosts` | `test/config/authority.cpp:86` "authority const host(address.str());" of an address with a port | the test of `from_chars` is inverted (`authority.cpp:245`): a port that parses throws, through `hosts::start` with its mutex locked and off a thread of the pool (`hosts.cpp:135`), so a node that has saved an address cannot start again |
| `MCAcceptsShort`, `MCHosts` | `hosts.cpp:293` "But always accept at least the amount we are short if available." | the sampled addresses may be known while new ones between them are passed over: with two known in a buffer of four, of a list of four whose third is known only one of the two new addresses is added |
| `MCStopReportsSave`, `MCHosts` | `p2p.hpp:96` "Returns the result of file save operation." | a file that cannot be opened or a full disk is not noticed: `bad()` is tested right after the construction of the stream (`hosts.cpp:174`) |
| `MCReinvoke`, `MCHosts` | `p2p.hpp:95` "start may be reinvoked after." | a load that comes between `hosts_.stop` and the flag leaves the hosts started, and the next start fails |
| `MCStopCancels`, `Connecting` | `connector.hpp:47` "Cancel outstanding connection attempt." | the resolver and the timer are cancelled, the connect of the socket is not: after a timeout the next batch starts while it goes on |

Seen while modelling, without a run of their own:

* `populate_chain_state.cpp:306` "If this is not a reorganization we can just promote the pool state.": the comparison is by
  height with a state that has the height of the top, so a sibling of the top is promoted and an extension is not.
  `PromotedContext` shows that what is promoted is right all the same.
* `block_pool.hpp:41` "Purge branches rooted below top minus maximum depth.": branches rooted in a popped block
  have key zero and are never purged.  `ImplementsBestChain` shows that no more than those is purged.
* The backlog that `MCDropsOnlySlow` shows is why `BacklogIsOwed` and the first half of `CatchesUp` leave channels with compact blocks out.
* `protocol_block_out.cpp:96` returns false: a second send_compact, by which a node that is no longer stale asks for high
  bandwidth, finds no subscriber.
* `full_node.hpp:200` "Subscribe to blockchain reorganization and stop events.": a handler that the strand has in
  hand when the flag is set is dropped by `resubscriber.ipp:169` and not told of the stop.  `OnlyTheCaughtMissStop` says
  exactly which.
* A branch that is longer than one headers message and forks below `last_locator_top_` is cut at the threshold; a
  block that waits for transactions the peer no longer has stays in `compact_blocks_map_` for the life of the channel
  and its announcement is ignored from then on.
* `hosts.hpp:23` says of zero-valued ports what only the load does: `store` takes them, `stop` writes them, and the next
  load drops them.
* `hosts.cpp:127` tests `bad()`, which a file that does not open leaves unset: it is loaded as an empty one with success, and the next
  save truncates it.
* `deadline.hpp:53` "Callback invoked upon expire or cancel.": `handle_timer` makes no call when the timer is canceled
  (`deadline.cpp:77` says so).  `BatchIsAnswered` holds since a connector is stopped either by its answer or with its pool.
* `session_batch.cpp:75` does not look at the code of `pend`: a connector made after `pending_connect_` was stopped is in no
  table and connects all the same, which `TableIsCurrent` allows for.

Hard to test as well, and outside what is checked:

* `transaction_organizer.cpp:88`: `transaction_validate` runs without the validation mutex; its jobs read the chain between two
  blocks of a reorganization, and after stop they are queued on an aborted pool.
* `validate_block.cpp:340`: signature checks are counted per bucket and compared with the limit of the block.
* `internal_database.ipp:895`: an output that exists already ends the loop with a success code and the push commits; excluded by
  `SpendingAssumption`.
* `parser.cpp:360`: `reorganization_limit` and `reorg_pool_limit` are independent settings, and the first may be larger.
* `populate_chain_state.cpp:327`: the ABLA state of a branch block is computed from the state cached for the top.
* `populate_block.cpp:234`: outputs of the reorganization pool are not compared with the fork; `Prevouts` shows that what must be
  found is found, not that nothing else is.
* `block_organizer.cpp:461`: the subscribers of a reorganization run inside the critical section, on a priority thread.
* `block_chain.cpp:425`: `close` does not wait for a posted prune job, see `MCStoreClosedLast` above.
* `pending.ipp:148`: `stop` calls the elements it has copied while others come and go; see `TablesHoldTheLiving`.
* `hosts.cpp:138`: a file that was cut off in the middle of a line.
* `hosts.cpp:174`: a save that fails; see `MCStopReportsSave` above.
* `connector.cpp:94`: no timer runs while a name is resolved; `BatchIsAnswered` assumes that resolving ends.

## 7. Plan

1. (done) The organizer and its refinement, the gate, the store, the connections, the subscribers, the relay
   of blocks, hosts and seeding, the connectors, the channel and its sends.
2. Extend the model: the outputs that `Prevouts` must *not* find; `BucketChecks`, the signature
   check count per bucket against the sequential count (`validate_block.cpp:338`); in `P2P` the caller of a manual
   connect; the ABLA state in the cached record of `BlockOrganizer`; in `BlockRelay` the `originator` of a block and a
   peer that runs the same module.
3. Compose: `BlockOrganizer` over `AtomicStore`, whose `BreakOff` its failures would be; the handshake of `P2P` as an abstraction of `Channel`;
   a peer of `BlockRelay` that is `BestChain` too.
4. Prove: the refinements of 3, once stated; the conditions on the tree under which `QuietIsSynced` holds for every instance.
