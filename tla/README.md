# NovaCache in TLA+

A verification project for NovaCache, the RESP2 cache server of this repository: TLA+
modules translated from its C++ sources, TLC configurations that check them on small
instances, and TLAPS proofs for every value of the constants. Paths are relative to the
repository; `PROJECT.json` maps each definition to the lines it models.

## The system

| Part | State | Operations | What is hard about it |
| --- | --- | --- | --- |
| Persistence engine (`src/persistence/engine.cpp`) | engine mutex, fsync thread, next snapshot time | `recover_into`, `durable_set/del/expire`, `snapshot_now`, `shutdown` | crashes between any two steps, snapshots that fail halfway |
| WAL (`wal.cpp`) | file, `last_offset_` | `open_and_recover`, `append`, `sync`, `truncate_after` | torn tails, un-synced writes, offsets across restarts |
| Snapshot file (`snapshot.cpp`) | `dump.ncs` | `write`, `read` | order of rename, directory fsync and WAL truncation |
| Store (`src/store/store.cpp`) | shards of entries behind `shared_mutex`es, two counters | get, set, del, exists, expire, ttl, keys, active expiry, export | lock upgrades with a stale clock, several locks, scans that are not atomic |
| Worker pool (`src/util/thread_pool.cpp`) | job queue, condition variable | `try_submit`, `worker_main`, `shutdown` | lost wakeups, shutdown racing submissions |
| Server (`src/server/server.cpp`) | connections, strands, completions | accept, read, queue, complete, write, close | ordering of pipelined replies, late completions, edge-triggered readiness, back-pressure |
| Reactor and sockets (`src/net/`) | kqueue registrations | add, modify, remove, wait, wakeup | edges that are not repeated |
| Parser and encoder (`src/protocol/`) | input buffer | feed, next, encode | inputs split anywhere, limits |
| Commands (`src/commands/registry.cpp`) | command table | `execute` | arity, integer ranges |
| Codec and CRC-32 (`binary.hpp`, `crc32.cpp`) | none | append and read integers and strings, checksum | what a damaged file still decodes to |
| Programs (`apps/`) | none | command-line client, server, benchmark | a client that waits for ever |
| Statistics (`include/novacache/server/stats.hpp`) | counters | | |

A client's bytes go through the reactor and the parser into a connection's command queue.
One command of a connection at a time is a job of the worker pool (or runs on the I/O
thread when the pool is full); it works on the store directly, or for mutations through
the persistence engine, which logs, fsyncs according to the mode, and then applies. The
response comes back as a completion. The I/O thread also runs active expiry and periodic
snapshots.

## Modules

### PersistenceEngine (engine, WAL, snapshot, recovery)

The engine mutex serialises mutations, snapshots and recovery, so a single `pc` is the
step of its holder; the fsync thread, `Tick`, `ExpireKey`, `Kill` and `PowerLoss`
interleave with every step.

| Actions | Code |
| --- | --- |
| `LoadSnapshot`, `open_and_recover`, `ReplayRecord`, `Serve` | `recover_into`, `SnapshotStore::read`, `WalWriter::open_and_recover`, `apply_record` |
| `durable_set`, `durable_del`, `durable_expire` (through `append`), `durability_action`, `ApplyAndReply` | the three durable mutations |
| `snapshot_now` / `shutdown`, `RenameSnapshot`, `SyncDirectory`, `TruncateWal`, `write_header`, `FinishSnapshot` | `snapshot_now`, `shutdown`, `SnapshotStore::write`, `truncate_after` |
| `SnapshotFails`, `SyncDirectoryFails` | exceptions swallowed by `Server::run` and `~Server`; the ignored result of the directory fsync |
| `TestStop`, `Block`, `Wake`, `BackgroundSync` | the loop of the everysec thread: testing `stopping_` and taking the mutex, `wait_for`, its return, `sync` |
| `stop_fsync_thread` | the first half of `shutdown`: set `stopping_`, notify, join |
| `ExpireKey` | lazy and active expiry |
| `Kill`, `PowerLoss`, `Tick` | environment |

`stopping_` is set and the condition notified without the mutex, so the notification can
fall between the thread's test and its wait and be lost; the wait's timeout of one second
rescues it, and `EngineShutdownReturns` depends on that. The thread holds the engine mutex
only between its test and its wait. `shutdown` is called by the thread that also runs
the snapshots, so it never comes in the middle of one.

A WAL file is the sequence of records a scan of it returns (`walRecs`), a valid-header
flag and a torn-tail flag. A kill leaves the files as the kernel shows them; a kill inside
`append` may leave a torn tail. A power loss leaves, of each file, some state between its
last fsync and its latest write (`WalImages`, `snapDisk`).

Ghost variables carry the specification: every record knows the version and the abstract
state it establishes, `cur` is the state after the last acknowledged mutation, `unsure`
holds keys of mutations whose reply was not sent, `synced` is the version the last fsync
covers. `exposed` says whether the code has by now done something after which recovery
misses a mutation: reused an offset the snapshot covers (`engine.cpp:54-60`), ignored a
failed directory fsync, or lost the header of the log. The properties that must hold
despite the two findings below are conditioned on it; the findings are the unconditioned
statement.

### Store and AbstractStore

`AbstractStore` is the promise: one map, on which a command takes effect atomically at a
moment between call and return, judged by a clock reading from in between; only a due
entry disappears by itself. `Store` has the real steps: reads in two phases
(`ReadShared`, `ReadUnique`) with the clock read before the lock, multi-key commands that
lock shard after shard and then work key after key (`lock_mutexes_in_order`, `AllLocked`,
`WorkOnKey`), scans shard after shard (`keys`, `export_snapshot_entries`,
`active_expire_cycle`), single-key writes (`set`, `expire_at`). `config_` is chosen once,
from `Configs`: which commands are called, and whether there is a persistence engine, in
which case mutations and exports also hold its mutex. The refinement mapping puts the
effect of a `del_many` at its last key.

`used_memory` is compared with `BytesOf`, the number of pairs of a key and one of its bytes.

A value is known by its length. Argument lists without repetition stand for all: EXISTS
with a repeated key counts it twice, which is left out. Counter updates under one lock
are one step; INFO may read a counter between them.

### ThreadPool

`try_submit`, `worker_main` and `shutdown`. A step is what happens under `mutex_`;
notifications are steps of their own, after the unlock, as in the code. Spurious wakeups
are possible. A `try_submit` or second `shutdown` that returns at once changes nothing
and is no step.

### Server (event loop, reactor, the sockets' results)

The I/O thread is a stack of frames, one per function waiting for a call to return; the
head frame is executed up to the next place where it looks at state that a worker or a
client may change.

| Actions | Code |
| --- | --- |
| `Wait`, `AcceptEvent`, `EventsDone`, `EndOfRun`, `Stop` | `Server::run`, `KqueueReactor::wait`, `Server::stop` |
| `AcceptReady`, `AcceptDone`, `AcceptThrows` | one turn of `accept_ready`; its end; an error of `accept`, which leaves `run()` |
| `HandleConnectionEvent`, `HandleErrorEvent`, `FinishEvent` | `handle_connection_event`, before and after its read |
| `ReadConnection`, `QueueParsedCommands` | one turn of `read_connection`, of `queue_parsed_commands` with `enqueue_command` and `launch_strand` |
| `ApplyCompletion`, `DrainDone` | `drain_completions`, `apply_completion` with its write, the next command of the strand, and the close or `update_interest` that ends it |
| `UpdateInterestAgain` | `update_interest` after the read it makes |
| `CloseIdleConnections` | `close_idle_connections` |
| `TakeJob`, `RunJob` | a worker taking a job; the job of `launch_strand` |
| `Connect`, `Send`, `HalfClose`, `Reset`, `Receive` | clients (external) |

A registered filter raises an edge when its condition becomes true, or when it is added
while the condition holds (kqueue's behaviour for `EV_ADD | EV_CLEAR`); `wait` hands the
edges over and clears them. A hang-up is reported by whichever filter is registered and
handled like readable input (`Reported`). Descriptors are recycled, connection ids are not. A
message is a complete command, malformed input, or an unfinished command at the end of the input;
buffers are measured in messages and replies. The parser's buffer has no size here: where the
configuration allows the fault "overflow", `feed` may refuse any bytes (CommandPath has the
size). `max_connections` is at most the number of descriptors; that the process runs out of
them earlier is the fault "accept".

The loop in `apply_completion` that moves consecutive pending responses to the output is
given in closed form: `InSequence` are the ones it reaches, `Fitting` those before the
output overflows, `AppendReplies` and `Flush` what it leaves.

`config_` is chosen once, from `Configs`: the fields of `ServerConfig`, with what the clients
may send and which faults may happen. One run covers several configurations this way.

### Resp, Registry, DiskFormat and CommandPath (bytes)

`Resp` has `encode` and the incremental parser (`feed`, `next`, the limits of
`ParserLimits`) over byte values; `Registry` the command table, the checks of arity and
arguments and the ten handlers, as functions of the store's contents and the clock;
`DiskFormat` the binary codec, the checksum, WAL records, their payloads, the snapshot file,
and what reading the two files returns for any bytes; `Common` what they share. `CommandPath`
composes them into one connection, from the client's request to its reply, the log, a
crash and the recovery:

| Actions | Code |
| --- | --- |
| `Receive`, with `ParseUpTo` | a turn of `read_connection` with `queue_parsed_commands`, which parses all it has or pauses because the pool's queue is full; the sizes of a piece are the scenario's |
| `ShareThePool` | the pool's queue, which other connections share, fills up or drains |
| `Close` | a closing connection whose commands are all answered |
| `Execute` | `Registry::execute`: requests without a handler, and the commands that only read |
| `Reject`, `Accept`, `Log`, `Apply` | a write: EXPIRE's check of its argument, its second reading of the clock and the append, then the fsync, the store and the reply |
| `WriteSnapshot`, `truncate_after` | `snapshot_now` |
| `ClientReceive`, `ClientEnd` | the receive loop of `novacache-cli` |
| `Crash`, `Recover` | damage to what was not synced; `recover_into` |

Here `Server` is reduced to one connection and `Store` to a map, which is what their own
properties (`CommandsRunInWireOrder`, `RepliesMatchRequests`, `Linearizable`) allow. Of the pool's
queue `pool` says whether it is full (`queue_saturated`, the guards at `server.cpp:225` and
`server.cpp:263`), has never been, or was. Parsing pauses only while the connection itself has a
command in flight, as in the code. Reading that stopped on a full queue may go on when the
queue has room, but nothing owes it (third finding): `CanReceive` asks for a queue that was
never full. The output's limit and the interest in reading stay with `Server`. A crash
leaves a prefix of the log, or a stretch of zeros in it; the header, which lies in the first
sector, is there as a whole or not at all.

## Runs

| Run | Checks | Shows |
| --- | --- | --- |
| `persist_always` | types, `ScanNeverThrows`, `LogContinuesSnapshot`, `RecoveredStateIsAPrefix`, `AckedWritesSurviveAligned` | fsync=always with deadlines and snapshots through two crashes |
| `persist_everysec` | the last three, `AppendedIsFsynced`, `EngineShutdownReturns` | two keys, multi-key DEL, a failing snapshot, two crashes: nothing older than the last fsync after a power loss, everything after a kill, every append is fsynced eventually, and `shutdown` returns |
| `persist_offset_reset` | `AckedWritesSurvive` is violated | first finding |
| `persist_expire_replay` | `AckedWritesSurvive` is violated | second finding |
| `store_safety` | types, `MemoryIsAccounted`, `EachExpiryCountedOnce`, `ScanIsSound`, `ExportIsACut`, `NoCyclicWait`, `Linearizable` | multi-key commands, scans, exports and two-phase reads over two shards race writes and expiry, with and without the engine mutex; commands that hold mutexes never wait in a circle; the export is one state, which justifies the atomic `SnapshotBegin` of PersistenceEngine |
| `store_live` | `EveryCallReturns` | the lock order excludes deadlock |
| `thread_pool` | types and queue limit, `AcceptedRunInOrder`, `NoLostWakeup`, `AcceptedJobsRun`, `ShutdownReturns` | submissions racing shutdown |
| `server_safety` | types and buffer limits, `RepliesMatchRequests`, `CommandsRunInWireOrder`, `InflightIsExact`, `NoStrandedOutput` | one connection with every kind of input and fault; two that share the pool or reuse a descriptor |
| `server_live` | `AnsweredWhileQueueHasRoom`, `ProtocolErrorCloses` | commands are answered while the pool's queue does not fill; a closing connection that owes output is closed in the end, with a full pool too |
| `server_stall` | `EveryCommandIsAnswered` is violated | third finding |
| `server_error_order` | `ErrorReplyIsLast` is violated | fourth finding |
| `command_path` | types, `SplitIndependent`, `DeliversWhatWasSent`, `RepliesReachTheClient`, `LogMatchesReplies`, `DeadlinesFitTheClock`, `ReplayRestoresTheStore`, `RecoveryReadsWhatWasLogged`, `ClientIsAnswered` | one connection in bytes: how the input is cut does not matter, replies are read as they were meant, the log has a record for each accepted write and replays to the store, but for a key with a replaced deadline that has passed, which may be missing and is never wrong (second finding); a damaged log decodes to a prefix of what was logged; the client is answered or cut off, unless the pool's queue was full, and then it waits only for requests that were not parsed (third finding) |

PersistenceEngine has no run with fsync=none. `persist_everysec` includes a thread that is never
scheduled, but the modes differ in `snapshot_now`, which fsyncs the log before it is cut only in
the other two (`engine.cpp:139`); what that leaves of old records after a crash
(`wal.cpp:203`) is reached with fsync=none alone. The theorems cover all three modes, and
CommandPath has fsync=none with a snapshot.

Every property of a passing run has a mutant: an operator marked `Fault` in the module
replaces the faithful one, and TLC then reports the property violated.

### Findings

1. **Offsets restart below the snapshot** (`engine.cpp:54`). After a snapshot the log is
   empty; the next start leaves `last_offset_` at 0. New mutations get offsets up to the
   snapshot's and the following recovery skips them, under fsync=always too.
   `docs/PERSISTENCE.md:96` describes the intended maximum.
2. **An extended deadline is lost on replay** (`engine.cpp:219`, `store.cpp:255`).
   EXPIRE k 1, then in time EXPIRE k 3, then a restart after the first deadline and before
   the second: the first record deletes the key while being replayed.
3. **Pipelined commands stall** (`server.cpp:263`). With the pool's queue full, complete
   commands stay in the parser's buffer. Completions re-enable reading, but
   `read_connection` parses only after receiving new bytes, so the commands wait until the
   client sends something else. `docs/PROTOCOL.md:99` says they are processed.
4. **The error reply overtakes replies** (`server.cpp:272`). The reply to malformed input
   goes into the output at once; replies to the commands before it follow.
   `docs/ARCHITECTURE.md:42` says sequence numbers preserve the order of responses.

Further behaviours of the server are in the model and recorded as hazards: a connection
half-closed with commands in flight is never released without an idle timeout
(`server.cpp:238`), neither is one whose end of input is met by the read inside
`update_interest` (`server.cpp:446`), clients waiting at `max_connections` are not accepted
when a connection closes (`server.cpp:155`), and the exceptions of a reset socket
(`socket.cpp:235`) and of a failing `accept` (`socket.cpp:199`) leave `run()`.

### Bounds

- Persistence: `persist_always` has one key with deadlines before and after the end of the
  clock (0-3), three mutations and two crashes; `persist_everysec` two keys, two mutations,
  two crashes and one failing storage call. Two crashes are needed for what recovery itself
  leaves behind: mutate, crash, mutate on the recovered files, crash, recover. Two keys
  tell one multi-key record from several.
- Store: 2 threads, 2 shards of one key, 3 calls of the commands in one of the sets of
  `MCStore` (GET and DEL for liveness), clock 0-1, initial entries with and without a deadline. A two-phase read needs one interfering write, and the clock and
  expiry are actors of their own; a lock cycle needs two threads and two shards. `MaxCalls`
  also bounds liveness.
- Worker pool: 3 workers, 2 clients, queue of 2, 4 jobs: full queue, all asleep, and more
  sleepers than jobs all occur.
- Server: each run chooses among the configurations `MCServer` lists. 1-2 clients and
  descriptors, 2-4 messages per client, 2-3 messages per receive, a kernel buffer of one
  reply, an output buffer of 1-2, 1-2 workers, a queue of 1 (4 where it must not fill). The
  queue fills, the output overflows, sends block, connections coexist, and a descriptor is
  reused while a completion of its previous owner is on its way.
- CommandPath: a behaviour starts from one of the scenarios of `MCCommandPath`: writes in each
  mode, EXPIRE around every limit, reads of values of every type, requests around the
  parser's buffer, a KEYS whose reply exceeds the client's, two requests with one byte wrong,
  values that are no requests, deadlines that are replaced while the clock passes them, and
  pipelines that meet a full queue. A receive returns 1 to 3 bytes, 3 in the EXPIRE scenarios;
  about a request where deadlines are replaced, and several where the queue fills, since a
  pause needs more than one request in a piece. Widths
  are scaled so that every limit is within reach: integers of 16, 32 and 64 bits have 1, 2 and
  2 bytes, the checksum is a CRC of 16 bits, `Int64Max` is 32767, a command's name and a fixed
  reply are one byte, the limits of the parser are a bulk of 5, an array of 4, depth 2 and a
  buffer of 34 bytes. A millisecond has 2 ticks of the clock
  and a second 4, so that rounding deadlines shows; the steady clock ends at 17, just beyond
  the clock's bound in the EXPIRE scenarios (5), and the wall clock is 1 ahead of it.

Symmetry is used for the threads of Store and the descriptors of Server, in safety runs only.

### Fairness

- PersistenceEngine: weak fairness of the fsync thread, whose wait times out and which swallows
  errors; of the holder of the engine mutex; and of `shutdown` once it has joined the thread.
  Clients, clock, crashes and the decision to stop are free.
- ThreadPool: weak fairness of each worker's and client's next step: threads are scheduled
  and jobs return. Submissions, shutdown and spurious wakeups are free.
- Store: weak fairness of each thread inside a call. With finitely many calls a mutex is
  eventually free for good; starvation by an endless stream of calls, which
  `std::shared_mutex` does not exclude, is outside the run.
- Server: weak fairness of the I/O thread, of the workers, and of each client reading its
  replies. Nobody has to connect, send or close. A client that never reads may keep its
  connection open for ever; that is why its reading is assumed.
- CommandPath: bytes that were sent arrive as long as the pool's queue has never been full, the
  pool runs the commands, the client reads, a snapshot that has begun ends, a connection that
  may close does. The first three are weak
  fairness with the enabling conditions written out (`CanReceive`, `CanWork`, `CanRead`),
  because the guards behind them parse. Clock, snapshots, crashes, the other users of the pool
  and reading after its queue was full are free.

Runs of Store, ThreadPool, Server and CommandPath do not check deadlock: they legitimately
stop when the callers make no more calls. Their liveness properties cover what waits.

## Proofs

Each theorem below holds for every value of the constants that satisfies the named
assumptions. `PROJECT.json` lists them with the property each one states; all safety
properties of the runs of PersistenceEngine, Store, ThreadPool and Server are among them.

### Durability

`PersistenceEngineProofs` (`ConstantsAssumption`, `AbsentAssumption`: no deadline reaches `Never`,
which stands for none, and "no entry" is no entry):

- `TypeCorrect`: `TypeOK`, strengthened to `TypeInv` by `Control`: the engine is
  inside an operation only while it is up, and has a replay position only while it replays.
  The steps of the stop protocol touch none of this (`HandshakeIsLocal`).
- `LogIsReadable`: `ScanNeverThrows`. `OffsetInv` says that every log a crash can leave is
  increasing, that `last_offset` bounds the offsets of the log while it is replayed or
  served, which is what makes the next append increasing, and that a truncated log is empty.
- `EveryMutationIsInSnapshotOrLog`: `LogContinuesSnapshot`. `ContinuityInv` adds that the
  snapshot being written carries `last_offset`, that every log that can be left starts no
  later than each snapshot that can be loaded, and that no snapshot is ahead of
  `last_offset` as long as `exposed` says so; the last is what restarting the offsets breaks.
- `RecoveryYieldsAPrefix`: `RecoveredStateIsAPrefix`. The property only speaks of the end of a
  recovery, so the invariant follows the files all the time. `ServeInv`: what is served and
  what snapshots hold is faithful to the abstract state, and the mutation in progress leads
  to the next one. `HistoryInv`: unless `exposed`, each log a crash may leave is a chain of
  versions from each snapshot it may leave, at least as long as what was fsynced; the files
  the kernel shows lead to the present. `ReplayInv`: recovery follows the chain, one record
  at a time. The lemmas below say that loading, applying a record and expiry each
  preserve faithfulness.
- `AcknowledgedWritesSurvive`: `AckedWritesSurviveAligned`. `AckInv` compares the end of each
  chain with the acknowledged state, outside the keys of mutations not replied to. In mode
  always it does so for every crash image, since a logged record has only one; in the
  other modes for the files as the kernel shows them.

The last two inherit the conditions of their properties: where an offset was reset below the snapshot,
or an earlier deadline passed, they say nothing, and the first two findings show why.

### Worker pool

`ThreadPoolProofs` (`PoolAssumption`: any non-empty finite set of workers, any finite set of
clients):

- `TypeCorrect`: types and the queue limit.
- `JobsRunOnceInOrder`: `AcceptedRunInOrder`. That `shutdown` throws away no job needs
  `OrderInv`: an exited worker implies `stopping_` and an empty queue.
- `WakeupsAreNotLost`: `NoLostWakeup`, by counting: each queued job is matched by a worker
  on its way to the queue or a signal still to come. `ShutdownInv` adds that a client past the
  lock of `shutdown` implies `stopping_`.

### Store

`StoreProofs`, and `StoreScanProofs` and `StoreRefineProofs` on top of it (`StoreAssumption`,
`DistinctValues`: any threads, finitely many keys over any shards). `StoreInv` types the
entries and calls and says which command is at which step. `StoreCases` sorts the steps by what
they do to the entries: nothing, expired entries erased, or one key set, given a deadline or
deleted by a thread. Most invariants need to look at these cases only.

- `ExpiriesAreCountedOnce`: `EachExpiryCountedOnce`. Every case moves an entry between present,
  deleted and expired, and counts it there.
- `MemoryIsExact`: `MemoryIsAccounted`. `Resizes` relates the change of the counter to the change
  of `BytesOf`, once for each case. `BytesOf` is the cardinality of a set of pairs, so it splits
  over keys by the theorems on finite sets and needs no induction over a sum.
- `StoreIsWellTyped`: `TypeOK`. That the counter is a natural number follows from its being exact:
  without that, a subtraction could wrap.
- `KeysAreSound`: `ScanIsSound`. `ScanInv`: a key that stays is reported or lies in a shard still
  to be visited.
- `SnapshotIsACut`: `ExportIsACut`. `MutexInv`: the engine mutex admits one command, so no
  mutation runs during an export. `ExportInv`: what has been and will be collected of a key
  is what was there at the beginning, or was due.
- `WaitingIsAcyclic`: `NoCyclicWait`, the safety half of `EveryCallReturns`. `LockInv`: the
  mutexes a command holds come before those it still has to lock. The holder of the
  greatest mutex that is locked therefore finds its next one free; that there is a greatest
  one comes from the well-foundedness of the natural numbers.
- `StoreIsLinearizable`: `Linearizable`, the refinement of `AbstractStore`. `LinearInv` has the
  locks (a multi-key command at work holds all of its shards), what it has taken out so far,
  and that its result is their number. Under that, each step of `Store` is a step of the
  mapped variables or a stutter: a read takes effect at its last look at the entry, a
  multi-key command at its last key.

### Server

`ServerProofs`, `ServerStackProofs` and `ServerReplyProofs` (`ServerAssumption`: any finite
sets of clients and descriptors, any configurations). The handlers are functions of one
connection's `World`; `ServerProofs` proves once what each of them preserves, the other two
lift that to the steps of the I/O thread, the workers and the clients. `Kind` sorts the steps by
what they touch: only sockets, one connection, a set of connections that are closed, a worker,
an accepted or a newly connecting client.

The invariant has five parts, none of which is inductive by itself:

- `TypeInv`, the types;
- `StackInv`: the frames have the shape the calls of `run()` give them. Work on one
  connection is on top, a parse only of a connection that is not closing, and whoever reads will
  be followed by a look at the output;
- `IdInv`: connections, clients and jobs know each other; ids are not reused although
  descriptors are, so a late completion finds its own connection or none;
- `StrandInv`: a client has one job at most, at the place that `strand_running` tells, and
  sequence numbers of executed, applied and flushed commands are in this order (`Orderly`,
  `StrandOf`, `ReplyOf`);
- `WriteInv`: output that waits has write interest, and an event if the client has room, or a
  frame that is going to look at it.

From it (`ServerKeepsItsInvariant`):

- `CommandsRunInOrder`: `CommandsRunInWireOrder`;
- `OutputIsNeverStranded`: `NoStrandedOutput`;
- `InflightCountsCommands`: `InflightIsExact`;
- `RepliesAreInOrder`: `RepliesMatchRequests`. `ReplyInv` extends the invariant
  (`ServerKeepsItsReplies`): the replies sent and those in the output are the answers to the
  client's first commands, each once and in order, an error reply anywhere among them;
- `ServerIsWellTyped`: `TypeOK`, with the limits of queue, workers and output. `RunInv`: no more
  jobs run than there are workers.

### Only model-checked

- Liveness (`AppendedIsFsynced`, `EngineShutdownReturns`, `EveryCallReturns`, `AcceptedJobsRun`,
  `ShutdownReturns`, `AnsweredWhileQueueHasRoom`, `ProtocolErrorCloses`, `ClientIsAnswered`):
  fairness and `ENABLED` are beyond the prover.
- All of CommandPath: the parser and the decoders are recursive, the checksum uses bitwise
  operators, and what a recursive definition computes for every input needs an induction
  the provers cannot instantiate.
- The four findings, which are counterexamples.

## Not modelled

Statistics apart from the two store counters; the text of INFO and of error messages;
`Parser::reset` and `Registry::add`, which the programs do not call; the command line and the
rendering of `novacache-cli`; the server's `main` with its signals; the benchmark; connecting and
binding. Within the modelled parts: a wall clock that steps back, `abandon()` (tests only), a
failing append or fsync of a mutation (it ends the process; of a job run on the I/O thread it
ends `run()`), the order of destruction after `run()` throws, the limit of 64 events per `wait`,
failing kevent calls, errors of opening or reading the snapshot file at the start, which
`SnapshotStore::read` treats like a missing file (`snapshot.cpp:173-196`), so that the server
would start from the log alone, the clock advancing between the readings that `expire_at` makes
under its lock (`store.cpp:251-262`), the branch of `write_connection` for a `send` that returns 0
(`server.cpp:411-415`), which it does not for a non-empty output, replies lost because
the server closes a socket with unread input, a header write cut off after its magic, and the directory entry of a newly created log, which is
never fsynced.

## Plan

1. Server: an abstract connection whose replies come in request order, as a refinement;
   composition with ThreadPool instead of the queue; jobs that fail.
2. DiskFormat and Resp without recursion, as functions over positions, so that round trips of
   single fields can be stated as lemmas.
