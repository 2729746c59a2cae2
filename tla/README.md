# Rusdis in TLA+

A verification development of Rusdis (`src/`), a small Redis-like server in
async Rust. It holds TLA+ modules translated from the source, TLC
configurations that check them on small instances, and TLAPS proofs of the
properties that matter most for every value of the constants.

Source references are to `src/src/*.rs`; `main.rs:518` is line 518 of
`src/src/main.rs`.

## 1. The system

One process, one tokio runtime (multi-threaded), one task per connection.

| component | source | state | operations |
|---|---|---|---|
| Start-up | `main.rs:46-160`, `cli_parser.rs` | `ARGS` | parse options; become a replica and connect to a master; load the RDB file into a new `Admin`; accept connections |
| Client connection | `handle_commands`, `main.rs:307-427` | local `is_multi`, `queue` | read a chunk, parse one value, dispatch: `MULTI`, `EXEC`, `DISCARD`, `PSYNC`, anything else |
| Commands | `execute_multi_commands`, `main.rs:454-677` | the map, local `res` | `SET GET INCR KEYS PING ECHO CONFIG INFO REPLCONF` |
| Key space | `data.rs:56-143` | `ADMIN` (a mutex), inside it one `Arc<Mutex<HashMap>>` per database | insert, get with lazy expiry, entry, keys |
| Feed and pipes | `build_replica_pipe`, `main.rs:429-452` | `BROADCAST_CHANNEL` (a ring of 100), `SLAVES_COUNT` | send under the map's mutex; subscribe, count in, forward |
| Replica link | `connect_master`, `main.rs:162-305` | the socket's read buffer | handshake, then read, parse, execute, count the offset, answer `GETACK` |
| Replication bookkeeping | `data.rs:9-54` | `REPLICATION_INFO` (a lock): role, id, offset | role at start-up, offset on a replica |
| Wire parser | `parser.rs` | none | `parse`, `parse_array`, `parse_multi_array` |
| Command parser | `command_parser.rs` | none | an array of strings to a `Command` or a refusal |
| RDB reader | `rdb_file_reader.rs` | none | bytes to data sets |

How they interact: connection tasks share the map through its mutex, the role
through `REPLICATION_INFO`, the number of replicas through `SLAVES_COUNT`, and
send every `SET` of a master on `BROADCAST_CHANNEL`. A connection whose other
end sends `PSYNC` turns into a pipe task that forwards what it receives from
the channel. A replica's link is one more task that feeds what it reads into
`execute_multi_commands`.

What is hard about it: the interleaving of tasks at their suspension points (a
`SET` reads the clock, waits for the map, inserts, waits for two more locks and
only then broadcasts); the moment a replica starts to listen against the moment
it is counted; the resets of a transaction's queue on three different paths;
failing commands inside a batch; entries that are dead but still in the map; a
chunk of bytes that holds half a message or three; a value that looks like the
beginning of a message; a pipe that falls a hundred messages behind; a start-up that loads a file while the replica link is already
running.

What makes each component correct:

- Connections: no command leaks into or out of a transaction; the answers of a
  batch stand at the places of its commands, and a client can tell so; a batch in
  service comes to its end.
- Commands and key space: every command takes effect at one instant between its
  request and its answer; a number never leaves `i64`; a dead value never comes
  back.
- Feed and pipes: replicas are sent the `SET`s in the order the map took them,
  without a gap; a counted replica misses nothing; a replica that asked is
  eventually counted.
- Replica link: what a replica applies is a subsequence, in order and without
  duplicates, of what was sent, and all of it as long as it keeps up.
- Parsers and reader: what they return is what the text means, and they return.
- Start-up: a process comes to listen or ends; it takes exactly its snapshot off
  the stream; what it loads is all the file says or nothing.
- Locks: nobody waits in a circle, and an offset that is reported counts every
  `SET` before it.

## 2. Modules

| module | models |
|---|---|
| `Keyspace.tla` | the map and what one command does to it: constant operators only. `Entry` is `StringData`, `Data` a `Database`, `AfterSet`, `AfterGet`, `AfterIncr`, `GetReply`, `IncrReply`, `KeysReply` are the arms of `execute_multi_commands` between lock and unlock |
| `Server.tla` | a server after start-up: connection tasks, transactions, the arms with their locks, replicas up to the point where their pipe is counted. Also the properties and the refinement mapping |
| `KVStore.tla` | the promise: an atomic key-value store with a feed, no locks |
| `Locks.tla` | who waits for whom: the map's mutex, `REPLICATION_INFO` and `SLAVES_COUNT` with their queues, and the tasks that take them in the order the code does |
| `Resp.tla` | `parser.rs`, the `SET` arm of `command_parser.rs` and `generate_resp`, on texts: operators only |
| `Commands.tla` | the other arms of `parse_command`, on texts: operators only |
| `Session.tla` | one connection of a server on the text itself: chunks, the first value of each, answers, `PSYNC` with its snapshot and the feed behind it |
| `Startup.tla` | a process from its command line to its listener, as the other end of a `Session` with its master |
| `Wire.tla` | what a replica makes of a piece of the stream, as a function of the two places where it was cut: constant operators only |
| `Stream.tla` | the loop of `connect_master` on the text itself, one chunk at a time; compares `Resp` with `Wire` |
| `Replication.tla` | the ring, the pipe tasks, the sockets and the replicas, with `Wire` in the place of the parser |
| `Relay.tla` | the promise: a replica executes a part of the feed, in order and at most once |
| `Rdb.tla` | the file format from both sides: `decode_length`, `decode_string` and `parse_data`, the bytes Redis writes, and what it may have to write (`IsSnapshot`): operators only |
| `RdbReader.tla` | `read_rdb`, one step per turn of its loop and per pair |
| `Databases.tla` | `Admin`: the maps, the references to them, the current database |
| `Preload.tla` | `RdbReader` and `Databases` composed: from the file to the maps, and writes to them |
| `MCServer`, `MCLocks`, `MCStream`, `MCReplication`, `MCStartup`, `MCPreload` | the values TLC gives the constants |
| `ServerProofs` | theorems and proofs about `Server` |
| `ReplicationProofs` | theorems and proofs about `Replication` and `Wire` |
| `SequenceProofs` | lemmas the next four share: counting up, recursive functions, texts written part by part |
| `SnapshotProofs` | theorems and proofs about `Rdb`, `RdbReader` and `Preload` |
| `RespProofs` | lemmas about `Resp`: lines, numbers, and what `parse` makes of a request of plain words |
| `StreamProofs` | theorems and proofs about `Stream` |
| `StartupProofs` | theorems and proofs about `Session` and `Startup` |
| `LocksProofs` | theorems and proofs about `Locks` |

### State and steps of `Server`

| in the model | in the code |
|---|---|
| `data`, `holder` | the `HashMap` of the current database and who holds its mutex |
| `pc[c]` | where the task of connection `c` is suspended (the list stands at `Where`) |
| `isMulti`, `queue` | the locals of `handle_commands` |
| `batch`, `done`, `res`, `expiry` | `commands`, how many are through, `res` and `expiration` in `execute_multi_commands` |
| `feed`, `joinedAt` | everything ever sent on `BROADCAST_CHANNEL`, and where a receiver's cursor stood when it subscribed |
| `slavesCount` | `SLAVES_COUNT` |
| `now` | `SystemTime::now()` |
| `replaced`, `applied`, `countedAt`, `asked` | history, read by no guard: what `insert` returned, the `SET`s inserted so far, how many there were when a pipe was counted, when a batch came in |
| `issued` | counts requests, only to bound TLC |

A step is what a task does between two suspension points that matter. `GET`,
`INCR` and `KEYS` lock, work and unlock without suspending in between: one step
each. `SET` is four: the clock (`SetDeadline` or `SetRefused`), the insert under
the mutex (`SetInsert`), and, the mutex still held because its guard lives to
the end of the arm (`main.rs:518-528`), the role, the count and the broadcast
(`SetPublish`). The reading of the count and the send are one step: the count
never falls and the role never changes while the server listens, so another
replica that is counted in between cannot change the outcome of a test that was
true; if it makes a test true, the pair orders as if the replica had come
before it or after it.

Data abstraction: a string is the number `parse::<i64>()` makes of it or `Text`;
a `KEYS` pattern is the set of keys its expression matches; a request is one
parsed value; a reply is its kind and its content, not its bytes. Of its bytes
only the end counts: an error is `Err`, or `Torn` where the code leaves out the
line break (`main.rs:508` and `553`), and an `INFO` without a section leaves
`Garbled`, a bulk string with no end (`main.rs:639`).

### From characters to positions

`Resp` follows the parser character by character, `"cr"` and `"lf"` being one
character each. An `Err` is `Bad`, an index or slice out of bounds `Panic`.
Texts are too large a state for a model of several tasks, so `Wire` says the
same in closed form: a place where TCP cuts a message is a point `<<a, w>>`
(argument and place in it), a place in the stream a message and a point, and
`Digests(text, from, to)` holds what the replica can make of the piece between two
places. `ChunkDigest` is the link between the two: TLC compares them for every
piece of a few streams, and `ChunksAreDigested` proves it for every piece of
every stream of bare words. In words, for a piece with no star before a digit in
a key or value, which has one outcome (`Digest`), if it

- starts and ends between messages: every `SET` in it is executed;
- ends inside a message: the cut message is left out, or the whole piece is
  refused (behind a `$`, before one, or between cr and lf of a header), or the
  task panics (inside an argument, or behind a lone `*`), or, in a `SET` with
  `PX` cut behind the value's last character or in the header of the word `PX`
  before its line break, the `SET` is executed without its deadline;
- starts before a `$`: the rest of the message and all of the next are gone;
- starts anywhere else inside a message: the whole piece is refused.

The parser takes each `*` with a digit behind it for the beginning of a message
(`parser.rs:35`), and a client may `SET k 2*3`. A message therefore carries the
arguments that hold such a star (`stars`). A piece that starts between messages
and holds one (`Starred`) ends the task: it is split inside the argument, and the
part in front of the star is shorter than its length announced (`parser.rs:117`).
This happens to whole messages on a connection that loses nothing. A piece that
starts inside a message and holds one may get back in step at any message or not
at all, which depends on digits `Wire` does not have; `OutOfStep` allows all of
it.

`Stream` has two steps, `fill_buf` and `parse_multi_array`, because the
execution that follows is `Replication`'s.

### State and steps of `Replication`

| in the model | in the code |
|---|---|
| `feed` | everything ever sent on `BROADCAST_CHANNEL`, a message being `[px, stars]`; the ring is its last `RingSize` messages |
| `pipe[r]` | the task of `handle_commands` and `build_replica_pipe` that serves `r`; `sync`, `piped` and `pipe` are `Server`'s |
| `cursor[r]` | the position of `rx` |
| `wire[r]` | what was written to the socket, by its place in the feed |
| `link[r]` | the replica's task: in the handshake, reading, between executing a `SET` and counting it, at an end |
| `at[r]` | how far it has read |
| `pending[r]` | the rest of `array_vec` |
| `store[r]` | the `SET`s from the link that made the map `ADMIN` points to |
| `offset[r]` | how many `SET`s went into `master_repl_offset`; what each adds is in `Stream` |
| `loaded[r]` | `main` has passed `main.rs:104-132` or has no file to load |
| `joinedAt`, `frontier`, `calm` | history, read by no guard: the feed's length at the subscription, the last message executed, whether nothing has gone wrong that could lose a message |
| `up` | the master runs |

The master's side of the handshake is `Psync` (`main.rs:334-369`), the replica's
is `StartReading`, whose choice is how much of the stream the handshake's
`BufReader` held when it was dropped (`main.rs:162-251`). `Forward` is `recv`
and `write_all`: the replica may read any part of what is written, so the two
need not be told apart. `Lag` is a `recv` that fails with `Lagged`: tokio moves
the cursor to the oldest message it has, and `if let Ok` passes over it. The
ring of the code is 128 (`channel(100)`, rounded up by tokio). A `SET` on the
replica is one step, `Execute`: other tasks see its insert only, and a `SET`
that takes the map before and inserts after `LoadSnapshot` replaced it is lost
like one before it. A replica's own clients are not modelled.

`LoadSnapshot` is `main`, going on after `connect_master` has spawned the link's
task, replacing `ADMIN` with what the file holds.

### State and steps of `Session` and `Startup`

| in the model | in the code |
|---|---|
| `script`, `sent` | what the other end sends, and how much of it is written. For a replica the script is the handshake of `connect_master` |
| `toServer`, `toClient` | the two directions of the socket, as text |
| `server` | the connection's task: reading, turned into a pipe, closed |
| `executed` | the commands it executed; history but for the answers they were given |
| `feed` | history: what the pipe has forwarded |
| `apart`, `served` | history: whether every chunk so far was one whole request |
| `options` | `ARGS`: `--replicaof`, `--port`, and whether there is a file |
| `main` | where `main` is, from `start` to `listening`, or how it ended |
| `role`, `need`, `link` | `REPLICATION_INFO`'s role, the announced length of the snapshot, the task `connect_master` spawns |

`Serve` is one turn of the loop of `handle_commands`: `fill_buf` returns any
part of what has arrived, the first value of it is parsed, and it is executed
(`Execute`), passed over (`Ignore`), answered with the snapshot (`Sync`) or ends
the task (`Disconnect`). The texts are those of `Resp`: words without case, each of
two pieces, so that a cut can fall inside one; a replication id has
`IdLength` characters, three for the forty of the code. `Session` is
also run with a plain client that pipelines its requests (`main = "client"`).
What commands do to the map, and transactions, are `Server`'s.

`Startup` has one action per stretch of `main` and `connect_master` between two
suspension points. Every `?`, `unwrap` and early return on the way is an action
or a branch of its own: an address without a blank (`NoAddress`), a connection
that is refused, a write that fails, an answer that is not the one expected, a
stream that ends in the line, the length or the snapshot, a file that cannot be
read, a port that is taken.

### State and steps of `Locks`

| in the model | in the code |
|---|---|
| `pc[t]` | which `.await` the task of a client, or of the replica's link, stands at |
| `held[l]` | the guards of lock `l` that live, for reading or writing |
| `queue[l]` | the tasks tokio's semaphore has queued for `l`, first in, first out |
| `inserted`, `offset` | the `SET`s the link has executed, and those of them counted in `master_repl_offset` |

Asking for a lock and being let in are two steps (`Asks`, `Grant`), because
that is where a queue matters: a writer that waits keeps later readers out.
Which guards live how long decides who waits for whom: a `SET` keeps the map
through the tests of `main.rs:523-524`; the guard of the role is a temporary of
the left operand of `&&` and gone before the count is asked for (`AskCount`);
the task that answers `PSYNC` keeps `REPLICATION_INFO` while it writes the
`FULLRESYNC` line (`main.rs:337-350`), for as long as its client likes.

### State and steps of `RdbReader` and `Preload`

`written` is what Redis put into the file and `bytes` as much of it as there is:
a file is a prefix, of any length, of one that Redis writes (`File` in `Rdb`).
`phase`, `pos`, `aux`, `datasets`, `pairs` and `left` are the locals of
`read_rdb`. A turn of its loop is one step, and so is each pair of a data set.
A number written as such is taken for unsigned and a byte for a character
(`AsChars`), as in the code; the properties say what was written in those terms
(`Meaning`).

`Databases` keeps apart what Rust keeps apart: a database is a reference,
`vec![Database::default(); n]` is one map referred to `n` times, and each data
set puts a map of its own in its place. `Preload` starts with the empty `Admin`,
replaces it if the file can be read, and then lets callers write and select.

### Left out of `Server` on purpose

- `ADMIN`'s mutex: held for one expression, never across an `.await` once the
  server listens; and clients cannot change the current database.
- Writing replies: `writer.write_all(..).await` holds no lock, except in
  `PSYNC`; a client that never reads stops its own task, which is what the
  missing fairness of `Return` says.
- `REPLICATION_INFO` and its queue: `Locks` has them.
- More than one request in a chunk, or part of one: `Session` has them.

## 3. Runs

| run | configuration | what it shows |
|---|---|---|
| `sessions` | 2 connections, one of which may turn into a replica, every kind of command, 1 key, clock 0..2, 3 requests, with fairness | `TypeOK`; `BatchesFinish`: a batch in service ends; `PipesForm`: a replica that asked is counted; `NoRevival`: a dead value does not come back; `AtomicStore` |
| `transactions` | 2 connections, two commands that do not commute and two that fail, clock 0..1, 7 requests | `TransactionOwnsQueue`: no command leaks into or out of a transaction; `AnswersLineUp`: the answers stand at their commands' places, and up to where a client can tell; `AtomicStore` |
| `feed` | 3 connections, 2 of which may turn into replicas, 3 different `SET`s, 5 requests | `FeedFollowsStore`: the feed is in the map's order, without a gap; `CoveredOnceCounted`: a counted replica misses nothing; `Inductive`; `AtomicStore` |
| `locks` | 3 clients and the link, 2 `SET`s of the link, both roles, with fairness | `TypeOK`; `AckCountsAll`; `NobodyStuck`; `ServedOnMaster`; `ServedOnceAnswersAreRead` |
| `stream` | streams of two or three `SET`s with and without `PX`, words of none, one, two and ten characters, stars before a digit in keys and values, every cut | `ChunkDigest`: `Wire` says what the parser does; `OffsetFallsShort`: what the offset is short of; `FirstRequestOnly`; `SetIsUnderstood`: what `generate_resp` writes is parsed as the `SET` it was made of |
| `replication` | 1 replica, 3 `SET`s, with and without `PX` and with a star in the value, a ring of 2, the cuts of `ManyCuts` (below), with fairness | `TypeOK`; `Gapless`; `InOrder`; `StarredNeverStored`; `RelaySpec`; `Arrives` |
| `startup` | 6 command lines, 8 scripts of plain clients, 2 `SET`s behind the handshake, every cut, with fairness | `TypeOK`; `NothingMadeUp`; `UnderstoodAsMeant`; `InStep`; `SnapshotExact`; `StartupEnds` |
| `snapshots` | 10 files, each cut anywhere; 1 write, 5 database numbers | `TypeOK`; `AllOrNothing`; `RefusedForAReason`; `CurrentExists`; `Preloaded`; `TurnsAdvance`; `WritesStayApart` |
| `headers` | expected violation | `SetIsUnderstood`: a key that looks like a header is refused (`README.md:9`) |
| `delete` | expected violation | `DelDeletes`: `DEL` is announced (`README.md:10`) and refused |
| `expiry` | expected violation | `IncrStartsAfresh`: `INCR` counts on from an expired value |
| `readme` | expected violation | `ReplicaofPort`: `--replicaof 6379`, as `README.md:62-65` shows it, ends the process (`main.rs:72-76`) before it has tried to connect |

What some of the properties say:

- `AnswersLineUp`: whatever fails in a batch, each command has left one reply and
  it is an answer to that command. Two errors have no line break at their end, the
  refusals of `SET` (`main.rs:508`) and of `KEYS` (`main.rs:553`), so to a client
  the reply behind one is the rest of the error: `*2`, `-ERR Invalid Regex
  Format`, `+PONG` is one reply. The property says so: a client that counts the
  replies it finds (`Heard`) takes each for the answer to its command
  (`Understood`) up to the first of these errors, or to an `INFO` without a
  section, and none behind it. Errors that end their line, that of `INCR`, do no
  harm.
- `NothingMadeUp`: however TCP cuts and joins, a server executes what the client
  sent, in its order and at most once. What may be missing are arguments at the
  end of a command that can do without: a `SET` that arrived before its `PX` did
  lives for ever. `UnderstoodAsMeant`: requests that arrive one by one are each
  executed as meant, and refused ones leave no trace.
- `InStep`, `SnapshotExact`: replica and master agree on which answer belongs to
  which request, and on where the snapshot ends and the feed begins, though
  nothing but a length separates them.
- `StartupEnds`: a process comes to listen or ends, with two exceptions, which
  are the two ways in which a master says nothing (`main.rs:327`): the port is no
  `u16`, or the master read a request in pieces. Then both ends wait for ever.
- `AckCountsAll`: the offset is never ahead of what was executed, and what the
  link answers to `GETACK` covers every `SET` before it.
- `NobodyStuck`: the tasks that wait never wait for one another in a circle: some
  lock admits its next task, or a task has been let in and goes on. The one
  exception is a link that waits to count a `SET` behind a `PSYNC` answer its
  client does not read.
- `ServedOnMaster`: on a master every task that waits for a lock gets it, though
  clients that sent `PSYNC` never read. `ServedOnceAnswersAreRead`: on a replica
  this takes clients that read: one that does not stops the link, behind the
  link every reader of `REPLICATION_INFO`, and behind a `SET` everybody else.
- `AllOrNothing`: a file that was cut short never passes for a smaller snapshot.
  `RefusedForAReason`: a whole file of strings is never refused. `TurnsAdvance`:
  the loop takes a byte or goes on to a later phase. `Preloaded`: what a database
  holds is what the file says or what a client wrote.
- `WritesStayApart`: only databases that the file left empty share a map.

Bounds. Two connections are enough to interleave any two arms; three for a
writer and two replicas that join at different times, so that a subscription
can start in the middle of the feed. One key is the worst case for conflicts;
the feed uses two so that order across keys counts. `IntMax = 2` puts
saturation one or two `INCR`s away. `MaxTime` bounds the clock so that a
deadline of 1 can be ahead, reached and passed; `ClockMax` is what a
`SystemTime` can hold, and one `SET` asks for more. `MaxRequests` bounds what
clients send: with 3 a transaction of one command and another connection's
command, with 7 two transactions that overlap, or one of up to five commands in
which any may fail. The initial map is empty or holds a number about to
expire or a text, as an RDB file could have left it.

In `locks` three clients are a writer, a reader and one that keeps its `PSYNC`
answer, the shape of every circle the three locks allow; the link's `SET`s are
bounded by two, one that is counted while the next is in hand. Clients send as
many requests as they like.

A piece of a stream that starts before a `$` swallows what is left of its
message and the next, so three messages are enough for a piece to start in one,
swallow another and reach into a third; which of the messages carry a `PX`
matters, so the streams have them in every place. A word of one character has
no inside, one of two has; one of ten has a header of two digits; the second character is a digit, which is what the
parser looks for behind a `*`. In `replication` three messages overrun a ring of
two; `ManyCuts` are the line in front of the arguments, the places in front of and
inside the first word, and the value and the word behind it, where a cut loses a
deadline and where the star of `EveryKind` stands.

In `startup` the six command lines are every combination that takes another
path: a replica or not, an address with and without a blank, a port that is
given, is left out, is too large or is no number, a file or none. The scripts
hold every arm of `parse_command`, with missing, unknown and ill-typed
arguments. The ten files of `snapshots` hold every form of a length, of a number
and of a deadline, a database with a number that is not its place, more
databases than sixteen, and what the reader does not know; the database numbers
selected are a filled one, the last of sixteen, and those around seventeen.

Deadlock is checked for `Server`, `Locks` and `Preload`. `CHECK_DEADLOCK FALSE`
stands only where the system really stops: `Stream` ends with its text,
`Replication` with the last message or with the master, and a process of
`Startup` with its exit, or it listens and nobody has anything left to send.

Fairness (`Fairness` in `Server`): weak fairness for a task inside
`execute_multi_commands` and for the tasks of `PSYNC`, because the runtime polls
every task that is ready and a local lock is awaited, not tried; strong fairness
for taking the map's mutex, because tokio's mutex queues its waiters first in,
first out, so that a task whose turn keeps coming and going still gets it.
Nothing for clients: `Receive`, `HangUp`, `Return` are not fair, and the
liveness properties hold without them. `PipesForm` needs a socket that takes
the RDB payload, 88 bytes after a handful of replies.

In `Replication` the pipe's task, the link's task and `main` are weakly fair,
each as one task (`FairSpec`): once one of them can go on it can until it does,
and the runtime polls it. Nobody must connect, send or end, and TCP may cut as
it likes. A pipe that is always overrun still goes on, only `calm` ends.

In `Startup` `main` and the master's task are weakly fair, in the same sense;
nobody must write to the feed, close, or end. In `Locks` a lock lets in whom it
admits (`WF` of `Grant`, tokio's semaphore wakes the task at the front of its
queue, and the queue is in the model, so no strong fairness is needed) and a task
that was let in is polled (`WF` of `Proceed`). Nobody must send a request, and no
client must read its answer: `EndReply`, `Accept` and `Ask` are not fair.

`RelaySpec` is a refinement too: whatever the ring and the cuts do, a replica
executes a part of the feed in the order of the feed and nothing twice.
`Gapless` says what is lost as long as `calm` holds: nothing, and `Arrives` that
what was sent then comes to be executed, unless the master ends. Five things end `calm`: a chunk that ends
inside a message; a key or value in it that holds a star before a digit; a pipe
that the ring overran; a handshake that read some of the feed; a snapshot that
replaced a map with `SET`s in it. For the streams `Wire` describes these are all;
section 6 lists what else an argument may hold.

The second of the five is a fault of the code and needs no disturbance: after
`SET k 2*3` the master goes on as if nothing had happened, and the task of every
replica that reads the message panics. `StarredNeverStored` states the
consequence: no replica ever stores such a `SET`, however the stream is cut. A
chunk that starts between messages and holds one leaves the link `stopped`
(`ReadChunk`), so nothing sent later is stored either.

`AtomicStore` is the refinement: `Server` implements `KVStore` under the mapping
that hides the `SET` between insert and broadcast (`Visible` shows the map with
the replaced entry, `AnswersOf` leaves its answer out). So clients and replicas
may think of each `SET` as taking effect in map, answer and feed at once, with a
deadline counted from some moment while the request was in service.

Every property has a mutant: a slip of one definition that TLC must find with
that property (the operators named `...Unguarded`, `...KeepingQueue` and so on).

## 4. Proofs

`ServerProofs` proves, for all sets of connections, keys, requests and initial
maps and for both roles, from `KeyspaceAssumption` and `ServerAssumption` only:

| theorem | property |
|---|---|
| `Invariance` | `Inductive` |
| `TypeCorrect` | `TypeOK` |
| `TransactionsIsolated` | `TransactionOwnsQueue` |
| `FeedInStoreOrder` | `FeedFollowsStore` |
| `CountedReplicasCovered` | `CoveredOnceCounted` |

None of the properties is inductive alone. `Inductive` adds:

- `LockDiscipline`: the mutex is held by exactly the task in `publish`. Without
  it a second `SET` could slip into the critical section.
- `Workload`: a task in `insert` or `publish` has a current command and it is a
  `SET`; an idle task left nothing behind. `TypeOK` needs it, since the message
  and the entry are made of the current command.
- `InFlightIsLast`: the `SET` in the critical section is the last of `applied`,
  which is why appending it to the feed keeps the feed the tail of `applied`.
- `OnlyHeardIsFed`: once something was sent, everything is sent. Without it a
  `SET` that is not sent would leave a gap. It holds because the count never
  falls: the loop of a pipe has no exit. A fix that lets replicas be counted out
  has to give up this form of `FeedFollowsStore`.
- `PipesAttached`: a subscription starts within the feed, and a counted pipe
  means a positive count.

The proof has one lemma per conjunct; three lemmas on what actions leave alone
keep the case analysis small. `Inductive` is also checked by TLC (run `feed`).

`ReplicationProofs` proves, for any set of replicas and of messages, any size
of the ring and any places where TCP cuts, from `RingAssumption`,
`CutsAssumption` and `MessagesAssumption` only:

| theorem | property |
|---|---|
| `Ordering` | `InOrder` |
| `ReplicationTypeCorrect` | `TypeOK` |
| `Refinement` | `RelaySpec` |

`Refinement` needs to know that the `SET` executed next lies behind the
frontier in the feed, and the frontier moves by what the replica executes, far
from where the pipe put the messages on the wire. `InOrder` follows a message
all the way, one conjunct for each place it can be:

- `WireInOrder`: what is on a wire is increasing and below the cursor of the
  pipe, and nothing is on it before the pipe subscribed, or subscribing could
  move the cursor back over it. `Lag` moves the cursor too, only forward.
- `ChunkInOrder`: the commands of a chunk are increasing and come from what the
  replica has read, and one that is not whole has a deadline to lose. This
  is where `Wire` comes in: `DigestIsOrdered` shows for every text and every two
  cuts that the commands of a piece lie between them and are in order.
- `FrontierBehind`: what is left of the chunk and all that is not read yet is
  ahead of the frontier, which itself is below the cursor. The command that is
  executed and not counted yet is still at the head of the chunk; `FirstLeft`
  leaves it out.

`InOrder` is also checked by TLC (run `replication`). The proofs rest on `Wire`;
that `Wire` says what the parser does is `ChunkDigest`, which `ChunksAreDigested`
proves of `Resp` for bare words, and the run `stream` checks for words with stars.

From the same assumptions `ServerProofs` also proves:

| theorem | property |
|---|---|
| `AnswersStayInLine` | `AnswersLineUp` |
| `DeadNeverReturns` | `NoRevival` |
| `ServesAtomically` | `AtomicStore` |

`Inductive` says nothing of what a `SET` carries from one of its four steps to
the next. `StoreInv` adds it, for every connection: `InService`, the deadline was
counted at an instant between the arrival of the batch and now, and, while the
map is locked, the map holds the entry just inserted and the last answer is its
`Ok`; `LineUp`, as many answers as commands served, one more in `publish`, each
fitting its command at some instant between the arrival of the batch and now.
`AnswersStayInLine` is then about what a client makes of them: an answer is heard
if the one before it is whole, so as long as none before the i-th is torn or
garbled the first i are heard and the i-th is the i-th of them
(`UnderstoodBehindWhole`); behind one that is, either nothing is heard or fewer
than i. `Fits` ties this to the commands: which of them left such an answer is
decided by the command and, for a `SET`, by the clock (`SpoilsAsFits`). The
refinement has one lemma per kind of step: a
constant answer, a command on the map, a refused `SET` and a broadcast each
perform one command of `KVStore`; an insert stutters, because the mapping hides
it until the broadcast; a request submits and an answered batch finishes.

`ReplicationProofs` also proves `NothingElseLoses` (`Gapless`) and `StarredAreLost`
(`StarredNeverStored`), from the same assumptions. `InOrder` bounds where messages can be, not that they are
all there. `Lossless` says it for a replica as long as it is `calm`: its offset is
the place on the wire behind which nothing was counted yet. Before it lies what
was executed, from it on what the last chunk left over, then what was not read;
and the wire is the feed since the subscription. `WholeChunk` is what it takes
from `Wire`: a piece from the start of one message to the start of another is
understood in full, if it has no star in it. `NoneStarred` is the invariant of the
second: no command still to be executed comes from a message with a star, and
none that is stored. It holds because no command of a digest is of such a message
(`DigestsAreUnstarred`).

`SnapshotProofs` proves, the first two for every sequence of bytes, the others
for every set of snapshots that Redis may have to write (`SnapshotsAreRedis`:
texts of bytes whose length fits the form it is written in, numbers that fit
their width, deadlines of four or eight bytes) and every place where the file is
cut:

| theorem | property |
|---|---|
| `ReaderTypeCorrect` | `TypeOK` |
| `ReaderAdvances` | `TurnsAdvance` |
| `SnapshotsAreWhole` | `AllOrNothing` |
| `SnapshotsAreTaken` | `RefusedForAReason` |

The first two are about `AnySpec`: `RdbReader` from any sequence of bytes at all, a
Redis file, a damaged one or something else; `RedisFilesAreRead` carries the first
over to the specification that the run checks. Each decoder gets a lemma that a
value it finds ends behind its first byte and not beyond the file. The last two
compare the reader with the writer of a whole file, of any
length. `Flattened` says at which offset each part of a file stands that is
written part by part (`SequenceProofs`); `PartOf` that the part is
there as far as the file goes; and for every kind of part a lemma says that its
decoder `Reads` it: it finds the value that was written and goes on behind it if
all of the part is there, and fails if not (`LengthReads`, `StringReads`,
`AuxReads`, `PairReads`). The arithmetic is that a number taken apart into bytes
(`FourBytes`, `EightBytes`) and put together again in the right order is the
number. With these the inductive invariant is short: `Progress` says that the
reader stands exactly at the beginning of an auxiliary field, a data set, a pair
or the end mark, and that what it has read so far is what the parts before it
mean. It holds for snapshots whose sets have sizes and whose strings are known
up to there; on the others the reader stops at the first string it does not know.

`SnapshotProofs` also proves `CurrentAlwaysExists` (`CurrentExists`) and
`OnlyUnfilledShare` (`WritesStayApart`) for every file and every index, and
`SnapshotsAreLoaded` (`Preloaded`). The invariant of the first two is `Referring`:
the databases are the references that `Admin::new` made of the data sets loaded,
and every one of them leads to a map. For the third, `LoadInv` adds that what was
loaded is all the reader read (`Taken`), and what the maps hold are the pairs of
the data sets, each key with its last, overwritten by clients only (`Grown`).
Together with `SnapshotInv`, which holds because every step of `Preload` is a
step of `RdbReader` or leaves it alone (`ReaderReads`), that is `Preloaded`.

Data of any length takes induction, and the library's rules for it take an
operator as a parameter, which the provers here cannot instantiate. `SequenceProofs`
does without: every set of numbers that is not empty has a least one
(`LeastNumber`, from the library's theorem about well-founded relations), so a
set that has 0 and, with each number, the next one, has all of them
(`StepByStep`); the set is then the set of numbers for which the claim holds. The same gives a
recursive function its equation (`JoinsExist`, `IterationExists`).

`StreamProofs` proves of the loop of `connect_master`, for streams of any length,
words and numbers of any length, and chunks that end anywhere:

| theorem | property |
|---|---|
| `FirstRequestsAreRead` | `FirstRequestOnly` |
| `PlainSetsAreUnderstood` | `SetIsUnderstood` |
| `OffsetsFallShort` | `OffsetFallsShort` |
| `ChunksAreDigested` | `ChunkDigest` |

The hypothesis of the first two is `PlainStreams`: the streams are sequences of `SET`s whose words
have no line break and do not look like a header (`$3`, `*1`). The streams of the
run `stream` are such; the run `headers` violates `SetIsUnderstood` with one that
is not, so the hypothesis is what decides. `RespProofs` reads a request the
way the parser does. `LineByLine` says that the lines the parser splits off are
the ones that were written; `DecimalFacts` and `DecimalIsInt` that a number is read
as it was written; `AllWords` that a word is two lines, and `ElementsAreBulks` that
gathering the elements stops behind the last word and never looks at what
follows. `RequestRead` puts these together: what `parse` makes of a request of
plain words, with anything behind it, is the array of these words. What is left is
to know where a chunk begins: `Reading` says that what the loop took is a piece
of the text, from `begun` on, and `FlattenPrefix` and `CutBehind` that the stream
from the start of a request is this request and the rest.

`OffsetsFallShort` is about `parse_multi_array`, which takes a chunk of any number
of messages apart where a `*` stands before a number. So its hypothesis,
`StarlessStreams`, adds that no word has such a place; with one the loop splits
a message in two and the task ends, which `OffsetFallsShort` leaves aside. The loop is followed one character at a time
(`TurnsAreTaken`, `TurnOver`): inside a message nothing happens, at the first
character of each but the first the message before it is parsed (`NextTurn`), and
at the last character the rest (`TurnAtEnd`), after which the loop has gathered
the messages in order, whole (`ManyRead`). Each becomes one command
(`ManyCommands`). The lengths are sums over the messages on both sides, what
`generate_resp` wrote (`ArrayLength`) and what `connect_master` adds
(`CountedIs`), and they differ by nine for each message whatever the words are
(`TextLength`). That a chunk with `Start` at both cuts is one of whole messages is
`StartsWhereMessagesDo`; `Parsed` is the invariant that `made` is this reading of
the chunk.

`ChunksAreDigested` is about all chunks, cut anywhere, and is what makes the
results on `Replication` results about the parser, as far as words are bare. Its hypothesis, `BareStreams`,
is narrower than what the header of `Wire` says: no key or value has a `*`, `$`, `+`, `:`, cr or
lf in it (any may be empty, and a deadline is any number). So it says nothing of
words with stars; for those there is the run `stream`. With one of the others
in a word a cut in front of it would begin a value that no one wrote, which `Wire`
has no point for. Of bare words nothing is starred, and `Digests` has one member
(`BareOutlines`, `OutlinesDigest`). The argument has three parts:

- Where the chunk is taken apart. The loop splits a text at each `*` with a digit
  behind it; `AreSegments` says where those are and what each piece parses to,
  and `SegmentsRead` that the outcome is the first failure, the values in order,
  or a panic when the text ends with a `*`. In a stream of bare words those
  places are the beginnings of its messages (`StarsAre`, `DividedSo`).
- What each piece is read as. A whole message is read whatever follows it
  (`WholeSegment`). For the one the chunk ends in, `CutMessage` goes through the
  points of a message: `PieceOfHeader` and `PieceOfData` say what the lines of a
  cut string are, `PieceGathers` what they add to the elements (nothing, the
  string, `Bad` or a slice out of bounds), `CutInWord` what becomes of the array. For
  the one it begins in, `FromStartTells`, `ElsewhereTells` and the lemmas from
  `WordInText` on distinguish the start of a message, the start of a word and
  any other place.
- What is executed of them. A message with all its words is its `SET`, one
  without the last two is the `SET` without the deadline, and any other is nothing
  (`FirstWordsExecuted`), so the commands are those of the digest, in order
  (`DividedCommands`, `ToldOf`).

`ChunkTells` puts the parts together for two places of a text, and `Parsed` and
`Reading` say that the loop's chunk is such a piece.

`StartupProofs` proves of a connection on the text, with a plain client or a
process that starts at its other end:

| theorem | property |
|---|---|
| `NothingIsMadeUp` | `NothingMadeUp` |
| `OneByOneUnderstood` | `UnderstoodAsMeant` |
| `StartupTypeCorrect` | `TypeOK` |
| `HandshakeStaysInStep` | `InStep` |
| `SnapshotIsReadExactly` | `SnapshotExact` |

They hold for any scripts and any ports under the hypothesis `PlainInputs`: a
port is a plain word, in the sense of `StreamProofs` and without a `*` in front
of what may be a number, and so is every word of a request; a request means what
the server makes of all its words and is `short` what it makes of the first of
them (`PlainRequest`). So the first two theorems are about TCP: a chunk of the
text changes nothing about a request but its length. That the arms of
`parse_command` make the right thing of the words is in the scripts of the run
`startup`. Six of its eight scripts are plain, and all of its ports; the two others
have a number in the place of a word. A script has any length, and so has the
feed.

`ChunkRead` (in `RespProofs`) is what they rest on: whatever piece of the text
`parse` is given, it makes an array of it only if the piece begins where a
request does, and then of the first words of this request. A piece that begins
anywhere else begins with no symbol, or with a `$`, or with a `*` that no number
follows. `SessionInv` then says where the server stands: what it has not read is
the end of what was written (`Connected`); the commands executed have increasing
places among the requests, the place of each begins before what was read last
(`InPlace`); and as long as every chunk was one request, the effects of the
requests, one after the other, are what was executed (`OneByOne`).

The handshake takes two more invariants. `Control` relates the place of `main` to
the number of requests it has written. `HandshakeInv` says what the master has
said that was not read yet: at each place of `main` it is one text (`Dialogue`), the
whole of it as long as the connection lives, and a beginning of it (`Said`) when a
reset has cut it. Two facts make it inductive. The places of `InPlace` count:
as many commands as requests were written means that each is executed, so while
`main` waits for an answer only its last request can be (`RequestExecuted`). And
a part of an answer is no answer: without its line feed a simple string is
refused (`NoAnswerYet`), so `main` takes an answer whole or ends. The
`FULLRESYNC` line, the line with the length and the bytes of the snapshot are then taken
off one after the other, by their own line feeds and lengths (`LineTaken`,
`LengthRead`), whatever feed is behind them. `Control` and `HandshakeInv` were
also checked by TLC on the instance of `startup` before they were proved.

`LocksProofs` proves `LocksTypeCorrect` (`TypeOK`: a writer is alone, and no
guard outlives the request it was taken for), `AckCountsAllHolds`
(`AckCountsAll`) and `NobodyIsStuck` (`NobodyStuck`) for any number of clients,
from `LocksAssumption`. None of them is inductive: `Queued` says that a task
waits in one queue, once, for a lock it does not hold, `Guards` which locks it may
hold at each place, and `Counted` relates the link's place to what it has not
counted. `NobodyStuck` also needs to know that whoever waits is in the queue, or
holds the lock already (`Standing`), and who shares a lock (`Shared`). The
argument is then the order of the locks: who holds the count waits for nothing;
who holds the role waits for its client only; who holds the map waits for one of
the two.

Only model-checked:

- liveness (`BatchesFinish`, `PipesForm`, `Arrives`, `StartupEnds`,
  `ServedOnMaster`, `ServedOnceAnswersAreRead`): the prover has no `ENABLED` and
  no fairness;
- requests with arguments that are no bulk strings, in `startup`.

## 5. What is left

- `Server` and `Replication` meet in the feed: `Server` shows that it is the
  map's order and that a counted pipe misses nothing of it, `Replication` what
  becomes of it. They are not composed into one specification whose property
  relates the master's map to a replica's.
- The text of replies: replies are values in `Server` and tokens in `Session`. Of
  where one ends `Server` knows only whether it does, within one batch; that a
  torn error also swallows the first reply to the connection's next request is
  not in the model.
- `ChunkDigest` for words with stars is checked on the streams of the run, not
  proved.

## 6. Not modelled

- `generate_random_string`, error conversions, message text and the unused
  statics carry no state the properties tell apart. `main.rs:679-835` is
  commented out.
- What `README.md:12-14` and `README.md:71-73` announce and the code does not
  have: periodic snapshots, an append-only file, and `DEL` (run `delete`). A
  server never writes a file, so there is no crash and recovery beyond reading
  what Redis left, cut anywhere (`snapshots`).
- The checksum of an RDB file: the code does not look at it. Files of before
  version 7, without database sizes: the reader cannot tell them apart, and
  `AllOrNothing` and `RefusedForAReason` exclude them by `Sized`.
- A replica of a replica: it is answered and never fed; nothing promises more.
- The overflow of `master_repl_offset` (`data.rs:52`), 2^64 bytes away.
- In `Resp` a number is far from 2^31 and a character is one byte; an argument
  that holds a line break is not in any stream. A line that begins with a
  character of several bytes makes `count_qoda` panic, which slices at byte 1
  (`parser.rs:188`); no word of a stream begins so.
- Not in `Wire`: arguments that begin with `*`, `$`, `+` or `:`, a cut inside an
  argument next to such a character, and a star behind which the rest of a
  message reads as a command of its own. What the parser makes of these is in
  `Resp`; the run `headers` is about one of them.
- `Meaning`, with which `AllOrNothing` and `Preloaded` compare, takes a byte for a
  character and a number for unsigned as the reader does. That Redis meant -3
  where the reader has 253 is known from the code (`rdb_file_reader.rs:261-280`)
  and not an error these properties could show. Files with the opcodes of LRU and
  LFU eviction are no snapshots here (`IsSnapshot`): the reader does not know
  them and refuses the file.
- `checked_add` (`main.rs:507`) can only fail where a `SystemTime` is narrow,
  which it is not on 64-bit Unix; `SetRefused` models the branch all the same.
