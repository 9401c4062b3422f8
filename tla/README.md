# ghetto-redis in TLA+

Specifications of the parts of ghetto-redis that are hard to test, the TLC runs
that check them on small instances, and TLAPS proofs of the invariants that
matter most for instances of every size. All of it is translated from the C
sources; the paths below are relative to `src/`.

Contents: [the system](#the-system), [the inventory](#inventory-of-components),
[modules](#modules-and-how-they-correspond-to-the-code), [runs](#runs),
[bounds](#bounds-and-why-they-are-enough), [fairness](#fairness),
[deadlock](#deadlock-checking), [proofs](#proofs),
[disagreements](#where-the-code-disagrees-with-its-own-text),
[what is not modelled](#what-is-not-modelled), [the plan](#plan).

## The system

The server is a set of threads (`NUM_THREADS` is 4), each with a *reactor* (an
epoll loop) and a *shard* (one hash map per database, holding the keys whose
hash modulo the number of threads is the shard's). Every reactor listens on the
same port and owns the connections it accepts. A command on a key of the same
shard is executed at once. A command on any other key is *dispatched*: the
reactor sends a request to the owner's *callback queue*, the owner executes it
and sends a response back, and the first reactor writes the reply. The queues
are Vyukov's bounded MPMC queue; a reactor that has nothing to do blocks in
`epoll_wait` and is woken up through an eventfd.

```
 client ──socket──▶ recv_buf ─▶ parser ─▶ handle_command ─▶ cmd_x ──▶ hash map (own shard)
    ▲                                                         │
    └──socket── send_buf ◀── on_cb: __cmd_x_resp              │ key of another shard
                                   ▲                          ▼
                      own callback queue ◀── __cmd_x_req ◀── callback queue of the owner
                                     (and soft_notify / sleeping / eventfd to wake it up)
```

What threads share, and how:

| shared | written by | protocol |
|---|---|---|
| callback queue | every thread enqueues, its reactor dequeues | atomics in `mpmcq.c` |
| `reactor->sleeping`, eventfd | its own thread, and the threads that wake it up | atomic flag, system calls |
| `reactor->running` | the thread that handles SHUTDOWN | a plain `bool` |
| `conn->db` of a dispatched command | its owner writes, the executing shard reads | none |
| a `Conn` named by a message in a queue | its owner frees it, the executing shard reads `db` and, after its response, `shard_id` | none |
| file descriptors | every thread accepts and closes | the operating system |
| the hash maps | their thread; FLUSHALL of any thread; `main`, which frees them at the end | none, `pthread_join` |

## Inventory of components

**Callback queue** (`include/mpmcq.c`, `mpmcq.h`). State: cells with a sequence
number and a pointer, two cursors. Operations: init, enqueue, dequeue, count.
Hard: all interleavings of several producers (and of consumers, which the type
allows, see `hack/vyukov_test.c`), a full queue, wrap-around. Correct if: a
cell is never used by two calls, the messages form a FIFO, NULL means that
nothing is ready, calls return.

**Event loop and wakeup protocol** (`include/reactor_epoll.c`, `reactor.c`,
`bitset.h`). State: `running`, `sleeping`, `soft_notify`, the eventfd, the
place in the loop. Operations: the phases of the loop (flush, wake others, poll
callbacks, sleep, epoll events), `reactor_send_message`, SHUTDOWN. Hard: a
message that arrives just before `epoll_wait` blocks, wakers that race with
each other and with a sleeper that wakes up by itself. Correct if: no message is
left with a sleeping reactor, every command is handled, SHUTDOWN ends the loops.

**Command dispatch** (`server.c`, `include/commands.h`, `commands.c`). State:
`flags` and `db` of each connection, messages in flight. Operations:
`on_data_available`, `on_cb`, request, response, SELECT, FLUSHALL, QUIT, the end
of a connection. Hard: pipelines with several dispatched commands in flight,
responses that come back while other commands are handled, clients that go away
in between. Correct if: each command is executed once, each gets one reply, for
a client that waits for its replies the server is one atomic map per database,
and connections are freed when, and only when, their clients give a reason.

**Command semantics** (`include/commands.c`). Operations: GET, SET, DEL, INCR,
DECR, INCRBY, DECRBY, DPING on one entry. Hard: text that is almost a number,
64-bit overflow and the 20 byte buffer of a counter. Correct if: a counter is
the number its text stands for, plus the increment, and its text fits its buffer
(which it does not, see [below](#where-the-code-disagrees-with-its-own-text)).

**Hash table** (`include/hashmap.c`, with the entries of `kv.c`). State: buckets
with the distance to their own slot (`dib`), the count, the thresholds.
Operations: get, set, delete, clear, resize. Hard: robin hood displacement,
backward shift across the end of the table, resizing in the middle of a set,
failing allocations, thresholds that two functions compute differently. Correct
if: it is a map, the order of the table makes every search stop where it may
stop, there is always an empty bucket.

**Connection buffers** (`include/reactor_epoll.c`, `protocol.c`). State:
`recv_buf`, `send_buf` and the counters of both. Operations: read, consume,
write a reply, flush. Hard: short reads and writes, `EAGAIN`, requests left in
the buffer while a response is awaited. Correct if: no byte is lost, repeated or
reordered, and both assertions of the file hold.

**Request parser** (`include/protocol.c`). A function of the receive buffer:
number, RESP and inline requests. Hard: requests cut anywhere by `read`, what is
in the memory behind the received bytes, empty and malformed requests. Correct
if: what the client has sent is what is handled, in order, all of it, and
refused only if it is malformed.

**Connection table** (`include/reactor_epoll.c`, `reactor.c`, `vector.h`). State:
the vector `conns` of each reactor, indexed by the descriptor; the connections
allocated; what each epoll watches. Operations: accept, emplace (which grows the
vector), register, close, closing all at the end of the loop. Hard: the vectors
belong to threads and the descriptors to the process; a number that one thread
has closed may be another's before the first has cleared its entry. Correct if:
the vectors hold exactly the open connections, events find theirs, nothing is
left when a reactor has stopped.

**Start-up and teardown** (`main` in `server.c`, `cmd_shutdown`, the end of
`reactor_run`). State: `running` of each reactor, the threads joined. Hard: a
thread that ends frees its connections and `main` its shard, when later threads
may still be in their loops, and even at their beginning, since a SHUTDOWN stops the
reactors one after the other; several SHUTDOWNs at a time. Correct if: a SHUTDOWN
that stops one reactor stops all, what is freed belongs to a thread that has ended, and
a thread that goes on is one that the SHUTDOWN has not come to.

**Single-producer queue** (`include/spsc.c`). A ring with one empty slot. Its
server-side uses are gone, its header is still included. Correct if: a FIFO.

**Idle connection queue** (`include/deque.c`). A doubly linked list with pops, moves
and detaching; its calls in the server are commented out. Correct if: a
sequence, from both ends. (`deque_embedded.c`, a variant without a user, is not
modelled.)

**Logging, type declarations, build, experiments**: no logic of the server's own.

`PROJECT.json` lists the same components with their status, and under "hazards"
each place in the code where one of these things can go wrong, with the
properties that watch it.

## Modules and how they correspond to the code

| module | what it is |
|---|---|
| `Mpmcq` | `mpmcq_enqueue`, `mpmcq_dequeue`, one step per atomic access |
| `Spscq` | the same for `spscq_enqueue`, `spscq_dequeue` |
| `BoundedFifo` | what a queue promises; `Mpmcq` and `Spscq` implement it |
| `MpmcqProofs`, `SpscqProofs` | their invariants, and that both are FIFOs, proved |
| `Reactor` | the event loops, one step per access to a shared variable |
| `ReactorProofs` | no lost wakeup, proved |
| `Teardown` | `Reactor`, the connections freed behind a loop, and `main` that joins and frees |
| `TeardownProofs` | the order of SHUTDOWN, exits and frees, proved |
| `Commands` | what a command does to an entry, and what it answers |
| `Dispatch` | commands, pipelines and connections across shards, one step per handler |
| `DispatchProofs` | each command executed and answered once, in order per shard; to clients that wait, one map; proved |
| `KvService` | what the server promises a client; `Dispatch` implements it |
| `Parser` | `parse_number`, `parse_resp_request`, `parse_inline_request`, as operators |
| `Counter` | the text of counters, on machine integers |
| `Requests` | one connection byte by byte, around `Parser` and `Counter`; its commands are those of `Commands` |
| `ConnIo` | the two buffers of a connection |
| `ConnIoProofs` | the streams are kept, and when there is room, proved |
| `ConnTable` | the vectors of connections and the descriptors, of all reactors |
| `ConnTableProofs` | the vectors are exact, proved |
| `Hashmap` | the robin hood table, one step per round of a loop |
| `KvMap` | what the table promises; `Hashmap` implements it |
| `HashmapProofs` | order, count and types of the table, and that it is a map, proved |
| `Deque` | the doubly linked list |
| `AbstractDeque` | what it promises; `Deque` implements it |
| `MC*` | instances of the above for TLC |

The modules are layers: each uses what the one below is shown to implement. The
queue is a FIFO (`Mpmcq` ⇒ `BoundedFifo`), so `Reactor`, `Dispatch` and `ConnIo`
have sequences for queues. `Reactor` keeps the one thing a FIFO hides and its
protocol depends on: an entry that is claimed and not yet published is counted
by `mpmcq_count` and not returned by `mpmcq_dequeue`. A reactor does not sleep
on a message (`Reactor`), so in `Dispatch` the loop simply runs. A hash map is a
map (`Hashmap` ⇒ `KvMap`), so a shard of `Dispatch` is a function. The bytes of a
stream are handled as the requests the client has sent (`Requests`), so `Dispatch`
and `ConnIo` count whole requests, and the text of an entry is what `Commands`
says of its meaning. A table of connections is exact (`ConnTable`), so elsewhere a
connection is simply open or not.

Definitions have the names of the code where there is one. A comment *a mistake
the runs must notice* marks a variant of the definition behind it with a
plausible bug; nothing uses it, except that `PROJECT.json` names the property
that is violated when it takes the definition's place.

**Mpmcq.** `seq`, `data`, `enqueue_pos`, `dequeue_pos` are the fields of the
queue; `pc`, `pos`, `val` the locals of the call each thread is in. `EnqStart`,
`EnqLoadSeq`, `EnqClaim`/`EnqCasFail`, `EnqReload`, `EnqWrite`, `EnqPublish` are
the load of the cursor, the load of `cell->seq`, the compare-and-swap (weak: it
may fail spuriously), the reload, the plain store and the releasing store; the
steps of a dequeue are the same on the other side. `EnqLoadSeq` has no branch
for a full queue, because `diff` is unsigned in `mpmcq_enqueue`; `DeqDecide` has
one for an empty queue, where it is signed. The abstract queue of the refinement
gets its element when the compare-and-swap succeeds: the message is then in the
caller's hand and becomes the cell's when it is published.

**Reactor.** One variable per field of `struct Reactor` that matters to the
loop; `pc` names the place in `reactor_epoll_run`: `top`, `wake`/`wake_write`
(`reactor_wakeup_pending`), `poll` (`reactor_poll_callbacks`), `handle` (the
pipeline, from `on_cb` or from an event: `caller`), `send`/`publish`
(`reactor_send_message`), `stop` (`cmd_shutdown`), `sleep`/`check`/`unsleep`/
`wait`/`woken` (lines 158–166), `epoll` (timeout 0), `events`. `todo` is the part
of a scan over the reactors that is still to do. All the clients of a reactor
are one connection; a command is the effect it has on the loop.

**Teardown.** A thread whose loop has ended frees its connections (`CloseAll`, which sets
`closed`); `JoinAndFree` is `main`, which waits for the next thread in order and frees the
queue and maps of its shard, so `joined` says which are freed. Threads that are still in
their loops may use them, and then nothing is said of what follows: `process` becomes
`undefined` and no step is possible (`UseFreed`). There are three ways. A send to a freed
queue (`SendsToFreed`). A callback about a freed connection (`ReadsFreed`): the request
reads `conn->db`, and behind it `on_cb` reads `c->shard_id`, which is taken together with
the publication of the response, so the instant between the two is left out here and is in
`Dispatch`. FLUSHALL on freed maps (`MayClearFreed`): it is one of the local commands, so
with a freed shard a local command may be one or may be another, and the model has both
outcomes. Before the first of these, `Teardown` follows the code.

**Dispatch.** `asked`, `read`, `handled` stand for the client's stream,
`recv_buf` and the consumed part of it, counted in commands; `send` and `seen`
for `send_buf` and what the client has received; `waiting`, `ended`, `db` are
`DISPATCH_WAITING`, `END` and `conn->db`. `Handle…` are the cases of
`on_data_available` with the whole of the command's handler, `PollRequest` and
`PollResponse` are `on_cb` with the two functions that `DEFINE_COMMAND`
generates, `Flush`, `EpollWait`, `EpollIn`, `EventsDone` are the phases of the
loop. A request is executed with `conn->db` read *then*, by another thread, as in
the code. `Proceed` is the end of every handler: with `END` set the command is
not consumed, which is why QUIT behind a dispatched command is handled again.
`cmd_select` tests `errno` without resetting it, so `HandleSelect` may refuse a
valid index. FLUSHALL is as many steps as there are maps (`FlushMap`, in the order of the
two loops of `cmd_flushall`, then `FlushDone`): `to_clear` has those that it has not come to.

A client of `Leavers` may go away (`Leave`); `hangup` is `EPOLLRDHUP` as the last
`epoll_wait` has reported it. `EpollIn`, `EpollEnd` and `Proceed` close the
connection where the code does, whatever is in flight. What then touches it is
modelled as the undefined behaviour it is: `PollDangling` is a callback about a
freed connection; `looking` keeps the connection that `on_cb` looks at again
after a request, when its owner may have answered and closed it
(`CallbackDone`). `process` says whether the program has done such a thing, or
was killed by SIGPIPE when flushing to a client that has gone (`FlushKilled`); it
then stands still (`Broken`). Bytes that a client has left unread at its end are read
(`EpollIn`) or lost to a reset (`EpollEnd`).

**Parser, Counter, Requests.** Bytes are ASCII codes. `Parse` takes the bytes
received and the one behind them, which `parse_number` looks at; `ParseNumber`,
`ParseArg`, `ParseResp`, `InlineByte` and `ParseInline` follow the code branch by
branch. In `Requests` the memory of `recv_buf` keeps what earlier requests have left
in it; `Read(n)` takes any number of bytes from the socket, behind the
`memmove`; `HandleRequest`, `HandleError`, `HandleDone` are the rounds of
`on_data_available`. Only SET, GET, INCRBY and DECRBY on one key are there, with names
of one byte: the others differ in what `Commands` says of them. `HandleOverrun` is
the `sprintf` that needs more than the buffer of the counter: the sanitizer of the
debug build ends the process, and otherwise nothing happens. An overflow wraps
around, as on the machine.

**ConnTable.** Accepting is three steps: `Accept` (the system call, which gives the
lowest free descriptor), `Emplace` (allocation and the entry in the vector, grown
if need be), `Register`. Closing is three as well: `Unregister`, `Close`, `Clear`, with
other threads in between. `LeaveLoop` leaves the loop, `CloseNext` goes through what is
left. `AcceptFails` is the panic of `reactor_run` when `accept` fails, which it may at any time
(a client that has gone again, no descriptor left). The
listener and the eventfd have their descriptors from the start and are not counted.

**Spscq.** Each load and store of a shared cursor is a step, the plain access of
the slot another. **Deque.** The functions that change a list are operators from
lists to lists, written as the code has them, so that `MoveToBack` is `Detach` and
`PushBackNode`; a node is known by its datum.

**Hashmap.** `buckets`, `cap`, `growat`, `shrinkat`, `count` are the fields of
`struct hashmap`, `buckets2` is the table `resize0` fills, `entry` the item a set
has in hand (`map->edata`). The two spare items, the memory and the return
pointers into them are abstracted: an item is its key and its value, and two
items are equal when their keys are. `hashmap_clear` sets `growat` to 75% where
`hashmap_new` and `resize0` use 60%, as in the code.

**ConnIo.** The bytes of the stream and of the replies are their numbers, so
that a lost, repeated or reordered byte is visible; a request is the place of its first byte, its
length, the length of its reply and whether it is dispatched. `EpollIn`, `FlushWrite` take
or write any number of bytes; `FlushRefused` is a `write` that returns -1, which
the code stores in a `size_t`. A failed assertion leads to `abort`, where the
thread has ended.

## Runs

| run | what it checks | what it shows |
|---|---|---|
| `mpmcq` | `IInv CellExclusive NullOnlyWhenNothingReady ImplementsFifo CallsReturn` | two producers and two consumers on two cells: no two calls in a cell, the queue is a bounded FIFO, the invariant that is proved holds, and calls return while the consumers keep polling |
| `reactor_loop` | `IInv NoLostWakeup CommandsAnswered ShutdownStopsSleepers ServerEnds` | two reactors with local commands, dispatched commands and SHUTDOWN, and `main`: whoever blocks with a message in its queue is being woken up, commands are answered, SHUTDOWN ends the loops that are blocked, and the program ends unless a reactor was on its way to sleep or a thread has used what is freed |
| `reactor_full` | `SendReturns` (violated) | two reactors that send to each other's full queue spin for ever |
| `dispatch_service` | `TypeOK ImplementsService` | to clients that wait for replies, and may go away, the shards are one map per database, with SELECT, FLUSHALL and QUIT |
| `dispatch_pipeline` | `WaitingHasResponse EachCommandOnce SameShardInOrder DanglingNeedsClient AllAnswered GoneIsClosed` | pipelined commands, QUIT and a client that goes away: no flag left behind, each command executed and answered once, in order per shard, eventually; connections are freed when, and only when, there is a reason |
| `hashmap_map` | `TypeOK Ordered CountIsItems ImplementsMap CallsReturn` | five colliding keys through growing, shrinking, clearing and failing allocations: the table is a map and every search ends |
| `requests` | `TypeOK HandledAsSent NothingLeft RefusedOnlySplitNumber AsCommands` | arrays, lines, numbers and garbage, cut at every byte: the requests sent are the requests handled, in order and in full; counters are those of `Commands` |
| `requests_counter` | `CounterFits` (violated) | a negative counter with as many digits as an integer can have, -127 in the trace, does not fit its buffer |
| `parts` | `SlotExclusive TableExact StoppedClean StopsForAll FreedWhileStopping ImplementsFifo ImplementsQueue` | four models one at a time: the ring is a FIFO; the list is a sequence; two reactors that accept, close and stop keep their tables exact; of three reactors with up to two SHUTDOWNs and `main`, none is left out, and a thread that begins another iteration when something is freed is one that no SHUTDOWN has come to |
| `conn_io` | `TypeOK BufferHoldsStream RepliesIntact RoomUnlessWaiting RepliesArrive` | any split of reads and writes: streams are kept; the read buffer overflows only behind a dispatched request |
| `conn_flush` | `SentWithinSize` (violated) | a refused write breaks the assertion of `reactor_epoll_flush` |
| `conn_recv` | `ReadHasRoom` (violated) | a long pipeline behind a dispatched request breaks the assertion of `reactor_epoll_on_epollin` |

What the less obvious properties say:

- `NoLostWakeup` (`Reactor`): if a reactor is blocked in `epoll_wait` and its
  queue has an entry, its eventfd is readable, or another thread is between
  clearing `sleeping` and writing the eventfd, or another thread has still to
  look at `sleeping` before it can itself sleep. It relates the queue of one
  thread to the program counter and the `soft_notify` bits of the others.
- `SleepsWithoutDebt` (a conjunct of `IInv`): a reactor that goes to sleep has no
  `soft_notify` bit set. It depends on `cb_count`: a thread that sent a response has
  taken a callback, so it does not block in this iteration.
- `StopsForAll`, `FreedWhileStopping` (`Teardown`): if one reactor has been told to stop,
  every other has been or is in the scan of a SHUTDOWN under way, even when several
  SHUTDOWNs overlap. `main` does not wait for the end of the scan: when it has come to
  reactor 0, that thread may end, its connections and then its shard are freed, and reactor
  3, to which the scan has not come, may begin further iterations, in which it sends to the
  freed queue, clears the freed maps or handles requests about the freed connections. The
  property says how far this can go: a thread that is not told to stop when something is
  freed comes behind it in the order of the scan, some SHUTDOWN is under way, and every one
  under way has this thread still ahead; when no SHUTDOWN is under way, all threads are in
  their last iteration, in which they can still do it. That it can be done at all is a fact
  about the code, and no line of the repository says otherwise.
- `ServerEnds` (`Teardown`): a SHUTDOWN leads to the end of `main`. The two exceptions are
  what the code does: a thread uses what is freed, or a reactor past its look at `running`
  goes to sleep for good, since SHUTDOWN wakes up only those with `sleeping` set
  (`reactor_epoll.c:149`).
- `ImplementsService` (`Dispatch`): each command takes effect at one instant between the
  client's write and its reply, wherever the key lives. FLUSHALL is not one instant: it
  clears one map of one shard after the other, and in the middle of it a client may find a
  key gone in one database and another key still there in the next. What a client asked for
  that goes away takes effect once or not at all, and is done with when the server has
  nothing more about it (`Pending`). It is stated for clients with one command in flight
  (`Window = 1`); with a pipeline it does not hold, since the code executes commands behind
  a dispatched one first: `DISPATCH_WAITING` is looked at once per event, before the loop
  over the pipeline.
- `SameShardInOrder`: what remains of the order of replies in a pipeline.
  Replies of commands executed by one thread keep their order.
- `DanglingNeedsClient`, `GoneIsClosed`: a message about a freed connection needs a
  client that has gone away before its replies, or has sent QUIT behind a
  dispatched command; and the connection of a client that has gone is freed,
  though a dispatched command may keep its reactor from reading.
- `HandledAsSent`, `NothingLeft`, `RefusedOnlySplitNumber` (`Requests`): together, what
  the parser and its buffer promise. The first is that nothing else is handled,
  the second that nothing is forgotten, the third that a good request is refused
  in one case only: `read` has stopped inside a number, and the stale byte behind
  it is not a CR (`parse_number` takes it for received).
- `AsCommands`: the bytes in the entry and the reply mean what `Commands` says of the
  meanings, as long as no integer overflows. As the code has it, a sign alone
  counts as 0, and what an empty value counts as depends on the byte behind it.
- `TableExact` (`ConnTable`): vectors, allocated connections, descriptors and epoll
  sets of all reactors describe the same connections at every instant, except
  for the descriptor between `close` and the clearing of its entry.
- `Ordered` (`Hashmap`): the invariant that lets a search stop at the first empty
  bucket, also in the middle of a set and of a resize.

## Bounds and why they are enough

- `mpmcq`: `Size = 2` and three positions: the cursors go around the ring, so
  a cell is used in two laps, full and empty queues occur, and a thread
  that is late by a lap exists. `MaxPos` only stops new calls. Each producer has
  its own message, since nothing depends on the values. The theorems hold for
  every size and every bound.
- `reactor_loop`, `reactor_full`: two reactors, a queue of 4 (which two clients cannot fill; 1 in
  `reactor_full`, so that it does fill up), two commands to one reactor and one to
  the other (two each in `reactor_full`). A wakeup involves one sleeper and one
  waker; wakers that compete for one sleeper need a third reactor, and the
  theorems hold for every number of them. `MaxCommands` bounds the clients. Both
  may send SHUTDOWN, so that two overlap and threads exit in either order.
- `dispatch_service`: two reactors, a key and a connection on each, two commands of
  one client, so that a SELECT can go before a dispatched one, and one of the other:
  inline, dispatched in both directions at the same time, two databases. The first
  client may go away at any time. `Window` is 1: clients wait. The theorem holds for
  every number of commands and of clients that leave.
- `dispatch_pipeline`: three commands of one client with a `Window` of 2, so that two are
  in flight and a third follows, one of the other client, one database. The first
  client may go away at any time.
- `hashmap_map`: five keys of which two have the same hash and others collide around
  the end of the table, two values, tables of 4, 8 and 16. The code starts with
  at least 16 buckets (`server.c` asks for `1 << 20`); `MinBuckets = 4` scales the
  thresholds with it, so that five keys make a table grow and shrink.
- `requests`: streams of two to four requests, each cut by `read` at every byte: every
  pair of ten numerals as counter and increment, up and down; pipelines of arrays
  and lines with empty and odd arguments; a good request and a malformed one of each
  kind. `MaxArgc = 3` for 64 and `SizeMax = 999` for 2^64 - 1 scale the limits of the parser,
  integers have 8 bits (`Modulus = 256`) and the buffer of a counter `CounterBuf = 4`
  bytes, as many as the longest text, like the 20 of the code. `RecvCap = 64` is longer
  than any stream: what happens at the end of the buffer is in `ConnIo`.
- `parts`: a ring of 3 slots and two objects; a list of 4 nodes, so that a detached node has
  neighbours that are not ends; two reactors, three descriptors, vectors that start with one
  entry and have to grow, and four addresses, one more than descriptors, for one that is
  reused before its old connection is freed. For teardown three reactors, since with two
  the only thread that a scan has not come to is the one that scans: with three, thread 0
  may have ended, with its shard freed, when thread 2 begins iterations and thread 1 is still
  in its scan. Reactors 0 and 1 get a command each, which may be SHUTDOWN for both; the theorems
  hold for every number of reactors, and liveness is left to `reactor_loop`. The models
  share nothing: the run chooses one of them (`chosen`) and steps it.
- `conn_io`: a buffer of 4 bytes for the 8192 of the code, eight requests: local
  and dispatched, up to the size of the buffer, and pipelines behind a dispatched
  one that just fit and that do not. `SizeMod = 16` stands for 2^64; the module
  assumes that it exceeds the bytes of all replies, as 2^64 does. One failing
  write (`MaxRefused`) is enough to break what it breaks.

Memory is sequentially consistent in all modules. `reactor_epoll.c` uses
sequentially consistent accesses of `sleeping`; `mpmcq_count` reads its cursors
relaxed, which on x86-64 cannot move before the exchange, and which the models
do not cover elsewhere. Positions in the queue do not wrap around 2^64.

## Fairness

- Threads are scheduled: weak fairness of each reactor's steps (`Reactor`, `Teardown`,
  `Dispatch`, `ConnIo`), of `main` when it joins (`Teardown`), of each started call
  (`Mpmcq`, `Hashmap`). The operating system provides it, and no step of a thread waits for
  a lock.
- A compare-and-swap does not fail spuriously for ever, nor loses every race:
  strong fairness of the claims, in `Mpmcq` only. With producers that send
  a bounded number of messages, the second part is a consequence of the bound.
- Consumers keep polling (`Fairness` of `Mpmcq`): `reactor_poll_callbacks` is in every
  iteration of the loop. Without it `mpmcq_enqueue` on a full queue does not
  return, see `reactor_full`.
- The other reactors answer (`WF_vars(Respond)` in `ConnIo`), which is what
  `Dispatch` and `Reactor` establish.
- Nothing is assumed of clients, signals, allocations and failing writes.

## Deadlock checking

It is switched off where the system may really stop: in the `Reactor` runs (every
thread may have ended after SHUTDOWN, and in `reactor_full` the spinning threads
change nothing), in `conn_io` (a thread with nothing to do blocks; an assertion
ends it), in `requests` and `requests_counter` (everything sent is handled, or the
connection has ended) and in `parts` (all reactors have stopped, the panic, a use of what is freed). Everywhere
else TLC checks that some step is always possible; in `Dispatch` a process that
is undefined or killed stutters (`Broken`).

## Proofs

TLAPS checks all of the modules `…Proofs`. Assumed of the constants is only what the
modules assume by name: a size of at least 2, disjoint sets of threads, NULL is not a message
(`Mpmcq`); at least one reactor and one cell (`Reactor`); at least one slot, NULL is
not an object (`Spscq`); numbers of descriptors and entries are naturals, NULL is
nothing else (`ConnTable`); connections have an owner and keys a home, a command of
`Commandset` has the operands of its operation (`Dispatch`); the buffer has a byte,
requests lie end to end and fit into it, replies are not empty, and together
shorter than 2^64 bytes (`ConnIo`); a hash is a natural, a new table has at least
2 buckets, NULL is no value and the absence of a call is no call (`Hashmap`).

**MpmcqProofs.** The property wanted is `CellExclusive`: between claim and
publication no other call is inside the cell. It is not inductive, since it does
not say what the sequence numbers mean. `IInv` adds that: a cell of a position
between the cursors is published or has a writer (`FullCells`), a cell of the
next lap is free or has a reader of the lap before (`FreeCells`), a cell never
falls back behind a position already dequeued (`PassedCells`), and a thread
about to swap knows its cell unless the cursor has moved since (`ProducerInv`,
`ConsumerInv`); different owners have different positions (`OwnersApart`). Since
owned positions lie within one lap of each other, `SlotFacts` (two positions less
than `Size` apart have different cells, from facts about remainders) turns the
last into `CellExclusive`. The refinement needs in addition that the messages are where
the code takes them from (`Held`): the argument of a call until the cell is published,
then the cell, then the result of the dequeue. A position keeps its message on the
way (`MessageKept`), so that the abstract queue changes in the two claims only
(`QueueAppended`, `QueueShortened`). Proved: `TypeCorrect`, `InductiveInvariant`,
`CountBounded`, `CellsExclusive`, the action property `NullIsHonest`, and the
refinement `QueueIsFifo`.

**ReactorProofs.** `NoLostWakeup` is a consequence of two facts about the time
between the store to `sleeping` and the end of `epoll_wait`. If `sleeping` is
false there, somebody cleared it and has written the eventfd or is about to
(`ClearedByWaker`). If it is true and there is a message, the message came after
the look at the queue, so its sender has not yet looked at `sleeping`
(`LateSenderObliged`). That the sender will look before it sleeps needs that
`soft_notify` is empty on the way to sleep (`SleepsWithoutDebt`), and this that
whoever sets a bit has counted a callback or is handling an event
(`DebtIsCounted`). Their conjunction with `TypeOK` is `IInv`. The frame lemmas
(`Frame`, `WakingKept`, `SignalKept`, `ObligedKept`) say what a step of one
thread leaves true of the others. Proved: `TypeCorrect`, `InductiveInvariant`,
`NoDebtAsleep`, `WakeupsNotLost`.

**TeardownProofs.** `main` and what is freed add no step to the threads (`WithMain`: a behaviour of
`TeardownSpec` is one of `Spec`), so `ReactorProofs` carries over. A SHUTDOWN in
progress has all the reactors that still run ahead of it in its scan, however many
others clear flags (`StopsRest`), a thread leaves its loop only when told to
(`ExitsStopped`), and since every scan goes upwards from the first reactor, those not told to stop
are always the last ones (`LastOnesRun`). Every step of a thread
but the one of the scan leaves these alone
(`StepTouches`, a case per action). Proved: `StopsAll`, `FreedBehindShutdown`.

**SpscqProofs.** `SlotExclusive` is inductive with `RingTypeOK`: a cursor moves towards the
other only, so what a thread has seen of it stays true. On top of it the
refinement is proved, not only checked: the slots between the cursors are the
abstract queue, an enqueue publishes to the slot behind its last, a dequeue
removes its first, and everything else stutters, with lemmas for the index
arithmetic around the end of the ring. Proved: `TypeCorrect`, `AlwaysExclusive`,
`RingIsFifo`.

**ConnTableProofs.** `TableExact` does not say what a thread in the middle of accept or
close relies on: that the descriptor is still its own, or, behind `close`,
that it may be another's but not of its own vector (`HandOf`). A descriptor of a
reactor is entered unless its accept is under way (`SocketsEntered`). With these
`TableInv` is inductive: one lemma per action, and frame lemmas for vectors that grow.
`Stopped` is reached with an empty vector only, and a descriptor that is entered nowhere is
nobody's, which gives `StoppedClean`. Proved: `TableIsExact`, `StopsClean`.

**DispatchProofs.** All five invariants that the two runs check: `TypesKept`,
`CommandsOnce`, `ShardAnswersInOrder`, `WaitingIsAnswered`, `OnlyClientsDangle`; and the
refinement `ServerIsOneMap`. The argument for the invariants follows the messages. Those
of one connection and one other shard form a line, from
the back: requests in the queue of the shard, responses in the queue of the owner,
replies in `send_buf`, replies that the client has. Along the line the numbers of
the commands decrease (`Order`: `QueueOrder`, `CrossOrder`, `RepliesFirst`,
`ReplyOrder`), so no command is on it twice (`OneAtATime`); every command handled is on
some line (`NoneLost`); a message is about a command that was handled and belongs to
another shard (`MessagesOk`), a reply about one that was handled, or about the QUIT at
which an ended pipeline stands (`RepliesOk`, `EndedOk`). That is `IInv`, with the types
and what the loop has in hand (`LoopOk`). `EachCommandOnce` itself is not inductive: a
cardinality says nothing of which message is lost and which is doubled.

The steps are reduced to their effect on the lines: at most one message is taken from
the head of a queue and one put behind another (`QueueChange`), at most one reply is
added (`GivenChange`). The lemmas `Keep…` say, one per conjunct, what of such a change keeps it;
`QuietLine`, `ReplyLine`, `DispatchLine`, `RequestLine`, `ResponseLine`, `AskLine` put the
handlers into six classes. `Waits` and `Closed` are on top of that: a connection that
waits has something on its line, and one that is freed has gone, has nothing on its
line, or stands at a QUIT behind a dispatched command.

`ServerIsOneMap` says that `Dispatch` implements `KvService` when `Window <= 1`, the one
hypothesis besides the assumptions on the constants; without it the statement is false (see
above). The abstract map is the stores of the shards side by side (`Data`), a client waits
for its last command (`Awaited`), its answer is the one in a response or in `send_buf`
(`Outcome`), and what a FLUSHALL has still to remove is in the maps it has not come to
(`Uncleared`; it has come to all of a map or to nothing of it, `WholeMaps`). `IInv` is not
enough: it allows any number of commands on the line. So every connection is shown to be in
one of four stages (`Stages`): `Idle`, `Written` (the command is in the socket or in
`recv_buf`), `Dispatched`, `Answered` (the reply is in `send_buf`; that to a QUIT stays
there when the connection is freed). With that, a message is about the last command handled
(`Alone`), so `conn->db` is what the client has selected when the other thread reads it; the
pipeline has a command only in the branch of an event (`Calm`); and `to_clear` is about the
FLUSHALL in hand only (`Clearing`). Their conjunction is `SInv`. A command takes effect in
the pipeline (`AnsweredSimulates`, `FlushMapSimulates`, `FlushDoneSimulates`) or in
`__cmd_<name>_req` on the thread of its shard (`RequestSimulates`); the reply returns in
`reactor_flush_pending_writes` (`FlushSimulates`, for all connections at a time);
dispatching, responses, the loop, clients that leave and connections that are closed change
nothing that a client sees (`DispatchSimulates`, `ResponseSimulates`, `LoopSimulates`,
`LeaveSimulates`).

**ConnIoProofs.** `BufferHoldsStream` is inductive with the place where consumption stops:
always between two requests (`Boundary`), and, outside of `on_data_available`, before one that is
not complete unless a response is awaited (`Drained`). From that `RoomUnlessWaiting`
follows: a full buffer would hold a whole request, since requests fit. `RepliesIntact` is
inductive with the types of the output and with the bytes of `send_buf` numbered behind those
sent (`StreamIntact`). Proved: `StreamInBuffer`, `RoomForBytes`, `RepliesInOrder`.

**HashmapProofs.** `Ordered` says of each bucket how it compares with the one before it,
and is broken while a deletion has a hole; `CountIsItems` says nothing within a
call. `IInv` has the way of each item instead, from the slot of its key to its bucket: the
bucket at distance d has a `dib` of at least d (`Ways`). Sets and moves only raise the `dib`
of a bucket, so no way is broken by them, and the item in hand is at the end of a way of its
own that has not passed an equal key (`OnWay`); from this it follows that an item whose `dib`
exceeds that of the resident is not in the table (`Absent`), so a key is never put into it twice.
A deletion has one hole that counts as filled (`Shifting`), and it moves on until no way leads
through it (`MovedUp`, `Closed`). While a table is moved, the two tables have no key in
common (`Moving`). The thresholds (`Thresholds`) need that the size is that of a new map, doubled
some times: said without recursion, by the set of the sizes on the way (`Doubled`). One
lemma `…Keeps` per action.

The refinement needs besides that a search has not seen its key (`Searching`), that buckets
without item have no value (`Blanks`: `hashmap_get_with_hash` returns the value of the
bucket at which it stops), and that once the item of a set is placed, it is behind the
item in hand with no empty bucket in between (`Carrying`). A walk over occupied buckets is
shorter than the table (`Everywhere`, `WalkIsShort`), so the item placed is never displaced
again by its own set (`PlacedStays`), and `map->edata` that is no more the item of the call
stays a different one. A get or a delete takes effect where its search ends, a set where its item
is put down first, which may be long before it returns; everything else, all of resizing
included, leaves the items as they are (`…Simulates`, one per action). Proved: `TypesKept`,
`OrderKept`, `ItemsCounted`, and the refinement `TableIsMap`.

Only model-checked:

- every liveness property (`CallsReturn`, `CommandsAnswered`, `ShutdownStopsSleepers`,
  `ServerEnds`, `AllAnswered`, `GoneIsClosed`, `RepliesArrive`): liveness under fairness and
  `ENABLED` are out of the prover's reach;
- what is an induction over data: `TypeOK` of `ConnIo`, where the bytes made are bounded by a
  sum over the requests; all of `Requests`, about what `FoldLeft` makes of a list of bytes in
  `Parser`; `ImplementsQueue` of `Deque`, about walks along a list.

There is no `RECURSIVE` operator here.

## Where the code disagrees with its own text

1. `include/mpmcq.c:28–33`: `diff` is a `size_t`, so `diff < 0` is never true and
   `return false` never reached. A full queue is not refused, the caller spins,
   and two callers that fill each other's queues spin for ever, where
   `commands.h:127` answers "shard dispatch queue full". Run `reactor_full`.
2. `include/commands.c:349` allocates "20 bytes for int64_t". A negative number of 19 digits,
   any from -1000000000000000000 to -9223372036854775808, has 20 characters, and
   `sprintf` writes a zero behind them: 21 bytes. Run `requests_counter`, with integers of 8
   bits and a buffer of 4 bytes, where every negative number of three digits is one too long:
   the trace sets the counter to `-`, which counts as 0, and takes 127 from it.
3. `include/reactor_epoll.c:321`: the result of `write` is a `size_t`, so `rv < 0`
   is never true. `EAGAIN` with nothing sent breaks the assertion in line 346; after
   a partial write the last byte is sent twice. Run `conn_flush`.
4. `include/reactor_epoll.c:312`: while a response is awaited the loop keeps reading
   and does not consume. When the bytes behind the dispatched request fill
   `recv_buf`, the next event breaks the assertion in line 275. Run `conn_recv`.
   `RoomUnlessWaiting` says that this is the only way, for requests that fit into
   the buffer.

## What is not modelled

- *`hashmap_scan`, `hashmap_iter`, `hashmap_probe`, `hashmap_free`,
  `hashmap_clear(map, false)`*: the server does not use them, or only at its end.
- *The hash functions*: any function of the key.
- *FLUSHALL during a command on the same map*: a data race; `Dispatch` has
  FLUSHALL clear one map at a time, each at an instant. What it does between two maps is modelled.
- *What happens after undefined behaviour*: a callback about a freed connection, a send to
  a freed queue, FLUSHALL on freed maps. The models have the step in which it occurs and stop there.
- *The end of a loop in `Dispatch`*, where all connections are freed: SHUTDOWN, and what it frees,
  is in `Teardown` and `ConnTable`. In `Teardown` the last look of `on_cb` at a connection
  goes with the publication of the response before it.
- *The 16 bits of `dib`* (`hashmap.c:29`): unbounded in `Hashmap`. It takes an item more than 65,534
  buckets away from its own to tell the difference.
- *The overflow of `send_buf`*: replies are assumed to fit.
- *`BLOCKED` and `EPOLLOUT`*: never set, since the failure of `write` is not seen.
- *Lengths near 2^64 in a request*: the pointer sum of `protocol.c:131` leaves the
  address space. `SizeMax` stands only for the check inside `parse_number`.
- *Failing allocations*, except those of the hash map, which looks at them.
- *`deque_embedded.c`*: a variant of `deque.c` without users.
- *Logging, type declarations, the build*: no logic of their own.

## Plan

Done, in this order: the queue, since everything crosses it, with its proofs; the
wakeup protocol with its proofs; dispatch, with the abstract service; the hash
table; the buffers; connections that end; teardown with its proofs; parser and
counters; the connection table with its proofs; the ring with the proof of its
refinement; the list; the proofs of the buffers, of dispatch, of the queue's refinement, of
the hash table with its refinement, and that the server is one map to clients that wait.

Nothing of the plan is left. What TLC checks and no theorem states is listed at the
end of [proofs](#proofs), with the reasons.

The hazards without a property in `PROJECT.json` (weak memory in `mpmcq_count`, the
unchecked `send_buf`, lengths near 2^64) say why they have none.
