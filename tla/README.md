# libreactor in TLA+

A verification project for libreactor, an event library in C on top of
io_uring: TLA+ modules that model its components, TLC configurations that check
them on small instances, and theorems about them that TLAPS checks for every
instance. Line numbers refer to `src/src/reactor/*.c`.

## 1. The system

libreactor is single-threaded: one thread calls `reactor_loop`, which waits for
the kernel and runs callbacks, and the callbacks call the library again. What
makes it hard is therefore not parallel code in the library but

* the kernel, which consumes submissions while the thread is inside
  `io_uring_enter` and posts completions at any time, in any order;
* re-entrancy: a callback may close, reopen or destroy the very object whose
  handler is calling it;
* addresses as names: an operation is known to the kernel, to the ring and to
  the application by the address of a pool slot that is reused;
* buffers and structs the kernel still reads or writes when the application is
  done with them;
* the one place with real threads, `reactor_async`.

### Components

| component | state | operations | must hold | hard because |
|---|---|---|---|---|
| reactor core (`reactor.c`) | pool of users (callback, state), submission and completion queue, vector of next calls, cached time | one submitter per io_uring operation, `reactor_next`, `reactor_async`, `reactor_cancel`, `reactor_loop(_once)` | a completion calls the callback of its own operation, at most once after the last; a slot is freed exactly once and when nothing refers to it; a cancelled operation is silent; the loop waits only for something | reuse of slots, multishot completions, zerocopy notifications, flush in mid-callback, entries read after they were released |
| pool (`pool.c`) | chunks, LIFO free vector, allocation count | malloc, free | no object handed out twice; the count is the number in use | the count decides when the loop ends |
| event (`event.c`) | eventfd, pending read, counter, abort pointer | open, signal, signal_sync, close | every signal is counted once in a callback; silent after close | close and reopen in the callback |
| timer (`timer.c`) | absolute time, period, pending timeout, abort pointer | set, clear | one timeout armed at most, calls catch up, none after clear | set and clear in the callback |
| notify (`notify.c`) | inotify fd, read buffer, entries with path and watch maps, pending next call | add, remove_path, remove_id, close | callbacks only for entries still there; nothing runs after close | events for watches already removed, aliases of one inode, close in the callback |
| stream (`stream.c`) | input and output buffer, pending read and write, next output buffer, offset | read, write, flush, consume, close | bytes leave in order and once; a buffer in flight is not touched | partial writes, close with a write in flight |
| queue (`queue.c`) | producer: pending write, two buffers; consumer: pending read, buffer | push, pop, open, close | elements arrive in order, whole, once | pipes, partial reads, close in the callback |
| server (`server.c`) | listening socket, accept, list of sessions | open, shutdown, close, respond, disconnect | one request at a time per session; every session freed once | pipelining, replies from later callbacks, disconnect in the callback |
| resolver (`resolver.c`) | a getaddrinfo call in a thread: its strings, the code and the list of addresses | construct, lookup, destruct | the callback gets the result of its own lookup; every list is freed once | two threads, destruct and a new lookup in the callback |
| map, mapi, maps (`map*.c`) | open-addressing table, number of elements | insert, at, erase, reserve, clear | behaves as a finite function; every search meets an empty element | backward-shift deletion over the end of the table, growth |
| list, vector, buffer | rings of items; an array that grows | push, insert, splice, erase, clear; push and pop | an item is in one place of one list | four links change in a splice; growth moves the contents |
| http (`http.c`), data | the input and offset of a session; the head and body of a request; the bytes of a response | `http_read_request`, `http_write_response` | requests are read from input cut anywhere; responses fill their memory to the byte | chunks joined in place, digits counted from bits |
| object, hash, picohttpparser, examples | reference count, pure function, vendored parser, programs | | | |

### How they interact

Applications and the components above call the submitters of the core and get
an id, the address of a user slot (bit 0 marks one that is not in the ring).
The core calls back with the result. The components keep the id of the
operation they wait for, reset it at the start of its callback, and pass it to
`reactor_cancel` when they are closed. The core takes its user slots from a
pool, which keeps chunks in a list and free objects in a vector. Server sits on
stream, http and list; resolver on `reactor_async`; notify on list, mapi and
maps. A handler that calls the
application keeps a flag on its stack (`abort`) that a close in the callback
sets, so that the handler does not touch its object afterwards.

## 2. Modules

`Reactor.tla` is the core.

| code | model |
|---|---|
| `reactor.users` (pool) | `owner`: which operation has each slot; `Busy` is `pool_size`. Any free slot may be allocated: the LIFO order of `pool.c` is one of these choices |
| `user->callback` | `callback[u]`: the operation's own, a replacement given to `reactor_cancel`, or the empty one |
| submission ring | `sq`, at most `SqSize`; `held` and `pc = "flush"` while `reactor_ring_flush` waits for the kernel |
| requests in the kernel | `inflight`; `shots` counts the completions with `IORING_CQE_F_MORE` still to come, `stop` is set by a cancellation |
| completion ring | `cq`, at most `CqSize`; `cur` is what `cqe` pointed to, `Slot` what it points to *now* |
| `reactor.next`, `i` | `next`, `i` |
| program counter of `reactor_loop_once` and of the callbacks | `pc`, `ret`, `once` |
| (none) | `nops`, `owner`, the `op` and `aim` fields, `ids`, `quiet`, `lapped`: history that lets properties speak of operations instead of addresses |

Every API call is an action that can happen wherever application code runs:
outside the loop (`"app"`), in a next callback (`"nextcall"`) and in a
completion callback (`"call"`). The application is otherwise arbitrary, except
that it uses an id only while it stands for something: it forgets it when the
last callback it can expect is made and when it cancels it. That is what every
component of the library does (`event->read = 0`, `timer->timeout = 0`, ... are
the first lines of the handlers).

The thirty-odd submitters differ in the submission they fill in; the model
keeps how they complete: once (`OneShot`), with events until a last one
(`MultiShot`), with a result and a notification (`ZeroCopy`), or as a
cancellation. `reactor_poll_update` is a one-shot operation.

The kernel is modelled from how the code uses it: submissions are taken in
order and only inside `io_uring_enter`; a cancellation is looked up by
`user_data` when it is taken; completions are posted at any time while there is
room (with `IORING_FEAT_NODROP` the rest waits in the kernel).

A completion entry is released (`reactor_ring_cqe` advances the head) before it
is read, and its flags are read once more after the callback. The model takes
these reads one by one: `Slot` is the entry as it is at the time, overwritten
if the queue has become full. `lapped` records that it happened; most
properties are stated for executions in which it did not, and
`MCReactorOverrun.cfg` shows one in which it did.

`Operations.tla` is what the core promises, and what the other components rely on:
operations with names instead of addresses. Starting, cancelling and calling them and
their ends are its actions; the flushes, the queues, the kernel and the reuse of slots
are not to be seen in it. `Pending`, `Turn` and `Looping` of `Reactor` are the
refinement mapping.

`MCReactor.tla` instantiates it for TLC. `ReactorProofs.tla` holds the theorems about
it; those about *Event*, *Timer*, *Stream*, *Queue*, *Server*, *Async* and *Map* are in
modules of the same names with `Proofs` behind.

The other components are modelled each on its own, with the part of the core it
sees: `sq` is what it has submitted and the kernel has not taken, in order (it
may be taken at any time, since any component that fills the queue flushes it),
`cq` or the result in a request is what has completed, `muted` are the operations
it has cancelled, whose own callback does not run (`OwnCallbackOnly` of the
core). Each handler is one action up to the callback of the application, and one
after it if something follows; in between the application may call anything.

`Event.tla` (`event.c`). `fd`, `read`, `counter` and `abort` are the fields;
descriptors are numbered by the call of `eventfd()` that made them. `Handle` is
`event_read` up to its callback, `Return` the rest; `Open`, `Signal`,
`SignalSync` and `Close` are the API and may come in the callback. `count` and
`semaphore` are the kernel's eventfds. `sent` and `handed` are history.

`Timer.tla` (`timer.c`). `time`, `delay`, `timeout` are the fields, `tv` the
struct the kernel reads when it takes a submission, `now` the clock. `Timeout`
is the whole handler up to its callback, after which nothing follows. Times are
integers; `Tick` may pass several deadlines before the loop runs.

`Stream.tla` (`stream.c`). Bytes are numbered in the order of `stream_write`.
`data`, `dataNext`, `partial`, `offset` are `stream->output`, `writing` is
`output.id` with what its request refers to, `reading` and `input` the same for
input. The kernel writes any first part of what it is given, whatever the
descriptor is; it reads the buffer when it writes, not when it is asked to. What
follows ("partial write, continue writing", `stream.c:49`) is the rest only for a
socket: to anything else `stream_send` gives the whole buffer again, to a file at the
same offset, and `stream_send_callback` adds what this takes to the first part.
`short` is history and says that it has happened, `Exact` that it cannot have. A
write that was cancelled may still be carried out (`orphan`).
After an error or a close, operations fail. While writes are exact, the output of
the stream implements `Channel.tla`, the promise of a FIFO: elements come out in the
order they were put in, each once (`put` is the number of bytes written, `got` what
has reached the descriptor).

`Queue.tla` (`queue.c`). Elements are numbered by producer, and an element is
`ElementSize` bytes; the pipe is a sequence of bytes. `prod` and `cons`
are functions from the objects to records with the fields of
`struct queue_producer` and `struct queue_consumer`. The kernel takes a write of
at most `PipeBuf` bytes (`PIPE_BUF`) whole, and any part of a larger one; a read
returns what there is, up to the batch. One action per operation and handler;
`Return` is what `queue_consumer_read` does after a callback. Producers and
consumers may be closed and opened again (`ProducerOpen`, `ConsumerOpen`), a
consumer in its callback too; `output_offset` is then what it was, and so is
`consumer->abort`: a handler that was aborted leaves it pointing at a flag that is no
more (`abort = "dangling"`), and a close that writes there sets `wild`. A callback may
pop; the read is then in flight when the handler comes to the end of the batch.
Operations
that were closed may still be carried out (`orphans`), into a buffer nobody looks
at, until the kernel takes the cancellation, which stands before whatever is
submitted later. The synchronous push is one of an application that has nothing
else on its way. One producer and one consumer implement `Channel.tla`.

`Notify.tla` (`notify.c`). `File` says which file a path names; two names of one file
get one watch, and the second entry is not in `ids` (`AddEntry`). `entries`, `ids`,
`fd`, `read`, `next`, `buffer` and `abort` are the fields (`paths` and `entries` hold
the same); `at` is the event in whose callback the application runs, `result` the
number of events the handler goes through, `size` that of a read which is done and
waits to be handled. A read that was started in the callback may be done before the
callback returns, and then writes over the events that are still to be looked at.
`NotifyNext` is the next callback in which a removal decides whether the read is
still needed. `watches` and `queue` are the kernel's: removing a watch queues one
more event for it, and deleting a file two. A read that was cancelled may take events
with it (`stale`). An assertion that fails ends the program (`failed`); the
invariants are stated for the programs it has not ended.

`Server.tla` (`server.c`). `session` is a function from the clients to records
with the fields of `struct server_request` and of its stream that matter;
`accept` is `server->accept` and its result, `at` the session in whose request
the application runs, `abort` the flag of its handler. A request is two bytes, so
that it can be cut, and the first invalid one of each client is chosen at the
start. `Parse` is `server_parse` up to the callback, `Return` what follows it,
which is `Parse` again for the next request; that makes one step of the recursion
in the code one step of the model. `Respond`, `Disconnect`, `Close` and `Accept`
(a connection the application has made itself) come in the callback or from
others (timers, next callbacks). The stream is that of
`Stream.tla` with writes done as a whole. `held` is history: the requests the
application is to respond to.

`Async.tla` (`reactor_async` in `reactor.c`, and `resolver.c`). A request has a
struct, a thread, an eventfd and a read, all known by its number; its application
is a resolver or another one. What the two threads share is read and written a
word at a time: `ThreadReads` takes the two words of `state->user` one by one,
`Cancel` and `CancelEnds` write them one by one, and `Resolves` and
`ThreadSetsCode` are two steps of `resolver_async`. `Return`, `ReturnLookup` and
`ReturnEnds` are the loop's side, around the callback of the application, in which
a resolver may be destroyed or look up again. `strings` and `lists` are what is in
memory of hosts, ports and addresses; an access to anything that was given back
sets `wild` and ends the behaviour.

`Map.tla` (`map.c` with the functions of `mapi.c`). Every iteration of a loop is a
step: `SearchNext`, `RehashNext`, `Shift`. `fresh` is the table a rehash fills,
`i`, `j`, `n` are the positions of the loops. The hash is any function from the
keys to the numbers in `Hashes`, chosen at the start. `Dictionary.tla` is what a
map promises: a finite function, and that what is removed is released once. A
hole that a deletion is about to fill (`pc = "shift"`) is not part of it.

`Pool.tla` (`list.c`, `pool.c`) has one heap: `links` are the next and previous of
every item and list, `live` the addresses `malloc` has returned. Two lists of the
application live next to the list of chunks, so that an address freed in one comes
again in another. `free` is the vector of free objects, with its memory, as
`Buffer.tla` (`vector.c`, `buffer.c`) has it: capacity, growth to a power of two,
insertion and deletion that move the rest. `list_clear` is one step per item,
since the application is called for each. `rows`, `chunks` and `used` are
history: what the calls should have made. `Slots.tla` is what a pool promises, and
what `Reactor` takes for granted when it takes any free slot.

`Http.tla` (`http.c`, as `server.c` calls it). A cell of the input is a part of a
head, the digits of a chunk size, a line end or a byte of a body; `sending` is
what has not arrived, and `Recv` brings any part of it. `Parse` is
`http_read_request` with the decision about the body (`Encoding`, `Length`), `Return` what
its result, an int, does to `server_parse`, `Measure` and
`Move` the two loops of `http_dechunk`, one step per iteration, the second of which
joins the chunks in the input buffer itself. The sizes a request says it has (`says`, and
Content-Length) need not be those it is sent with; their sums are modulo `SizeMod`, and
the result modulo `IntMod`. `pc = "wild"` is the use of memory that is not the buffer's,
`"failed"` the assertion of `server_parse`. `Respond` is `http_write_response` up to
the number of digits (`Digits` is `utility_u32_len`, with its table of powers);
`PrintPair` and `PrintLast` are the loop of `utility_u32_sprint`, which writes from the
end. `Room` and `Pushed` are the bytes that are allocated and those that are
written.

The modules whose names begin with MC instantiate these for TLC.

Operators marked `mutant` are deliberate bugs: each replaces the definition
after it, to see a property fail.

## 3. Checks

A property is often a conjunction of named parts, each with its own comment in
the module; the text below names the parts in parentheses.

### Reactor

Run `reactor`: 2 slots and 5 operations, so that a slot is reused up to four times
and every pairing of an old reference with a new owner is possible; a submission
queue of 1, so that every second call flushes; a completion queue of 4, which is
never full while an entry is in use; multishot operations with one event and a
last one.

* `UsersSound` (types, `NoStaleUser`), `IdsValid`: a slot is freed while something (a
  queued submission, a running request, a waiting completion, an id) still names it.
* `CancelHitsItsTarget`: a cancellation is queued while its target completes and
  the slot is reused. It holds because submissions are taken in order: the new
  owner of the slot is always behind the cancellation in the queue.
* `LoopSound` (`NoLostUser`, `WaitsForSomething`): the two tests of `pool_size` and the
  conditions under which a user is freed fit together, so that the loop ends
  when nothing is pending and never blocks when nothing can come.
* `CallbacksSound` (`OwnCallbackOnly`, `SwappedCallbackIsLast`): between the
  cancellation and the last completion the replacement callback runs, and it runs
  late enough to free the buffer of a one-shot operation.
* `ImplementsOperations` (the refinement of `Operations`): all of it together. A slot is
  reused, or a callback replaced, anywhere between a submission and the last completion,
  in the callback of another operation or of the same one, and the application still sees
  each operation called as itself, silent once it was cancelled, and over only then.
* `CancelledEnds`, `NextIsCalled`: nothing is starved by the order in which the
  loop submits, drains and calls.

Fairness: the thread runs (callbacks return, the application comes back to the
loop, as every program of `src/example` does), the kernel takes what is
submitted, and requests that were cancelled, and notifications, complete. Other
requests may wait for ever. The bounds on operations and events make every
callback chain finite; an application that registers a next call from every next
call starves the ring, by construction of the first phase of
`reactor_loop_once`.

### Components on the ring

| run | bounds |
|---|---|
| `event` | 3 descriptors, so that two old ones may be in the queue behind the open one; 3 signals each, so that a read may return 1, 2 or 3 and one may arrive during a callback |
| `timer` | 3 calls of `timer_set`, for times up to 4, once or with a period of 1 or 2; the clock stops at 4, when everything due is called |
| `stream` | 4 bytes out, 2 in, 2 reads, sockets and files: two flushes with a partial write each, one of them while the other is collected; pipes, which are as files without an offset, are left to the proofs |
| `queue` | one producer, one consumer; elements of one byte, so that any part of a write is whole elements; room, writes and batches of two, and 5 pushes, so that pushes during a write and a full pipe happen; one `EINTR`; two closes, no reopening |
| `queue_shared` | two producers, two consumers, three elements of two bytes in all, so that one can follow a batch of two; a consumer closed in its callback, opened again and closed once more is within the bounds; writes of one element, which the pipe takes whole; two closes and one reopening, anywhere |
| `notify` | 3 paths of 2 files, 3 watches, so that a path is added again under a new id while events for the old one are queued; 3 events and those of removals; 2 events in a read, so that a batch can name an entry its first callback has removed, and a read done in a callback can replace the other event |
| `server` | 2 clients of 2 requests of 2 bytes: requests that come together and requests that are cut, a response at once with the next one deferred, and a second session that is disconnected or closed from the callback of the first |

* `EventSound` (types, `SignalsConserved`, `OneReader`, `FailsByCountOnly`,
  `WildByReopenOnly`), `ClosedIsSilent`, `SignalArrives`: the read of a closed
  descriptor, its cancellation and its close are still queued when the event is
  opened again, and both reads write `counter`. `event_open` is modelled as it is
  (section 5), executions end (`"dead"`) where the assertion of the handler fails,
  and the last two parts say that what section 5 shows is the only way to get
  there.
* `TimerSound` (types, `OneTimeout`), `CallsOnTime`, `DueIsCalled`: the callback sets
  or clears a timer that is already armed for the next period; `tv` is shared by a
  submission that waits and the one that replaces it.
* `StreamSound` (types, `NothingLost`, `InFlightIntact`, `InputInOrder`),
  `OutputInOrder` (the refinement of `Channel`), `FlushedMeansSent`, `OutputDrains`:
  partial writes, swaps of the two buffers and flushes that come at the wrong time.
  They are stated of a socket for all that may happen, and of a file until a write is
  not taken whole (`Exact`): what comes after that is in section 5. `InFlightIntact`
  and `InputInOrder` have no such condition. The handler takes input from the end of
  the buffer as it is when the read is done; it is the end the kernel was given as
  long as nothing is consumed in between, which is how `server_read` uses it.
* `BuffersSound` (`NothingLost`, `InFlightIntact`), `ImplementsChannel`,
  `PushedIsPopped`: the same hazards for the two buffers of a producer, with partial
  writes and the batches of a consumer that stops in the middle.
* `PoppedSound` (types, `OnceInOrder`, `ElementsWhole`, `IdleByReopenOnly`): several
  producers share the pipe, and an element is in one piece only because their writes
  are. A producer opened again after a close in the middle of its output never
  writes again (section 5); no other is idle with elements left.
* `NotifySound` (types, `ReadIfNeeded`, `EntriesAreWatched`, `FailsByLossOnly`):
  removals defer the decision about the read, additions make it at once, and both
  happen in the callback, when `read` is reset and the buffer not yet finished.
  Paths that share a file are excepted from the second part (`shared`), and are,
  with deleted files, the only ones whose removal fails.
* `NotifyProgress` (`EventsAreRead`, `ClosedEnds`): a read is started again after
  every batch, and ended by the next callback that a close with entries leaves
  behind. A close without entries is another matter (section 5).
* `ServerSound` (types, `HalfDuplex`, `ServedInOrder`): responses are flushed while the
  next request is in progress; the end of that flush must leave the session alone,
  and the response must set it going again; `stream_offset` and the consumption of
  the input follow each other through requests that are complete, cut or deferred.
* `RequestIntact` (`InputIntact`, `HeldUntilSendFails`): the request the application
  has points into the input buffer, which stays as it is; the request is taken
  away only when an earlier response cannot be sent (section 5).
* `ClosedIsSilent` of `event`, `queue_shared` and `notify`, `RequestsAreServed`. That of
  `queue_shared` also says that a close in the callback tells the handler that runs,
  although `consumer->abort` may have been left behind by another, and that it is a
  consumer opened again whose close may write to the flag of a handler that has returned.

Deadlock is not checked in these runs, nor in those of `Async`, `Map` and `Http`:
a component with nothing submitted, or at its bounds, has nothing to do. The runs
of the core and of `Pool` do check it.

Fairness: the loop runs (`Loop`, `ProducerLoop`, `ConsumerLoop`, `Handler`),
submissions are taken and an operation the kernel can complete completes, the
clock goes on (`Tick`). Cancelled operations and files need not do anything. In
`server` the application responds to every request in the end, as the programs of
`src/example` do; clients need not send or close. Otherwise nothing is assumed of
the application, except that callbacks return.

### Threads

Run `async`: one resolver and three calls of `reactor_async`, each of the resolver or of
another application; a lookup begun in the callback of another overlaps with the
return of the first, and with a request that is being cancelled.

* `AsyncSound` (types, `NothingWild`, `ThreadsKeepMemory`, `ListsOwned`,
  `TornByCancelOnly`): the loop gives back the struct and the strings while the thread
  is in its last steps; the handler frees the list under the application unless it
  has taken it out of the resolver. A resolver that is destroyed during a lookup
  gives back the strings the thread reads and the place it writes to: `hasty` marks
  these executions, and nothing else makes memory go wild.
* `AnswersOwn`, `LookupsAnswered`: code and list are those of the lookup that is
  answered, which is over before the callback runs.

Fairness: threads run, `getaddrinfo` returns, the loop runs.

### Data structures

| run | bounds |
|---|---|
| `map` | 3 keys with 2 values and every choice of hashes from {0, 1, 6, 7}, which are the last and the first places of tables of 2, 4 and 8; capacity from 2 up, so that an insertion of the second and third key grows the table; reservations up to 4. Runs of full places go over the end of the table |
| `pool` | 4 addresses, 2 chunks of 2 objects, 2 lists of the application; addresses are symmetric: the code compares them only for equality |
| `http` | every sequence of three acceptable requests of six kinds (the last one of two), every one of them before each of four kinds that are refused, any segmentation; a size_t of 7 bits and an int of 6, with sizes that are not true, from 0 to more than a size_t, negative, and so that a sum is just below and above `SizeMod`, and with requests around half and all of `IntMod`; the largest request an int tells is one of them; responses of every size next to a power of 2 or of 10 below 2^31 |

* `MapSound` (types, `TableSound`): every element is found from its hash, in the table
  and in the one that a rehash fills, in every step of every loop; at least half of
  both is empty.
* `ImplementsDictionary`: no element is lost or doubled by the moves of a deletion or
  of growth. `CallsEnd`: each loop meets an empty element.
* `HeapSound` (types, `RingsSound`, `ObjectsSound`): the links in both directions are
  what the calls should have made, an item is in one list, and an object waits or is
  in use. `ImplementsSlots`: what is handed out is in nobody's hands, and the count
  is right, which decides when `reactor_loop` ends.
* `HttpSound` (types, `InputSound`, `BodiesSound`, `LoopsSound`): a body that is not
  complete is not touched, one that is complete is joined in place before it is
  overwritten, and a request ends where the next begins. The first two parts are stated
  of requests whose sizes are true (`TrueScripts`), the last of any as long as a size_t
  tells the sums and an int the sizes of requests (`FitScripts`): wrong sizes then only
  make the code wait, or read something else that is in the buffer. Section 5 has what
  happens to sums that do not fit.
* `ResponseExact`: the allocation of a response is exact, so a wrong number of digits
  would write before or leave a gap in it. `RequestsAreRead`: no request waits for a
  byte that belongs to the next, and one that is refused ends the session.

Fairness: the code runs on (in `http` with the application, which responds). Clients need
not send; `RequestsAreRead` speaks of what has arrived.

## 4. Proofs

`ReactorProofs.tla`, for any set of slots, any size of the queues and any bound
on operations, from `UsersAssumption`, `SizesAssumption` and
`BoundsAssumption`:

* `TypeCorrect`: `Spec => []TypeOK`, and `UsersSoundAlways` with what follows.
* `SlotsCorrect`: `Spec => []SlotInv`. `NoStaleUser` is not inductive: to know
  that the slot freed after a callback is not named anywhere else, one must know
  that a submission is alone in its slot (`LineSound`), that a running request is
  and that nothing follows a last completion (`KernelSound`), and that a pending
  next call is alone in its slot (`NextSound`). `SlotInv` is types plus these,
  as long as no entry was overwritten.
* `NoStaleUserAlways`: `Spec => []NoStaleUser`, from `SlotInv`.
* `IdsCorrect`: `Spec => []IdInv`, and `IdsValidAlways`: `Spec => []IdsValid`.
  That an id the application holds still names its operation needs that the
  slots which are taken are those of the pool (`PoolSound`), that a notification
  which is still to come keeps its slot (`NotifSound`), and that an id is held
  only until the last callback it stands for (`IdSound`).
* `CancelCorrect`: `Spec => []CancelInv`, and `CancelHitsItsTargetAlways`:
  `Spec => []CancelHitsItsTarget`. A cancellation names a slot, not an operation.
  `CancelInv` says of every cancellation in the submission queue that whatever
  is in the kernel, or before it in the queue, under the slot it names is its
  target: a later owner of the slot is behind it, because submissions are
  appended and taken in order.
* `LoopCorrect`: `Spec => []LoopInv`, and `LoopSoundAlways`: `Spec => []LoopSound`
  (types, `NoLostUser`, `WaitsForSomething`). That the loop waits for something needs
  that every user in the pool is named by something that will still call it (`Kept`),
  and that the loop enters the kernel only when the pool is not empty.
* `CallsCorrect`: `Spec => []CallInv`, and `CallbacksSoundAlways`:
  `Spec => CallbacksSound`. The callback that runs is the operation's own exactly if
  the operation was not cancelled: for that, a request and its completions must agree
  on their kind (`KindSound`), and every place that names a user must agree with the
  callback that is in the slot (`QuietSound`).
* `HeldCorrect`: `Spec => []HeldInv`, and `ImplementsOperationsAlways`:
  `Spec => ImplementsOperations`, step by step. Everything above is needed; `HeldInv` adds
  that an operation is held by the application, under one id, just as long as its own
  callback may be called: so an operation whose slot is freed is silent, and one that is
  cancelled was not. An API call is `Start` or `Cancel`, the beginning and the end of a
  callback are `Call` and `Return`, a notification is `End`, the test of `reactor_loop`
  is `Leave` when the pool is empty; flushes, the kernel and the rest of the loop are
  stutters. As all of this it speaks of executions in which no entry was overwritten.

`MapProofs.tla`, for any keys and values without `NoKey`, any hashes that are natural
numbers, any power of two as the least capacity and any reservations:

* `MapCorrect`, `MapSoundAlways`, and `ImplementsDictionaryAlways`, the refinement of
  `Dictionary`: calls begin as `Begin`, the steps that end them are its operations, and
  the steps of the loops, growth and the moves of a deletion included, leave the
  contents alone. `MapInv` adds to `MapSound` what the loops have behind them: a search
  has met neither its key nor an empty element since the home of the key (`CallFits`), so
  that a key which is not found is not there; a rehash has copied what it has passed
  (`RehashFits`); and no element between the hole and the position of a shift has to pass
  the hole (`ShiftFits`), so that it can be emptied when the shift ends. It also says that
  capacities are powers of two, which is why `& (capacity - 1)` is the remainder. The
  lemmas are about `Between`, the way from a home to a position round the end of the
  table: `MovesIs` shows that the comparisons of `map_erase` decide whether that way goes
  over the hole.
* `RoundUpIs`: `map_roundup` has a result for every size. It is shown by the least size
  that would have none (`LeastOf`).

`TimerProofs.tla`, for any bounds on times and calls and any finite set of periods:

* `TimerCorrect`, `TimerSoundAlways`, `CallsOnTimeAlways`: `TimerSound` is an invariant
  and `CallsOnTime` holds of every step. `TimerInv` adds that the timeout which is named
  is in one place (`InOnePlace`: queued, armed or completed, and completed only when
  its time has come), that what is being cancelled is muted (`CancelsMuted`), and that
  the time the next call is due for is `timer->time` (`DueIsTime`).

`EventProofs.tla`, for any number of descriptors and up to 2047 signals each (a larger
count, passed to `eventfd()` by `event_open`, would be other flags than the one section 5
speaks of):

* `EventCorrect`, `EventSoundAlways`, `ClosedIsSilentAlways`. `EventInv` adds where the
  reads of closed descriptors may be: before their cancellations, and those before the
  reads of later descriptors (`CancelledFirst`), so that the buffer `counter` they share
  is written for the open one last; that reads fail for a cause (`FailsForCause`); and
  how many signals the counts and failures that section 5 describes have taken
  (`CountsSent`, `FlagsLeft`).

`AsyncProofs.tla`, for any number of requests and any resolvers, which are not what
stands for the other applications (`CallersAssumption`):

* `AsyncCorrect`, `AsyncSoundAlways`, `AnswersOwnAlways`. `AsyncInv` ties the stages of
  the thread, of its eventfd and of the loop together (`Lives`), says whose call and
  strings are held (`CallsHeld`), when the result and the code of a lookup are there
  (`ResultsHeld`), which lists are in memory (`ListsHeld`), which words a thread can have
  read (`WordsRead`), and that an answered lookup is over (`AnsweredIsOver`).

`StreamProofs.tla`, for any numbers of bytes and reads, and any descriptors:

* `StreamCorrect`, `StreamSoundAlways`, `FlushedMeansSentAlways`, and
  `OutputInOrderAlways`, that exact writes are steps of `Channel`: to a socket, bytes
  come out in the order of `stream_write`, each once, however the writes are cut; to a
  file or a pipe, up to the first write that is not taken whole, that one included. The
  bytes on the wire, in the buffer and in the one behind are consecutive numbers
  (`OutputKept`), with a cancelled write as the continuation of the wire (`OrphanKept`),
  and the same on the way in (`InputKept`); a file has no hole (`OffsetKept`). What
  `StreamInv` says of buffers in flight and of the input needs no exactness, and there is
  no hypothesis about descriptors. After a write that was not taken whole nothing is
  claimed of the output, and nothing could be: `MCStreamShort.cfg` (section 5).

`ServerProofs.tla`, for any clients, none of which is one of the words that stand for the
result of an operation (`ClientsAssumption`), and any number of requests:

* `ServerCorrect`, `ServerSoundAlways`, `RequestIntactAlways`. The proof looks at one
  session at a time: `Kept` is what holds of the record alone, and each of `Flush`,
  `Read`, `IO`, `Gone`, the arrival of bytes, the parsing of a request and its response
  is shown to keep it by a lemma of its own. `Change` says which records, flags and
  requests a step may change together; `ControlKept` and `ChangeKept` show that such a
  step keeps `ServerInv`, and one lemma per action shows that it is one. `ServerInv` adds
  to `ServerSound` that a request the application has is in progress or its session is
  gone (`HeldIsBusy`), where the application and the listening socket are (`StatesAgree`),
  and the sizes of what a session has (`SessionsFit`).

`QueueProofs.tla`, for any producers and consumers, any sizes of elements, batches and
pipe, and any number of closes and of `EINTR`:

* `QueueTyped`, `QueueResultsWhole`, `QueuePoppedSound`, `QueueInFlightIntact`,
  `QueueNothingLost`, `QueueClosedIsSilent`: the parts of `PoppedSound` and `BuffersSound`,
  the assertions of the handlers, that a closed consumer is silent, that a close in the
  callback tells the running handler, and that only the close of a consumer that was
  opened again writes to the flag of one that has returned.
* `QueueBuffersSound` and `QueueImplementsChannel`, where nothing is opened again
  (`MaxReopens = 0`), the second for one producer and one consumer. The condition is
  needed: what a producer or consumer had on its way when it was closed may be gone when
  it is open again. `QueueNothingLost` says the same state by state: as long as nothing was
  opened again, no byte is lost while nothing is closed.
* `QueueInv` says of each producer that `output` and `output_queued` hold the last bytes
  pushed (`Filled`), that a write is in flight while there is output (`Writing`), and what
  its cancelled writes may still write (`Orphaned`); of each consumer what the rest of its
  batch is (`Reading`). `FlowKept` says that what has left a producer comes in the order of
  its bytes, through the pipe and the consumers, that no two consumers have the same, and
  that all of it comes before what a cancelled write still has. `Covered` says that none
  of it is missing while nothing is closed, and `ClosedOnly` that only what was closed has
  cancelled anything. For the refinement, what one consumer was given, the rest of its
  batch and the pipe are the first bytes of the producer in a line, which a cancelled
  write continues (`InLine`); a step appends to the line, or moves the boundary of what was
  handed over.
* Hypothesis: `WritesAreWhole`, of all eight: elements are single bytes, or `WriteMax`
  (128) of them fit in `PIPE_BUF`, as those of up to 32 bytes do. `MCQueueTorn.cfg`
  (section 5) is the counterexample for larger ones.

Each inductive invariant was an invariant of a run of TLC before it was proved.

Only model-checked: `NotifySound` and the `ClosedIsSilent` of *Notify*, which are not
proved yet; `HeapSound` and `ImplementsSlots` of *Pool*, and `HttpSound` and
`ResponseExact` of *Http*, whose parts speak of powers of two and ten, of sums and of
selections from a sequence: what such functions are for every argument takes an induction
over data. Liveness stays with TLC (`CancelledEnds`,
`NextIsCalled`, `SignalArrives`, `DueIsCalled`, `OutputDrains`, `PushedIsPopped`,
`NotifyProgress`, `RequestsAreServed`, `LookupsAnswered`, `CallsEnd`, `RequestsAreRead`):
TLAPS does not reason about fairness or ENABLED. The theorems of
`ReactorProofs` allow any free slot to be taken; that the pool gives out a free
one is `ImplementsSlots`, which is model-checked.

## 5. Limits of the code

The models follow the code where it may go wrong, and the properties of the runs
name these places as their only exceptions (`FailsByCountOnly`, `lapped`,
`HeldUntilSendFails`, `TornByCancelOnly`, `hasty`, ...). Each is shown by a
configuration that is kept for reference, is not among the runs of `PROJECT.json`
and ends with a counterexample.

* `MCReactorOverrun.cfg`, `RequestKeepsUser`: a completion entry is used after it
  was released (`reactor.c:277`). With a real ring this takes as many completions
  as the completion queue has entries while one callback runs.
* `MCEventReopen.cfg`, `ReopenWorks`: `event_open` passes the last counter as the
  flags of `eventfd()` (`event.c:31`). After a counter of one the new descriptor is a
  semaphore; after two or more it cannot be made, and the handler's assertion
  fails. `FlagIsAlive` in the same configuration: a handler that was aborted leaves
  `event->abort` pointing at its local variable (`event.c:19`); closing the event
  once more, after it was opened again, writes there. (TLC shows both with `-continue`.)
* `MCQueueFlag.cfg`, `FlagIsAlive`: the same in a queue. A consumer closed in its callback
  makes the handler return with `consumer->abort` as it is (`queue.c:148`); opened
  again, and closed before it is given another batch, it writes there (`queue.c:200`).
* `MCServerFreed.cfg`, `HeldIsAlive`: a session whose response cannot be sent is freed
  while its next request is in progress (`server.c:95`); the application is not told
  and responds to a request that is gone.
* `MCAsyncTorn.cfg`, `PairIntact`: `reactor_cancel` writes the two words of the user
  while the thread of `reactor_async` reads them (`reactor.c:192`), and a callback is
  called with the state of another.
* `MCStreamShort.cfg`, `AlwaysInOrder`: a partial write to a descriptor that is not a
  socket is followed by the whole buffer again (`stream.c:73`), where `stream.c:49` says
  "partial write, continue writing". A pipe gets the first part twice. A file gets
  it twice at the same place; the two counts may add up to the size of the buffer when
  its end was never written, so that it is cleared and STREAM_FLUSHED follows, or pass
  it, and then the write is repeated for ever. This takes a short count, as of a full
  disk, a limit on the size of files, or more than 2 GiB at once.
* `MCHttpWidth.cfg`, `SizesHold`: a size in a chunk line for which `n` wraps
  (`http.c:88`) passes the test of line 89, and line 114 moves as many bytes; a
  Content-Length for which `n + size` wraps passes that of line 156, and the body given
  to the application is not in the buffer; and a request of 2 GiB is negative as an int
  (lines 159 and 170), which the assertion of `server.c:61` does not allow. TLC finds the
  last one first; with `pc # "wild"` as the invariant it finds the others.
* `MCQueueTorn.cfg`, `ResultsAreWhole`: a batch of more than `PIPE_BUF` bytes may
  be taken in part, not at an element, and the assertion of `queue.c:47` fails.
* `MCNotifyGone.cfg`, `RemoveSucceeds`: an entry whose watch is gone, with its file or
  with the entry of another path of the file, cannot be removed, nor the notify
  closed: the assertion of `notify.c:69` fails.
* `MCNotifyFreed.cfg`, `NothingAfterDestruct`: `notify_destruct` leaves a next
  callback (`notify.c:74`) and a read behind that refer to the notify.
  `BufferKept` in the same configuration (with `-continue`): a read that `notify_add`
  starts in a callback, taken there since the submission queue was full, replaces
  events of the batch before the handler has come to them (`notify.c:25`, `notify.c:50`);
  it then hands over events of the later read twice, and those replaced not at all.
* `MCNotifyEnds.cfg`, `EveryCloseEnds`: a close after the last entry was removed
  cancels the callback that would cancel the read (`notify.c:148`), which then
  ends only if an event comes.

Without a configuration: a producer of a queue that was closed in the middle of its
output and is opened again never writes (`queue.c:120`; the exception in
`IdleByReopenOnly`). A resolver destroyed during a lookup leaves its thread without
strings and its result without a place (`hasty` in `Async`). And `Server` marks
what `server_close` loses: a connection whose accept has completed, but whose
callback has not run, is cancelled with its descriptor (`"leaked"`).

## 6. Plan

Done: models of every component that keeps state between calls, and proofs of the
safety properties of the core, *Event*, *Timer*, *Stream*, *Queue*, *Server*, *Async* and
*Map*, with the refinements of `Operations`, `Channel` (twice) and `Dictionary`.

Next, in this order:

1. `NotifySound` of *Notify*.
2. `RingsSound` of *Pool* and its refinement of *Slots*.
3. The components on top of `Operations` instead of what each has of the ring.

## 7. Not modelled

* In the core: results of operations (the components model those they use),
  `reactor_now`, the reference count of `reactor_construct`, the mapping of the
  rings, and kernel errors that make an assertion of the ring code fail.
* `stream_open` of a stream that was used before (it keeps `data_next`,
  `partial_write` and the offsets, `stream.c:137`), `notify_open` after
  `notify_close` (its `abort` would be left behind as that of a queue's consumer is,
  `notify.c:57`), `stream_consume` during a read: no program of the repository does
  these.
* In `queue.c`, two uses of the buffer of a consumer while a batch in it is handed over:
  a read popped in the callback that the kernel takes before the callback returns (the
  submission queue would have to be full; `Taking` in *Queue*), and
  `queue_consumer_pop_sync` in the callback or with a read in flight. Either would replace
  elements of the batch; no program of the repository does these.
* In `notify.c`, the names that events of a directory have, and with them the sizes of
  events: a read into a batch that is gone through could also leave the handler between
  two events.
* The key 0 of `mapi.c`, with which an empty element is told (`mapi.c:22`), and the
  string keys of `maps.c`; the library inserts no such key, and `map.c` is the same
  for both.
* In `http.c`: the text of numbers (`strtoull` is modelled by the number it returns, the
  largest if what the client writes is larger), responses of 4 GiB, whose size would be
  cut to 32 bits, the text of heads, which is the
  parser's, and `request->body` of a request that has none (`server.c:53`): it
  keeps an old value, as the model does, and no property speaks of it.
* `hash.c` and `object.c`, pure or unused by the rest; the fill, range and
  compaction operations of `buffer.c` and `vector.c`, unused by the rest; the date
  of the server and its timer; `picohttpparser`, which is vendored; the examples.
