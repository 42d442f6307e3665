# A verification of Ohnrscript's runtime packages

Ohnrscript is a language whose programs run without a garbage collector. Its
repository holds a self-hosted compiler with the scripts that bootstrap it,
class transforms (Babel plugins), JavaScript packages, and native packages written
in the language itself over C bindings: an HTTP/TLS server (`packages-llvm/node.ohn`),
worker threads (`workers.ohn`), a storage engine
(`db.ohn`) and a bare-metal kernel (`ohn-kernel`). This directory models the
parts of it where order, concurrency, failure and limits decide whether the
program is right: TLA+ modules translated from the source, TLC runs on small
instances, and proofs checked by TLAPS for every size.

Paths below are relative to the repository; `node.ohn/x.ohn` stands for
`packages-llvm/node.ohn/src/x.ohn`, and so on. `PROJECT.json` has the machine
readable side: which definition models which lines (`map`), the runs, a
plausible bug for each property (`mutants`), the hazards and the theorems.

## 1. The system's parts

| Part | State | Operations | Meets | What is hard |
|---|---|---|---|---|
| workers.ohn | per worker a ring of 256 cells, `head`, `tail`, `is_sleeping`, a semaphore | `postMessage`, `receiveMessage`, `spawnWorker`, `joinWorker` | any thread posts, one worker receives | lock-free ring, sleep/wake protocol, memory order, wrapping counters, drain at join |
| node.ohn timeouts | two heap arrays, the map from slot to place | `timeout_add/touch/remove/poll` | called by the event loop | two arrays and a map kept inverse while sifting; removal from the middle |
| node.ohn event loop | tables indexed by slot, `active_count`, the batch of events | accept, handshake, read, write, evict | kernel (epoll/kqueue), clients, timers, TLS | events that are late, descriptors reused, deadlines, capacity |
| node.ohn request stream | a slot's buffer, parser state, `bytes_read`, `bytes_written` | `http_parse_*`, `router_handle`, `handleRead`, `handleWrite` | the loop | fragments, one buffer for request and response, keep-alive |
| node.ohn completion queue | ring with sentinel, `mpsc_head`, `mpsc_tail` | `mpsc_push`, `mpsc_pop` | TLS handshakes push, the TLS client polls | claim before write, masked indices, full queue |
| node.ohn outbound | queued bytes and paused flag per slot | enqueue, dequeue, clear | nothing calls it yet | water marks, resuming the writer |
| node.ohn server, TLS client | forked processes; a Promise polled by a timer | start, connect | the kernel spreads connections over workers | completions for other slots dropped |
| tls.ohn | as node.ohn | as node.ohn | | an older variant of the same files |
| db.ohn | frames, page table with dirty bits, a rwlock per frame, the log's tail | read/write page, flush, insert, search | disk calls | lock upgrade, log before page, crash between two writes, a full page |
| ohn-kernel rings | descriptors, available and used rings in memory shared with the device | populate, recycle, push, two polling loops | virtio device, interrupts | buffers recycled while still to be sent, ring without room check |
| ohn-kernel TCP/ARP | one connection's counters, checksums | handle packet, ARP reply | rings | sequence arithmetic, 16-bit sums |
| compiler arena, emitter, runtime | hash table, scopes, output buffer, bump allocator | insert, lookup, emit, flush, alloc | the parser and generators | full table, buffer boundary |
| compiler scripts | the stage directories on disk | `bootstrap.js`, `compile.js` | sources, each other's files | kills, edits meanwhile, a stage in use while it is written |
| compiler serializer | one buffer | `serialize`; a reader by lengths | the native parts that would read it | lengths of nested nodes |
| compiler parser, generators | the text | one pass | | a question of grammar and translation |
| core: binary layout | `currentOffset`, the class body it edits | one element after the other | generated getters | offsets, removal while walking, short buffers |
| core: CBOR transform | `_size`, `_offset` in generated code | `toCBOR`, `fromCBOR` and their string helpers | any CBOR decoder, the transport | sizes computed apart from the writing, surrogates, truncation |
| ohn-uuid | one pool of random bytes, two shared buffers | two generators, `fillEntropy` | each other, through the pool | refills, reuse of bytes |
| ohn-cookie | indices | `scanCookies`, `getCookie` | HTTP headers | ends of input, blanks, empty parts |
| ohn-ws | the caller's buffer, edited in place | `parseFrame` | a socket's chunks | unmasking once, incomplete frames |
| ohn-cbor, ohn-zod, ohn-vector, sort, hash | none | pure functions | | agreement with a reference |
| demonstrations, benchmarks, docs, vendored mbedtls | | | | outside the system modelled |

What makes each part correct:

* workers: no message is overwritten, lost, duplicated or reordered; a push
  fails only if the ring is full; a sleeping worker with mail is woken; joining
  leaves nothing behind.
* timeouts: the heap is a table of deadlines whose poll hands over one that is
  due first; no slot is refused; the map and the arrays never disagree.
* event loop: slots, sockets, registrations and timers are four views of one
  set of connections; no late event touches the wrong one; silent clients go.
* request stream: each request is answered once, by its own answer, in full.
* completion queue: the queue is a bounded FIFO; nobody's completion is lost.
* db.ohn: a page read is the page last written; what was flushed survives.
* packages and transforms: they agree with a reference said in other words, at
  every boundary; uuid uses no random byte twice.
* compiler scripts: a verified bootstrap is a fixed point; a mismatch means that
  somebody edited the sources or that they describe no fixed point; what
  `compile.js` runs from stage 2 is one whole compiler if nobody changes it meanwhile.
* kernel rings: a buffer has one owner; nothing is sent from a recycled one.
* arena, emitter: agreement with a reference definition.

## 2. The modules

| Module | Models | Extends / uses |
|---|---|---|
| `FifoMailbox` | what a mailbox promises: a bounded first-in first-out channel | |
| `WorkerMailbox` | `workers.ohn/bindings.c` push, pop, sleep, join and `worker.ohn` | implements `FifoMailbox` |
| `MCWorkerMailbox` | small instances, symmetry of producers | `WorkerMailbox` |
| `WorkerMailbox_proofs` | theorems about the mailbox, with the arithmetic of wrapping counters | `WorkerMailbox` |
| `TimerTable` | what the timers promise: a table of deadlines | |
| `TimeoutHeap` | `node.ohn/timeout.ohn` | implements `TimerTable` |
| `TimeoutHeap_proofs` | theorems about the heap | `TimeoutHeap` |
| `EventLoop` | `node.ohn/loop.ohn` and the poll calls of `bindings.c` | `INSTANCE TimerTable` for its timers |
| `EventLoop_proofs` | theorems about the loop | `EventLoop` |
| `RequestStream` | the bytes of a connection: `loop.ohn`, `http.ohn`, `router.ohn` | |
| `RequestStream_proofs` | theorems about a connection | `RequestStream` |
| `MCRequestStream` | paths and places to cut for TLC | `RequestStream` |
| `BufferPool` | `db.ohn`: page table, frame locks, log, flush, kill and restart | |
| `SlottedPage` | `db.ohn`: tuples and slots in one page | |
| `Database_proofs` | theorems about the pool and the page | `BufferPool`, `SlottedPage` |
| `MCDatabase` | the pool, and a page being filled | `BufferPool`, `SlottedPage` |
| `Bootstrap` | `compiler/scripts/bootstrap.js` | |
| `CompileCli` | `compiler/scripts/compile.js` beside a bootstrap | `Bootstrap` |
| `Compiler_proofs` | theorems about both scripts and the serializer | `CompileCli`, `AstSerializer` |
| `AstSerializer` | `compiler/src/shim/serializer.js` and a reader of its output | |
| `BinaryLayout` | `core/src/plugins/babel-plugin-binary-layout.js` and the getters it makes | |
| `Utf16Text` | the string helpers of the CBOR transform | |
| `CborAot` | `core/src/plugins/babel-plugin-cbor-aot.js` and the methods it makes | `Utf16Text` |
| `MCCborAot` | classes and objects for TLC | `CborAot` |
| `Plugins_proofs` | theorems about both transforms | `BinaryLayout`, `CborAot` |
| `UuidPool` | `packages/ohn-uuid/src/ohn-uuid.js` | |
| `CookieScanner` | `packages/ohn-cookie/src/ohn-cookie.js` | |
| `WsFrame` | `packages/ohn-ws/src/ohn-ws.js` and the buffer around it | |
| `Packages_proofs` | theorems about the three packages | `UuidPool`, `CookieScanner`, `WsFrame` |
| `MCComponents` | the parts that stand alone, with their inputs | `TimeoutHeap`, `CompileCli` and the modules of packages, plugins and serializer |

The event loop does not carry the heap: it uses the table, and
`TimeoutHeap_proofs` shows that the heap is that table. Likewise `EventLoop`
leaves the contents of the bytes open (a read is followed by "more", "too long"
or "complete") and `RequestStream` fills them in for one connection.

`MCComponents` and `MCDatabase` put parts side by side that do not interact. Their
variable `subject` is chosen in the initial state and names the part that runs;
the others keep one initial state. So the state space is the sum of the parts',
not their product, and a property speaks of its own part.

### WorkerMailbox

One action is one access to shared memory, named after what the code does
there: `BeginPush` loads `head`, `PassCheck`/`RejectPush` load `tail`,
`Reserve`/`FailReserve` are the compare-exchange, `StoreCell` the release
store, `CheckSleep` the load of `is_sleeping`, `Post` the semaphore;
`PopLoad`, `PopExchange`, `PopAdvance` are a pop; `SetFlag`, `Recheck`,
`SemWait`, `ClearFlag` are `sys_worker_sleep`; `Join` is the drain. With
`StoreBuffers` each thread's plain stores wait in a buffer and become visible
in order (`DrainCell`, `DrainWorker`), as on x86-64; a locked instruction waits
for its own buffer. `reserved` and `delivered` are histories.

### TimeoutHeap

An API call is one action up to its sifting loop, and each iteration of
`heap_sift_up` and `heap_sift_down` (`SiftUp`, `SiftDown`) is one more, so the
invariants speak of every intermediate array. `pc`, `idx` and `then_down` are
the loops' control. `timed` is a history: slots that have a timer. A caller
touches and removes only slots it added before, as `loop.ohn` does:
`slot_to_heap_idx` starts as 0 and not as -1, so a call for a slot never added
would name place 0.

### EventLoop

`PollWait` takes a batch of events and the time; `Evict` closes one overdue
slot; `Dispatch`, `ReadEvent`, `WriteEvent` and `AcceptOne`/`AcceptNone` are the
dispatch of the batch. Between any two of them `Client` may connect, send,
end or reset. A batch is a set of events handled in any order, because their
order is the kernel's; under epoll (`MergedEvents`) a descriptor has one event
with both bits, under kqueue one per filter. `ReadEvent` and `WriteEvent` of one
event use the slot found before the read, as the code does. Timers are kept as
the seconds that remain. `benchmark` is the environment variable
`OHN_BENCHMARK`, which turns TLS off. Workers are forked processes with memory
of their own, so one loop is single-threaded. Descriptor 0 is taken not to be a
socket. The draining branch is left out: nothing sets `draining_mode`
(`loop.ohn:45`) and no signal handler is installed.

### RequestStream

Bytes are tokens: the method with its space, pieces of the path, the space
after it, header lines and the two line ends. `HandleRead` is the whole handler:
store at offset 0, add to `bytes_read`, parse method, route and end of header,
call the router, put the response into the same buffer. `HandleWrite` writes
from offset 0. `Cuts` names the tokens after which a request may be cut into
two reads, `PartialWrites` whether the kernel may take a part of a response.
The rolling hash is replaced by the tokens it is computed of, so collisions do
not occur. The client waits for an answer before it sends the next request.

### BufferPool

A thread of the program that uses db.ohn asks for a page to read or to write,
uses it and releases it, or forgets to (`Forgetful`, as `main.ohn` does). One
action is one C call: a lock, an unlock, a disk read or write; a frame's page
table entry and contents change with the call that precedes them in the code,
since whoever does that holds the lock. `db_read_page` gives its read lock up
before it takes the write lock and does not look at the page table again
(`db.ohn:49`): anything may happen between `Escalate` and `ReadMiss`. An
eviction appends to the log and then writes the page, and the append, which takes no lock,
is four steps: the tail is loaded as an argument (`ReadTail`), the image written
there (`AppendImage`), the tail loaded again (`CountImage`) and stored with one
added (`Advance`); `tail` is what the thread has loaded. `db_flush_all` goes through the frames
while others go on. `Restart` ends the process between any two steps and starts
it again with `db_init`: only `disk` survives, since the log is written over from
its beginning and never read. A page image is its number and
the number of the write that made it. `latest` and `durable` are histories: the
last change of each page, and the one a completed flush covered. `met` is one
too: it says of a thread that another was inside `db_wal_append` while it was.
`LogBeforePage` excuses the append of such a thread and no other.

### SlottedPage

`db_page_init` and `db_slot_insert` on the words of one page, and
`db_tuple_search` as an operator on them. Nothing checks for room; inserts are
bounded to one more than fit.

### Bootstrap and CompileCli

One action is one file operation: a file is removed, required, compiled, written,
its paths fixed, hashed. Stage n reads the sources again. A run may be killed
between any two of them and the next starts from what is on disk. `EditSource`
changes a source. A compiler is the text of its five files, and what it generates is
a function of that text and of the version of the source it is given, `Emit`, of
which nothing else is assumed: different compilers and different versions may
generate the same text, as after an edit of a comment. `verify` compares bytes
(`SameBytes`), not versions; a file's record also says who made it of what, for
`CompilerIn` to know its text. A source is read to its end or not at all.
`CompileCli` runs `compile.js` beside all this: it looks for stage 2's parser,
requires the files one by one, compiles and writes. Three histories say what
befell stage 2: `torn` (it has changed since a bootstrap last completed it),
`foundTorn` (so when `compile.js` took its compiler there) and `moved` (it changed
between that and the last require from there).

### AstSerializer

A tree is the sequence of its nodes, each after those it refers to and the root
last; `Serialize` is one call of `serialize` and finds what the calls for the
children return in the table of the nodes before (`Serialized`). The reader, as the
repository's validation does, goes from header to header, one node a step
(`ReadNode`, `LeaveNode`). `AstAssumption` says that Babel's trees are trees, and
that the whole is shorter than 2^32 bytes: beyond that `writeUInt32LE` throws and
there are no bytes to read.

### BinaryLayout

One step handles one element of the class body: `PlaceField` adds a getter and
removes the property, `SkipElement` leaves it, `InjectMembers` ends the loop. The
generated getters are operators on the length of the buffer they are given.

### CborAot and Utf16Text

The transform emits, per property, a statement for the size, one that writes and
one that reads. Each is a step of the object that runs the generated code:
`SizeField`, `Allocate`, `WriteField` or `RefuseField`, `ReturnBuffer`; then
`CutBuffer`, external, which takes the end away or not; then `ReadField` or
`FailField`, `ReturnObject`. Digits have `Radix` values and tags hold counts
below `Inline`, instead of 256 and 24. A key is a sequence of UTF-16 units, of which
the plugin stores the low bytes after a head of one byte (`KeyHead`, `KeyBytes`).
`toCBOR` checks a number for its 32 bits, `fromCBOR` the limits; a property without a
type has a key and no value. The helpers for strings work on the code's own code
units and surrogate ranges.

### UuidPool, CookieScanner, WsFrame

A call of `generateUUIDv4` or `generateUUIDv4Raw` goes byte by byte (`TakeByte`,
`SkipHyphen`), so that its reads from the pool and its writes can be told apart;
a byte is known by the fill and offset it came from. `FillEntropy` is exported and
may be called whenever no generator runs. A step of `CookieScanner` is one cookie
of the scan, then `getCookie`; a header is a sequence of bytes, the four the scanner
tells apart and letters. `WsFrame` receives the stream in any chunks and
calls `parseFrame` on what it has, which unmasks in place; what a frame looks
like on the wire (`Encode`) is the peer's side, external.

## 3. The runs

| Run | Checks | Instance | States |
|---|---|---|---|
| `mailbox_tso` | `NoOverwrite`, `InOrder`, `IInv`, `ImplementsFifo`, `OnlyKnownLosses` | 2 producers, 2 cells, counters that wrap, 4 reservations, store buffers | 253 000 |
| `mailbox_live` | `NoLostWakeup`, `NothingLeaked`, `EventuallyReceived` | 2 producers, 2 cells, 3 reservations, sequentially consistent | 41 000 |
| `mailbox_spurious_full` | `RejectOnlyWhenFull` is violated | 2 producers | |
| `mailbox_lost_wakeup` | `NoLostWakeup` is violated | 1 producer, store buffers | |
| `loop_safety` | `TypeOK`, `NothingLeaked`, `ListensForItsState`, `EvictedOnTime`, `HandshakeSoonEvicted`, `OnlyAcceptStarts` | 2 slots, 3 descriptors, epoll, with and without TLS | 1 081 000 |
| `loop_live` | `NothingLeaked`, `SilentEvicted` | 2 slots, 2 descriptors, kqueue | 349 000 |
| `loop_late_write` | `SilentSoonEvicted` is violated | as `loop_safety` | |
| `requests` | `AnswersMatch`, `EveryRequestAnswered` | 3 requests, 5 paths, each in one read | 295 |
| `request_fragments` | `AnswersMatch` is violated | the same, cut anywhere | |
| `database` | `PagesAsWritten`, `Durable`, `LogBeforePage`; `SearchFindsInserted` | 2 threads, 2 frames, 3 pages, kills; a page of 22 words | 6 021 000 |
| `components` | timers: `IInv`, `NeverRefused`, `ImplementsTimerTable`; uuid: `UuidWhole`, `EntropyReadOnce`; cookie: `PointersInOrder`, `AgreesWithSplit`; ws: `FramesAsSent`; layout: `FieldsTilePacket`, `GettersReadTheirField`; serializer: `WalkFindsStatements`; CBOR: `SizeIsExact`, `RoundTrip`, `CutOnlyInLastValue`, `StandardDecoderAgrees`; scripts: `VerifiedIsFixedPoint`, `MismatchOnlyAfterEdit`, `CompilesWithOneCompiler` | see Bounds | 1 698 000 |
| `cbor_zod` | `DecoratedComesBack` is violated | two numbers with the limits of a `@uint32` | |

### What the violated ones show

* `mailbox_spurious_full`: `sys_mpsc_push` loads `head` before `tail`
  (`workers.ohn/bindings.c:53-56`). When others advance in between, the unsigned
  difference underflows and the push reports a full queue that is not full;
  `postMessage` then ends the process. Needs a second producer.
* `mailbox_lost_wakeup`: raising `is_sleeping` is a release store and the double
  check an acquire load; on x86-64 they may take effect in the other order, and
  the worker sleeps with a message in its mailbox.
* `loop_late_write`: one batch closes a connection, accepts another on its
  descriptor and then handles a write event of the old one: the new connection,
  which sent nothing, has its deadline moved from 5 to 30 seconds.
* `request_fragments`: every read stores at offset 0, so the second part of a
  request overwrites the first while the parser goes on; the smallest case is
  `GET` cut from its path, answered 405.
* `cbor_zod`: `docs/api/ohn-zod.md:64` shows `@uint32({ min: 0, max: 4294967295 })`
  for a "32-bit unsigned integer field". `toCBOR` throws at every number from 2^31 on,
  whatever the limits (`babel-plugin-cbor-aot.js:167`). The run gives the property
  the type `number`, which the example (`:65`) has not: a property without a type is
  written as a key without a value (`:312-314`). And `maxLength` (`:82`) is compared
  with the length in bytes of the UTF-8 form (`:226`). `RoundTrip` says what the
  code does do: it carries the values of `Carried` and throws at all others.

More is in the models and not in a run of its own. `OnlyKnownLosses` names the
three ways in which the mailbox disappoints a caller, two of which no violated
run shows: `receiveMessage` retries once after sleeping and returns 0 if the cell
it meets is reserved but not stored yet (`worker.ohn:45`), and the drain compares
wrapped 32-bit counters with `<` and then frees nothing (`bindings.c:152`). A response the
kernel takes only a part of continues from offset 0 (`PartialWrites = TRUE`
violates `AnswersMatch`; `loop.ohn:329` speaks of tracking partial writes). A
405 answer is 54 bytes and `router_handle` returns 55, so a byte of the request
follows it (`Methods` with `"POST"` violates `AnswersMatch`). And `SIGTERM` ends
the process at once, where `node.ohn/README.md:82` describes a draining phase.
Two threads that append at the same moment may take the same place in the log, leave
a hole in it, or move `wal_tail_lba` back so that a later append overwrites an image
(`db.ohn:35-36`); `LogBeforePage` says that no image is lost before its page is
written but those of appends that met another. A page that was not
cached comes with a write lock from `db_read_page`, which `main.ohn:35` never
gives back. A bootstrap that fails its verification leaves stage 2 where
`compile.js` takes it (`developer_guide.md:785` has it that the compiler is
"compiled through a verified 3-stage bootstrap"). `verify` compares bytes, so an edit
between two stages that leaves no trace in them is not noticed, and a verified stage 2
need not come from the sources stage 1 came from: `VerifiedIsFixedPoint` speaks of
the compiler and of what the sources held after stage 2 was complete, and no more.
Beside a running bootstrap, or after a killed one, `compile.js` may throw or mix two
compilers: `CompilesWithOneCompiler` says that it throws only if stage 2 was
unfinished when it looked there or changed afterwards, and mixes only in the latter
case. `toCBOR` does not check the limits that `fromCBOR` enforces; a key of 24
units or more gets a head that no CBOR decoder understands, and one that is
not ASCII is not UTF-8 (`Portable` leaves both out).

### Bounds

* Mailbox: two cells are the fewest on which full, empty, wrap of the cell index
  and a lap of the ring differ. Two producers are the fewest that race for a
  cell; the third reservation reuses a cell, the fourth does so again while the
  counters wrap (`Modulus` 8, `Start` 6). `MaxPush` bounds a run. It and
  `QueueSize` together stay below `Modulus`, which excludes a producer that is
  suspended between its load of `head` and its compare-exchange for 2^32 pushes.
* Heap: with four places all disjuncts of both loops fire. A removal that has to
  sift upwards needs six; those sizes are covered by the proof.
* Loop: a third descriptor lets one be rejected at capacity while two are held
  and lets a closed one be reused (`loop_live` does with two); `HandshakeSecs` 1 and `KeepAliveSecs` 2 keep
  the two deadlines apart; `RespLen` 2 lets a response be written in two steps
  (1 in `loop_live`); `MaxTick` 1 is one second a turn; `MaxBacklog` 1 refills
  as often as clients like; `MaxCompletions` 1 lets the queue fill up.
* Requests: three on one connection, so that what two earlier ones left is met;
  five paths with both routes, a query, an unknown one and one too long.

* Database: two frames and three pages, so two pages share a frame and one does
  not; two writes a page can tell apart old, logged and current contents;
  `MaxLog` 2 and `WAL_BASE` 10 leave room for two log entries after the pages
  (the model stops appending there). Three tuples fill 22 words exactly.
* Components. Timers: see Heap. uuid: 3 identifiers a fill, 3 fills, both generators. Cookie: all
  headers of up to 6 bytes over a letter, blank, `=` and `;`, all keys of up to
  2. ws: 2 frames, payloads of 0 to 5 bytes with extended lengths from 2 (radix
  2), so that all three forms of length occur, every chunking. Layout: classes of
  3 elements out of 26. Serializer: 3 statements, blocks in blocks, a string of
  260 bytes so that two digits of a length are used. CBOR: `Radix` 4 and `Inline`
  3, every property type on both sides of each boundary, code units on both
  sides of each surrogate range, keys of 1 to 4 units with and without ASCII.
  Scripts: 2 runs, 1 edit, a kill at any step, one compilation; generated texts are
  0 to 5, such that editing the lexer leaves no trace, the emitter changes what is
  generated of every source, the arena itself only, and the generator makes a
  compiler that does not reproduce itself (`MCEmit`). `Removals` bounds the sets of
  files that a killed `cleanDir` has removed to four, one for each way of what is
  left to deceive `compile.js` (the parser stays without its lexer, the generator is gone,
  `frontend/` alone is gone or left).
* `cbor_zod`: two numbers on both sides of 2^31, in four digits of base 4.

`CHECK_DEADLOCK FALSE` stands where the system may stop: a mailbox after
`Join` or `exit`, a client that sends no more, threads that wait for a lock one of
them forgot, a function that has returned or a script that has ended. The loop is
checked for deadlock.

### Fairness

* Mailbox: a thread that can run does, buffered stores drain, and a compare-
  exchange that could succeed again and again does at last (strong fairness of
  `Reserve`: each failure is somebody else's success or a spurious one). Nobody
  has to post, and the worker's function may return whenever it likes, which is
  why `EventuallyReceived` excepts it.
* Loop: the loop runs (`WF` of its steps, it never blocks for more than its
  timeout of one second); the clock moves (`SF` of a poll that takes a second);
  `SF` of `AcceptNone` says that clients do not refill the accept queue before
  every single `accept` for ever. The last is a real assumption: `acceptConnections`
  (`loop.ohn:143`) has no bound on its loop, and without it a flood starves
  evictions.
* Requests: the two handlers run while they have something to do.

The other parts state no liveness: a function ends because its loop does, and
threads of db.ohn may wait for each other for ever (a lock that is not released,
or taken again by its holder).

## 4. What is proved

For every number of producers, ring size, modulus and start, with and without
store buffers (`MailboxAssumption` is all that is assumed):

* `TypeCorrect`, `Invariance`: `TypeOK` and `IInv` hold always.
* `NeverOverwrites`, `ReceivesInOrder`: from `IInv`.
* `WakeupsArrive`: no wakeup is lost if memory is sequentially consistent.
* `Refinement`: the ring implements `FifoMailbox`.
* `LossesAreKnown`: a push is rejected, a receive comes back empty and the drain
  misses an arena for the reasons of `OnlyKnownLosses` only. A producer whose two
  counters are current computes the true number under way (`TicketDistance`); the
  cell the worker finds empty is, by `CellInv`, that of a message in a producer's
  hands; while `head` has not wrapped past `tail`, every ticket under way lies
  between them (`ModBetween`), so the drain visits its cell.
* `JoinFreesTheRest`: `NothingLeaked` holds as long as `Start + MaxPush < Modulus`,
  so that no counter wraps (the only theorem that assumes more); once `head` has
  wrapped and `tail` has not, the drain visits no cell, which is the case
  `LeaksForAReason` names.

`NoOverwrite` alone is not inductive: that the cell at a producer's ticket is
empty depends on who holds every other ticket. `IInv` numbers the messages:
message j has ticket `Start + j - 1` modulo `Modulus`. `CounterInv` ties `head`
and `tail` (in memory and in the store buffer) to the lengths of the histories,
`LocalInv` says a producer's copy of `head` was once its value and, while it is
current after the check, there is room, `HandsInv` and `WorkerInv` name the
message in each hand, and `CellInv` gives the contents of every cell from
these. Tickets less than a lap apart differ, and so do their cells: the first
part of `WorkerMailbox_proofs` has the arithmetic. There is one lemma per action.

For every number of slots up to the heap's size and any instants
(`HeapAssumption`):

* `Invariance`, `TypeCorrect`: the map and the arrays stay inverse through every
  iteration, and every index stays inside its array.
* `OrderedBetweenCalls`: heap order whenever no loop runs.
* `AddSucceeds`: `timeout_add` is never refused, by a pigeonhole argument: slots
  with a timer have different places, and the slot being added has none.
* `Refinement`: the heap implements `TimerTable`; in particular `timeout_poll`
  hands over a slot that is due first (`RootIsEarliest`, by the least place that
  would contradict it).

Heap order is not inductive inside the loops. `OrderExceptAtIdx` says what is:
only the edges that meet at `idx` may be out of order, and the children of
`idx` are not due before its parent.

For every number of slots and descriptors, any deadlines and lengths of a turn, under
epoll and kqueue, with and without TLS (`LoopAssumption`):

* `NothingIsLeaked`, `RegisteredForItsState`, `ExpiredAreEvicted`, `HandshakesAreShort`,
  `LoopTypes`: the conjuncts of `LoopInv`, which only together are inductive. That a
  write to a closed slot does nothing (the read part of the same event closed it)
  needs `SlotInv`: a slot not in use names no socket, and a slot that does not
  write has no bytes to write, so nothing but a request moves it to WRITING. Every
  step is an instance of one of four: closing a slot in use (`CloseStep`), taking a
  free one (`AdmitStep`), going on with one connection (`SlotStep`), or leaving the
  slots alone (`QuietStep`). The batch is not constrained at all: the proofs hold
  for any late, repeated or reordered events.
* `OnlyAcceptStartsSlots`, from the same invariant.

For every number of threads, frames and pages (the assumptions of `BufferPool`),
any bound on writes and log:

* `PagesStayAsWritten`: whoever is given a page finds its last contents. The
  invariant follows who holds each frame's lock and how, says of every step of
  an eviction which page the frame, the page table and the log hold just then,
  and that a page whose last write is not on disk is dirty in its frame. `Confined`
  says that a step touches one frame; `EvictStep` and `QuietStep` cut the proof into
  the steps that change frames and those that do not.
* `FlushedIsDurable`: `DurableInv` adds how far a flush has come: what it has
  passed is on disk, and the contents of a page on disk never get older.
* `LoggedBeforeWritten`: `LogInv` says of a thread whose append has met no other that
  the tail it holds is the shared one until it advances it, and its image is in the log
  there. Until its page is written the image then lies below the shared tail and below
  every tail that a thread in an append has loaded (`SafeAt`): nobody writes there, and
  whatever tail another stores, it is above.

* `SearchFindsFirst`, for pages of any size: the slots say where the tuples lie, in
  the order of the inserts and without overlap (`SlotsInv`), so the search, which
  goes through the slots in that order, stops at the first tuple of the key.

For every set of paths, any buffer and any limit of the request line:

* `AnswersInOrder`: a client that sends one GET at a time, in one piece, and whose
  socket takes each response whole gets its own answers, in full and in order.
  `Undivided` states those conditions; `request_fragments` and the two other cases
  named above show that `AnswersMatch` is false without any of them, so they are
  what the code needs and not what the proof needs. `StreamInv` has the
  four situations between two handlers: nothing is under way, the last request
  lies whole on the wire, its whole answer lies in the buffer, or the connection
  is closed.

For every set of elements, sizes, values and pools:

* `FieldsTile`, `GettersReadOnlyTheirs`: `LayoutInv` says that the fields placed so
  far tile the packet in the order of the class, and that elements not visited
  yet are untouched by removals.
* `BufferIsFilledExactly`: `_size` is the sum of the sizes of the fields counted so
  far, `_offset` that of the fields written (`CborInv`), and the size of each value
  is the length of its bytes: of a number at every width, of an array by its
  recursive definition, and of a string because `_utf8ByteLength` and
  `_writeString`, two loops with different branches, take the same number of
  units and bytes at every place (`LoopsAgree`). `CborAssumption` says what a class
  and an object are: annotations, limits, and a value of the annotated kind, with
  classes, strings and arrays shorter than 2^32, as JavaScript has them.
* `ObjectIsRestored`: `fromCBOR` gives back what `toCBOR` was given. The invariant
  (`RestoreInv`) adds the contents of the buffer to `CborInv`: the bytes written for
  each field, and those the reader has still to read, are where the offset says
  (`Sent`, `Holds`), and writing on does not change them (`WriteKeeps`). A number is
  read back at each width (`DigitsBack`, `ReadsNumber`, `ReadsCount`), an array
  element by element (`ReadsElements`), and a string because `_readString` undoes
  `_writeString` unit by unit, a lone surrogate being replaced (`TextRead`).
* `CutIsNoticed`, from the same invariant: after a cut the reader is in step with the
  writer, or has run out of bytes in the last typed property (`OnTrack`). A
  property before the last one is never half read, because what follows it is
  read too, and a count or a number beyond the end is refused (`CutKeeps`).
* `AnyDecoderAgrees`: a decoder written from RFC 8949 alone reads the same map. `HeadInv`
  says that the map's header stays as it was written, each head, value and
  pair is read where it was written (`StdCounted`, `StdValue`, `StdReadsMap`), and
  a written string is valid UTF-8, since each character's bytes are in the
  ranges of the standard (`ScalarBytes`, `WrittenTextIsValid`). The property is about
  classes whose keys are all short and typed; of others it says nothing.
* `EntropyIsReadOnce`: the pool's offset is where the bytes read so far in this fill
  end (`PoolInv`). `ResultsAreWhole`: of the text and the raw form, what is written so
  far comes from consecutive bytes (`ResultInv`).
* `PointersAreInOrder`, `ScanAgreesWithSplit`, for a header of any bytes and length: the
  pointers found so far are those of the segments before the scan's position,
  as many and in the same order, and one pass of the outer loop turns the next
  segment into one pointer (`CookieInv`). `getCookie` then returns the first of
  those that match.
* `FramesArriveWhole`, for frames of any length, any mask and any cut into chunks: what
  was received and not cut off, followed by what is on the wire, is the stream of
  the frames not taken yet (`FrameInv`). On the front of a frame `parseFrame` returns
  null, and on a whole one it reads the header that was encoded
  (`HeaderOfFrame`): digits of any radix read back the number (`ReadDigits`),
  eight of them in two halves (`EightByteLength`). Unmasking twice is the identity on
  a bit (`XorTwice`), so the proof needs that each byte is unmasked once.

For every number of runs and edits:

* `VerifiedMeansFixedPoint`, `MismatchMeansEdit`: `BootInv` says for each stage which
  of its files exist, from which versions and by which compiler, for every
  position in the script and whatever an earlier run left. Equal bytes then make
  stage 3 what stage 2 generates of itself (`EqualStages`); and without an edit the
  stages are what Babel, stage 1 and stage 2 make of the same sources, so they differ
  only if those sources do not describe a fixed point (`UneditedStages`). `Emit` is
  any function.
* `OneCompiler`: `StageInv` says that the files in stage 2 are written by one compiler
  and that one which is cut off or has its paths unfixed is the last of them, also
  after a kill. So a stage 2 whose parser and generator can be required is one whole
  compiler (`StageIsOneCompiler`), and one that has not changed since it was complete
  is whole if there is a file in it (`CompleteUnlessTorn`). `ToolInv` adds what
  `compile.js` has required so far, as long as stage 2 does not move.

For programs of any size and shape:

* `StatementsAreFound`: `WalkInv` keeps for every block the reader is inside of its
  children, where the first of them begins, how many the reader has passed and
  what it had read before the first. From these follow its position and all it
  has read (`Where`, `SeenAt`), and that a block ends where the child it is ends in
  the block around it (`Inside`). A step needs that the bytes of a block lie child
  by child in the buffer (`HoldsParts`), that a header reads back as it was
  written (`HeaderIsRead`), and that children that were left out take no bytes and
  say nothing (`SkipLeftOut`), so that a reader that has come to the end of a
  block has passed all that is in it (`WalkLeaves`).

Definitions that a proof speaks about are recursive functions: their existence is
shown by induction over their argument (`Upwards`, `Downwards`, from the
well-foundedness of `<`), once per function.

Every invariant that a passing run checks is proved. Only model-checked: all liveness
(the provers do not do fairness), and everything violated.

## 5. The plan

Done: the mailbox, the timeout heap, the event loop, the request stream, the
storage engine, the scripts, the binary layout, the CBOR transform, uuid, cookie
and ws packages, the serializer (modelled, checked and proved).

Next, in this order:

1. `CompletionRing`: `mpsc.ohn` and the TLS client's polling, with an abstract
   bounded queue and two producers; the masked compare-exchange needs a bound on
   laps as the mailbox has one.
2. `VirtioRings` (descriptor ownership, recycling against transmission, the two
   schedulers), `TcpResponder`, and the checksum against a reference.
3. `Outbound`, `SymbolArena`, `Emitter`, `BumpAllocator`.

### Not modelled

* The compiler's parser and generators: grammar and translation of text, where
  bounded exploration of states shows little.
* `core/bin/ohnc.js` and `core/bin/scaffold.js`: they run Babel over one file, and
  print a class for a JSON sample; they keep no state.
* ohn-zod exports decorators that do nothing at run time: the CBOR transform
  strips them and generates the checks. ohn-cbor is the code the transform
  generates. ohn-vector is element-wise arithmetic.
* tls.ohn: earlier versions of the files of node.ohn. Draining in `loop.ohn`:
  nothing sets `draining_mode`.
* db.ohn: torn writes of a page, failed writes (`bindings.c:77-80` ends the
  process) and short reads (`bindings.c:60-63` ignores them, and the frame keeps
  what it held).
* Demonstrations, benchmarks, editor support and vendored mbedtls.
