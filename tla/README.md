# Verification of the reactive streams library

TLA+ models of the Rust library in `src/`, TLC configurations that check them on
small instances, and TLAPS proofs of the main results for every instance. The
code is early-2015 Rust (pre-1.0); integer arithmetic there wraps silently.

## 1. Inventory

| Part | Source | State it keeps | Operations |
|---|---|---|---|
| Protocol | `reactive.rs`, `default_macros.rs` | the boxed subscriber of each stage | `subscribe`, `on_subscribe`, `on_next`, `on_complete`, `next`, `try_next`, `run` |
| Publishers | `publisherimpl.rs` | iterator, receiver or value | `next` / `try_next` of IterPublisher, RndGen, Coupler, Repeat |
| Processors | `processorimpl.rs` | Reduce's state, counts of Enumerate and Take | `on_next` of ten processors |
| Subscribers | `subscriber.rs` | Collect's vector, Decoupler's queue end | `on_next` |
| Queues | `sendable.rs` | queue contents (std mpsc, mio) | `send` in three flavours |
| NetStreamer | `net_stream.rs` | token, both queue ends of a socket | `on_next`, `next` |
| Scheduler | `scheduler.rs` | none | `fixed_loop` |
| Allocator | `mmap_allocator.rs` | header `current` in a shared file, `count` per handle | `new`, `load`, `allocate`, `num_allocated`, drop |
| Reactor | `reactor.rs` | slabs of listeners, timers and connections; buffers | `connect`, `listen`, `readable`, `writable`, `notify`, `timeout` |
| Framing | `protocol.rs` | partial frame | `append` |

**How they interact.** A thread owns a publisher and, through nested boxes, the
whole chain below it. It calls `next()` in a loop; the item goes down by nested
`on_next` calls and a Boolean comes back up: false ends `run()`. Threads share
nothing but queues: a Decoupler or a Tee sends, a Coupler or a NetStreamer
receives. When a thread ends or panics, its queue ends are dropped and this is
how the other side learns of it. The reactor is one more thread, reached through
mio's bounded notify queue and through bounded mpsc queues: one per client
connection, one for all connections of a listener. The allocator is shared by
threads, and by other handles (and processes) that have mapped the same file.

**What is hard.** Calls that block in the middle of a nested call tree; a false
that must find its way up through every processor; completion that can come from
three places; disconnection racing with queued items; early stops that leave the
other side blocked; a lock-free loop with wrapping arithmetic; crashes between
the steps of creating, loading and syncing a file; bytes that arrive in any
pieces and are moved between buffers; edge-triggered events that arise while a
handler runs; slab slots that are used again while messages for them are on
their way. `PROJECT.json` lists these hazards line by line.

**What makes each part correct.** Streams: the sink sees a legal sequence of
signals; an end is never silent; the chain computes what its stages say; nothing
is lost or reordered between threads; every thread ends. Allocator: blocks are
aligned, disjoint, inside the file; every call returns; counts add up; what was
synced survives crashes. Reactor: bytes keep their order both ways; no event is
missed; slots are given back; buffers reach their peer; the loop does not get
stuck; consumers learn of the end. Scheduler: turns are neither too close nor late.
Not all of this holds; section 3 says where it does not.

## 2. Modules

| Module | What it is |
|---|---|
| `Streams` | threads, chains, queues; its own safety properties |
| `StreamsReference` | what a chain should compute, as functions on whole sequences; properties that compare the two, and those across threads |
| `MCStreams` | the programs ("wirings") that TLC runs |
| `StreamsProofs` | theorems about `Streams` |
| `StreamsReferenceProofs` | theorems about what chains compute, what reaches the other side of a queue, and what a Decoupler can lose |
| `MappedRegion` | `allocate`, step by step |
| `BlockAllocator` | abstract: a log of blocks |
| `MCMappedRegion` | instance for TLC |
| `MappedRegionProofs` | theorems about `MappedRegion`, with the refinement |
| `RegionFile` | `new`, `load`, drop and crashes |
| `RegionFileProofs` | theorems about `RegionFile` |
| `Reactor` | the whole engine with its peers and the threads that use it |
| `ReactorProofs` | theorems about `Reactor` |
| `ConnectionRead` | the read path and framing of one connection, byte by byte |
| `ConnectionReadProofs` | theorems about `ConnectionRead` |
| `ConnectionWrite` | the write path of one connection, byte by byte |
| `ConnectionWriteProofs` | theorems about `ConnectionWrite` |
| `Scheduler` | `fixed_loop` |
| `SchedulerProofs` | theorems about `Scheduler` |

### Streams

`wiring` is the program, chosen in `Init` from the constant `Wiring` and never
changed: for each thread its publisher, chain and loop, for each queue its kind
and capacity. `Apply` stands for the closures given to Map, MapVal1 and Reduce.

| Variable | Code |
|---|---|
| `pc`, `at`, `item`, `ok` | program counter: the stage whose `on_next` runs, its argument, the Boolean on its way up |
| `stack` | frames of the Unzips in progress; every other call is in tail position |
| `mem` | `state` of Reduce, `count` of Enumerate and Take, the second half of the pair an Unzip holds |
| `source`, `left` | rest of the iterator; calls left of a counted loop |
| `chan` | queue contents |
| `pulled`, `seen`, `signals`, `sent` | history only: no action reads them |

One action per handler: `subscribe`, `IterNext`, `RepeatNext`, `RndGenNext`,
`CouplerNext` (Coupler, and NetStreamer as a publisher), `DoOnNext` (DoDebug,
DebugWhile, Do: they differ in what they print), `MapOnNext`, `MapVal1OnNext`,
`ReduceOnNext`, `EnumerateOnNext`, `TeeOnNext`, `UnzipOnNext` / `UnzipResume`,
`TakeOnNext`, `SinkOnNext`, `DecouplerOnNext` (Decoupler, and NetStreamer as a
sink), `Loop`. Error paths are included: `try_next` that is not implemented
panics, `next()` without a subscriber answers false, `on_complete` panics at a
processor without a subscriber, a Tee drops what it cannot send.

A handler is one step, except where it can block or call twice; between two
steps of one thread any other thread may run. `on_complete` is passed down within
one step, because nothing in it can block or fail except the panic. Of the
queues, which are external, the model keeps what `Sendable` lets the code see: a
Sender never blocks, a SyncSender blocks while full, both fail once the receiver
is gone; a full EventLoopSender fails at once; `recv` delivers what was queued
before the last sender went. Rendezvous channels (capacity 0) are excluded by
`WiringAssumption`. Counters are natural numbers: a `u64` or `usize` that grows by
one per item does not overflow.

`OwnershipAssumption` says that no two threads receive from one queue, and that an
iterator gives a sequence. The first is what Rust's types enforce: a Coupler owns
the Receiver it is made of, and the clones of a NetStream share theirs behind an
Arc, which cannot leave its thread because a Receiver is not Sync. Without it
`EndToEnd` would be false, since each of two receivers would get a part of the stream.

`StreamsReference` defines each processor on whole sequences (`Transform`): element
by element for those that keep nothing, the states of a fold for Reduce, positions
for Enumerate, halves of pairs for Unzip, a prefix for Take. `Given` composes them
along a chain. None of it refers to the state of `Streams`.

### MappedRegion

One step each for the alignment check (`Allocate`), the load of `current`
(`Load`), the compare-and-swap (`Swap`) and the end check with the count
(`Finish`). Words are modelled modulo `WordMod`. The initial state is the one
`MappedRegion::new` leaves; handles in addition to the first have loaded the same
file. `claims` records every block taken by a successful swap and `wrapped`
whether `current` has ever passed the end of the word; no action reads them.

`BlockAllocator` is what users rely on: each new block is aligned and lies above
all earlier ones, until the words run out; nothing is promised afterwards. The
refinement mapping takes `blocks` to `claims` and `exhausted` to `wrapped`.

### RegionFile

`file` is what processes see through their shared mappings, `disk` what outlives
a power failure. `new` is `New` (open), `Truncate`, `Map` (mmap and madvise) and
`WriteHeader`; `load` is `Load` (open, fstat, mmap), `Check` and, for a rejected
file, `Report`. `Allocate` is one step here (`MappedRegion` has its own), `Store`
is the caller filling its block, `Drop` is msync, munmap and close. Between any
two of them a process may die (`ProcessCrash`), the machine may (`PowerCrash`),
and the system may write a page or the size back (`WriteBack`). Touching memory
that is not mapped, or has no file behind it, ends the process: so does the
header write after a failed madvise (`Fault`), and the message of a rejected load.

Offsets count pages and each block has a page of its own, because pages are what
the system writes back separately. The header is assigned in place: `WriteHeader` is
one store per field, in any order, and another process may load, the writer die or
the page be written back between them. A header that has `magic` and not yet
`current` is accepted, and the first block then lies on the header itself: `smashed`
records that, and what is stored there makes the header arbitrary (`Garbage`).
`new` takes a file from those who have it open in two steps, and the history has one
variable for each: `shrunk` has the regions that were open at the ftruncate of
another's `new`, `rewound` those that were open when it stored `current`. A region that
was loaded between the two is only in the second.

### Reactor

One connection has one identity for its whole life, `tok` is the slab slot it was
given, `slab` and `free` are mio's Slab.

| Variable | Code |
|---|---|
| `pc`, `job` | where the event loop thread is: before `run`, polling, inside `readable` (blocked in `conn_tx.send`, maybe) or `writable` |
| `slab`, `free`, `tok`, `gone` | `conns` and the tokens |
| `interest` | `c.interest`; `reg`, what the poller was last told |
| `armed`, `accepting`, `backlog` | pending events of connections and listener |
| `link`, `sent`, `read`, `room` | the sockets |
| `out`, `wire` | `c.outbuf`; history of what was written |
| `queue`, `rx`, `hold`, `asked`, `idle` | the mpsc queues and the threads that take frames from them; `idle`: the Receiver is alive and nobody reads it any more |
| `mailbox` | the notify queue |
| `timers` | the slab of timers |

Before `run`: `Connect` (with a full slab, a failed register and a failed connect),
`Listen`, `SetTimeout` (the one too many panics), `Run` (or `shutdown`). Handlers:
`Accept`; `IoEvent`, `SendFrame` and `FinishRead` for `readable`, in three steps
because `conn_tx.send` blocks; `Writable`; `Notify`; `Timeout`. `Consume`, `Reply`,
`Neglect`, `Quit` and `Request` are the threads on the other side of the queues; they are
the NetStreamers of `Streams`, reduced to what the loop can notice. A consumer that
stops may drop its Receiver (`Quit`) or keep it unread (`Neglect`): NetStream has it in
an Arc, and `oneway_test` holds one on the thread that runs the loop. `HasSender` says
which of the engine's `conn_tx` are alive: that of the listener and those of the
connections in the slab, until the engine is dropped.

External, from how `reactor.rs` uses them: sockets, and mio. The poller is
edge-triggered; `reregister` reports at once what is ready. A FIN is a hang-up only
where HUP is registered and input otherwise, a reset is always reported. mio calls
`readable` for READABLE and HUP, then `writable` for WRITABLE. A removed slot is
the next one used. Frames and buffers are read and written whole here.

### ConnectionRead and ConnectionWrite

`ConnectionRead` has the read buffer (iobuf's AppendBuf: `buf` its filled part),
`marker` and the parse loop with `BufProtocol::append`. Bytes are numbered, so
that losing, doubling or shifting one shows. `Readable` is the whole handler;
`torn` and `whole` are history. Of iobuf, `atomic_slice_pos_from_begin(pos, len)`
gives `len` bytes from `pos` on. A read of 0 bytes, at the end of the stream or into
a window that is closed, goes through the same code and may change buffers too. A
frame size of 0, for which the parse loop never ends, is excluded by
`SizeAssumption`; a frame larger than the buffer is not, since nothing in the code
excludes it.

`ConnectionWrite` has `outbuf` and the loop of `drain_write_queue_to_socket`, one
write per step: `WriteReady` takes any part of a buffer, `WriteFails` is WouldBlock
or an error, `Rearm` the `reregister` after it. The peer reads or resets between
any two steps.

### Scheduler

`Start`, `CallF` and `Sleep` are one turn of `fixed_loop`. The difference is a
signed number as in the code. nanosleep is external: it refuses a negative time
and one of a second or more, and a signal may interrupt it; `cut` records
the turns whose sleep a signal ended.

## 3. Runs

| Run | States | Checks |
|---|---|---|
| `streams_all` | 376272 | one thread: every well-typed chain of up to two processors, three of the stateful ones, over every sink, on empty and non-empty input; all other publishers, loops and chains without a sink. Two threads: producer and consumer, queue bounded or not, `next` or `try_next`, early stops, panics, a full event loop. Three threads in a relay and in a fan-out. `SignalProtocol`, `EndIsSignalled`, `TakeStopsPublisher`, `StreamingMatchesBatch`, `EndToEnd`, `DecouplerLosesAtMostOne`, `Termination` |
| `region_race` | 152052 | three threads, two handles, four calls, sizes up to the word's. `Aligned`, `NoOverlap`, `CountAccounts`, `AllocateReturns`, `KeepsPromise` (refinement) |
| `region_file` | 2021588 | two processes, a file of three pages, two blocks, any crashes. `DroppedSurvives`, `HandlesDisjoint` |
| `read_frames` | 5666 | 16 bytes in any pieces, and the end of the stream. `RoomToRead`, `StreamIntact`, `WholeReadsDeliver` |
| `write_queue` | 4881 | buffers of 0 to 3 bytes, a socket of two. `WrittenInOrder`, `WakeupPending`, `OutputFlushed` |
| `reactor_client` | 65259 | one client that may talk first, one timer. `EventPending`, `SlabConsistent`, `SendReturns`, `HangupReleases`, `ArrivedIsRead`, `HangupEndsStream` |
| `reactor_server` | 94606 | two inbound connections, one slot or two. `EventPending`, `SlabConsistent`, `StrayOnlyAfterRemoval`, `SendReturns`, `HangupReleases` |
| `sched_pace` | 563111 | four rates, four turns. `TurnsApart`, `StartsInTime` |
| `unzip_take` | violated | `CompletedOnce` |
| `region_end` | violated | `WithinRegion` |
| `read_torn` | violated | `NothingLost` |
| `reactor_reuse` | violated | `RepliesReachTheirPeer` |

Most passing runs also check a `TypeOK`. The runs of the reactor do not check for
deadlock: an engine that has been shut down, or whose peers are silent, may stop.

**Bounds.** *Streams:* inputs of three items and Takes of 0, 1 and 2 suffice for a
Take to be below, at and past its maximum, and for the queues of capacity 1 to be
empty, full and blocked in every order. Chains of two stages contain every
adjacent pair of processors; no stage sees more than its neighbours. Chains of
three cover the stages that keep state, fan out or stop. *Allocator:* two threads
suffice for a lost swap, a third one for a swap lost twice. The word has 96
values, enough for three blocks before it wraps; 8-byte alignment and a 24-byte
header are those of a 64-bit build. `MaxCalls` bounds the calls of each thread.
*Region file:* with two processes one can load what the other is making, and two
blocks are one before a drop and one after. Files that grow and shrink are left to
the proofs, which are for any sizes.
*Read path:* the buffer of seven is no multiple of the frame of three, so that
frames lie across its end, and 16 bytes change it more than once. *Write path:*
a buffer can be larger than the socket and two more can wait behind it. *Reactor:*
with every queue and the socket of size 1, each is empty, full and blocking;
`Frames` = 2 with `Window` = 1 leaves input behind after a read. One slot is used
again by the second connection, with two slots both are served by turns; capacity
0 refuses a client. *Scheduler:* loop times above, at and below the callback's
span, and of no units.

**Fairness.** `FairSpec` of `Streams` assumes that a thread that can take a step
eventually does: they are operating system threads and the queues wake whoever
waits on them. Nothing is assumed of the reactor there, which may never drain its
queue. `FairSpec` of `MappedRegion` assumes that a thread inside `allocate` keeps
running, not that its callers call again; a swap is lost only when another
thread's succeeds, and calls are finitely many in a run. `FairSpec` of `Reactor`:
the program calls `run` (or drops the engine) at some time; a handler goes on
(weak); each turn of mio's loop serves every event it has and its notify queue, so
that a connection which has an event again and again is served although handlers
disable it in between (strong); a consumer takes frames and answers them until it
stops, which it may do at any time, with or without dropping its Receiver. Nothing
is assumed of peers. `FairSpec` of `ConnectionWrite` is the same
for one connection and adds that the peer keeps reading, without which no output
can be promised.

### What the violated runs show

- `unzip_take`: `Unzip::on_next` combines two calls with `|`, which does not
  short-circuit. A Take that answered false to the first half is called again
  with the second and completes its subscriber a second time; its field
  `notified` is set but never read. `SignalProtocol` therefore has a proviso,
  `UnzipSafe`.
- `region_end`: the end check looks at the start of a block only. The
  repository's own boundary test accepts an object that ends eight bytes past
  the file.
- `read_torn`: the slice to parse begins at `marker` but is only as long as the last
  read (`reactor.rs:396`). If an earlier read left part of a frame, the end of the data
  is outside of it, and when buffers are changed (`reactor.rs:407`) only the rest of the
  slice is moved. The bytes behind it are lost and the framing is shifted.
- `reactor_reuse`: a frame's token is a slab index. While an answer waits in a
  consumer or in the notify queue its connection may be removed and the slot
  given to another peer, which then gets the answer. `StrayOnlyAfterRemoval` is
  what does hold.

### What the provisos of the other properties stand for

The model has these behaviours of the code; each is why a passing property says
less than one might expect.

- `Termination` is all that is said of blocking: `try_next`, documented never to block
  (`reactive.rs:37`), pushes its item down a chain in which a send on a bounded queue
  blocks until the consumer takes something or ends.
- `NoOverlap`, `KeepsPromise`: `current` advances even for refused calls and may
  wrap; then blocks in use are handed out again.
- `WholeReadsDeliver` (`whole`), `StreamIntact` (`torn`): reads that end inside a frame
  delay what comes after it, and a change of buffers then loses bytes (`read_torn`).
  `StreamIntact` says that nothing else does.
- `RoomToRead`: if a frame fits into a buffer, which the code does not check. A larger
  one is never complete: what was read is moved whole, the window is closed, the next
  read returns 0 bytes and the buffer is changed for an empty one (`reactor.rs:407`).
- `SendReturns`, `HangupReleases`, `HangupEndsStream`, `ArrivedIsRead` (`Stuck`):
  `conn_tx.send` blocks the loop thread while the queue is full, so a Receiver that is
  kept and not read stops all connections and timers, although `run` is to process all
  events. `SendReturns` says that nothing else does.
- `ArrivedIsRead` (`WroteFirst`): `Connection::new` sets `interest` to HUP, and `connect`
  registers READABLE without noting it there. If a buffer cannot be written at once
  before anything was read, `notify` reregisters without READABLE (`reactor.rs:458`), and
  what arrives is not read until the peer hangs up. The doc of `connect` says that any
  data that arrives is sent down the channel.
- `HangupReleases` says nothing of input: a connection is removed after a single
  read when it hangs up (`reactor.rs:424`), and what did not fit into it is lost. A
  connection whose register failed is never watched and keeps its slot for ever.
- `DroppedSurvives`, `HandlesDisjoint` (`smashed`): `new` stores the header field by field
  and `load` accepts `magic` alone. After a crash between the stores, or a load at that
  moment, `current` may still be 0 and the first block is the header; nothing can be
  promised then.
- The same (`shrunk`, `rewound`): a `new` that truncates the file or stores `current` gives
  up what was kept in it, and a region it was taken from may still write. The file
  need not have been in use when `new` was called: a process that loads an older file
  after the ftruncate and before the store of `current` shares its blocks with the
  other from then on.
- `DroppedSurvives`: the conditions of the sanity check are joined by `&&`, so after a crash
  in `new` over an older file `total_size` may not be the file's. msync then does not
  cover a block that starts exactly at `total_size`, which is not refused either.
- There is no property about a rejected file: it kills the process, because the message
  is made from the header after unmapping it.
- `TurnsApart` is less than the doc of `fixed_loop`, by which the rate is "the max number
  of loops per second" (`scheduler.rs:13`). The loop time is a truncated quotient, too
  short for a rate that does not divide a second and 0 for one above 1_000_000_000. At
  rate 1 a callback that takes no measurable time asks for a whole second in `tv_nsec`,
  which is refused. A sleep that a signal ends is not resumed. The property is about
  truncated loop times, rates above 1 and turns without a signal (`cut`).

## 4. Proofs

Every safety property that a passing run checks is proved. The theorems hold for
arbitrary constants that satisfy the named assumptions (`WiringAssumption`,
`OwnershipAssumption`; `WordAssumption`, `CallerAssumption`; `FileAssumption`;
`BoundAssumption`; `SizeAssumption`; `TimeAssumption`; `EngineAssumption`):
numbers that are in range, queues that hold something, threads that own their
handle or receiver, and for `RegionFile` that sizes have a maximum, as a `usize`
does.

Few of the properties are inductive. In each module the invariant is a
conjunction of named parts; there is one lemma per action or kind of step, and
lemmas ("frames") that say on which variables a part depends.

**`StreamsProofs`**: `TypeCorrect`, `ProtocolHolds` (`Spec => []SignalProtocol`),
`EndIsSignalledHolds`, `TakeStopsPublisherHolds`. `SignalProtocol` is not inductive:
nothing in it prevents an item after `on_complete`. The invariant `Inv` adds

- `SignalOK`: once `on_complete` was called the thread is on its way out,
  returning false with no Unzip in progress, or done; and the sink is subscribed
  exactly when its link has been made;
- `StackOK`: the frames on the stack belong to Unzips of the chain, strictly
  nested and above the stage that runs. It gives the key fact that when a Take
  completes in an `UnzipSafe` chain the stack is empty, so that its false
  reaches the loop; when a publisher completes, the thread was idle and it is
  empty too.

`Full` adds, for how a stream ends, `EndOK`: a false on its way up, through any
number of Unzips, means that the sink's last signal was `on_complete` or an item
that it refused; and for every Take that no Unzip shields from the loop `TakeOK`:
its count is at least the number of items pulled, less the one that is on its way
down to it, and once it has answered false the stack is empty.

**`StreamsReferenceProofs`**: `DecouplerLosesAtMostOneHolds`,
`StreamingMatchesBatchHolds`, `EndToEndHolds`.

For the first, `Loss` is the property itself, `Full` and the types of the histories.
Only the on_next of the one stage that was given the queue touches what the queue
has accepted (`SentFrame`); if the send fails, false returns to a loop that no Unzip
stands in front of (`NoFrames`) and that takes no other step.

The other two speak of moments at which a chain is at rest, and of its two ends
only; an invariant has to account for items halfway down. `TraceOK(t, h)` says it
with one history for each stage, `h[i]` being the items whose on_next stage `i` has
executed: what the stage above makes of its history (`Supplied`) is `h[i]`, then the
item that is entering stage `i`, then the second half that an Unzip above still
holds (`Due`); and the memory of Reduce, Enumerate and Take is a function of their
history (`Kept`). The histories are no variables of the model. The invariant `Flow`
says that there are some, and a step that executes an on_next appends its item to
one of them (`Grow`), with one lemma per processor (`TakeTrace`, `UnzipTrace`, ...). At
rest nothing is entering and no half is held, so that each history is what the
batch definition gives (`Settled`), which is `StreamingMatchesBatch`.

Across threads `Flow` adds that

- what has been pulled, followed by what is left, is the iterator's sequence or what
  the queue accepted (`SourceOK`, `FifoOK`);
- a sending stage has sent all of its history, or a prefix of it, and then the
  receiver has gone for another reason than the end of the queue (`LinkOK`, `Gone`);
- a completed thread was cut off by one of its Takes, which has then had its maximum,
  or its publisher can never have another item (`CompleteOK`);
- a thread with a sink panics only in `next()`, with no item on its way (`PanicOK`).

The prefix in `EndToEnd` follows because every transformation, and so every chain,
takes prefixes to prefixes (`TransformBegins`, `GivenBegins`), also of chains that are
not at rest (`Behind`). For the whole stream, either a Take of the consumer has had
enough, and more input would not change its output, or the queue is drained and its
sender has ended; that one was completed too and has no Take from the sending stage
on, so that a Take above it has had enough or its input is used up.

Both theorems rest on induction over the positions of a chain or a sequence. The
library's induction theorems have an operator as parameter; `UpTo` has a set instead,
and follows from the existence of a least element outside of it (`WFMin`). That the
recursive functions `Folded` and `Given` exist and satisfy their equations
(`FoldedDef`, `GivenDef`) is shown with it, from solutions of growing length.

**`MappedRegionProofs`**: `TypeCorrect`, `AlignedHolds`, `NoOverlapHolds`,
`CountAccountsHolds` and `PromiseKept` (`Spec => KeepsPromise`). The inductive part,
`Ordered`, says that `current` is aligned and, until it wraps, that all blocks lie
between the header and `current`. A successful swap then puts its block on top.
`RoundUpProperties` does the word arithmetic for alignments 4 and 8. `PromiseKept`
shows that each step is a `Grant`, a step after the words have run out, or a
stutter. `CountAccounts` compares cardinalities, which change by one only if the
block is new: `CallsOK` says that the claims of a thread are of earlier calls.

**`RegionFileProofs`**: `TypeCorrect`, `HandlesDisjointHolds`, `DroppedSurvivesHolds`.
`Full` says that, as long as no block lies on the header, blocks in use, or about to
be written, of regions that were not rewound lie below `current` and belong to one
process (`Fresh`: a new block is nobody's), and that dropped blocks are below
`current` in the file and on the disk, with their values (`SavedOK`), so that a power
failure, after which the file is what the disk has, loses none of them. A store of
`current` moves every open region to `rewound` and empties what is kept, whatever
the other two fields are at that time. `Budget` bounds the blocks for the types.

**`ConnectionReadProofs`**: `TypeCorrect`, `RoomHolds`, `StreamIntactHolds`,
`WholeReadsDeliverHolds`. The four are inductive together, the second under its hypothesis
that a frame fits into a buffer. The argument is about
slices: `Parse` delivers the bytes of its slice up to a multiple of the frame size
(`ParseFacts`), and what stays in the old buffer or is moved to the new one is the
rest of it.

**`ConnectionWriteProofs`**: `TypeCorrect`, `NoMissedWakeup`
(`Spec => []WakeupPending`), `WrittenInOrderHolds`. `WakeupPending` is inductive
together with the range of `room`. The step that matters is the peer's read: if
the socket had room there is an event already, and if it had none then WRITABLE
is registered and the new space is an edge. For the order, `Adjacent` says that
there are cuts between which the wire and each queued buffer are runs of
consecutive bytes; a write moves the first cut. That the runs, put together by
`FlattenSeq`, are one run needs the uniqueness of a recursive function
(`FlattenUnique`), shown by a least place where two candidates differ.

**`ReactorProofs`**: `TypeCorrect`, `SlabConsistentHolds`, `EventPendingHolds`,
`StrayHolds`. `Inv` has eight parts: where the loop is and what its job is
(`LoopOK`), slots, tokens and free list (`SlabOK`), listener and backlog
(`BacklogOK`), sockets (`LinkOK`), queues and notify queue (`QueuesOK`), that every
message on its way carries the token of a connection that had it (`KnownOK`),
that buffers queued or written were meant for this connection or for one that is
gone (`MeantOK`), and the poller (`WatchOK`). `EventPending` says nothing of the
connection a handler is busy with; what is due to it when the handler ends is in
`WatchOK`: WRITABLE is in the interest of whoever has output, and input has its
event except while a frame of it is being sent.

**`SchedulerProofs`**: `TurnsApartHolds`, `StartsInTimeHolds`. The invariant adds what
the local variables of the loop say of its turn (`TurnOK`) and that, when a turn
is about to start, the clock is far enough from all earlier turns (`NotEarly`) and
not too far from the last (`NotLate`).

**Only model-checked.** `Termination`, `AllocateReturns`, `OutputFlushed`,
`SendReturns`, `HangupReleases`, `ArrivedIsRead`, `HangupEndsStream`: liveness, out
of the prover's reach.

## 5. Not modelled

- `on_error`: no code in the repository raises it.
- Of the reactor: `run_once` (a `run` that ends after one turn), several listeners,
  and an accept that fails (the listener is reregistered and it is tried again).
- A protocol whose frames have size 0 and a loop at rate 0 (a division by zero).
- `memberfn.rs`, `publisherext.rs`, `processorext.rs`, `lib.rs`: no state of their
  own, commented out or empty.
- Strategies and request-based backpressure, which the repository's README
  describes: they are not in the source.
- Printing, logging, and the generator behind RndGen (a nondeterministic choice).

## 6. Plan

1. `Streams`, `StreamsReference`, `MappedRegion`, `BlockAllocator` with their first
   theorems: done.
2. `RegionFile`, `ConnectionRead`, `ConnectionWrite`, `Reactor`, `Scheduler`: done.
3. The safety properties of all of them for every instance: done.
4. The stores of the header one by one, Receivers that are kept unread, frames larger
   than a buffer: done.
5. The liveness properties stay with TLC. Outside of the models is what section 5
   lists.
