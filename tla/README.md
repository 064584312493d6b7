# Verification of fastbook

fastbook turns an exchange feed into limit order books: a feed thread receives
datagrams (or a byte stream), checks and repairs their sequence, parses ITCH
messages and routes each event through a lock-free queue to the book builder
that owns its instrument. This directory models the program in TLA+,
model-checks the models on small instances with TLC, and proves the central
results for every instance with TLAPS. `PROJECT.json` maps every definition to
the lines it models and lists runs, mutants, hazards, findings and theorems.

## 1. Inventory of the system

| Part | Source | State | Operations | What is hard about it |
|---|---|---|---|---|
| SPSC ring | `common/spsc_queue.hpp` | slots, two indices, a cached copy of each | reserve/construct/commit, pop, destroy | two threads, stale copies, wrap-around |
| MoldUDP64 framer | `feed/mold_udp64_framer.hpp` | session, next sequence number, end of the last gap | `feed` | lost, repeated, reordered, cut datagrams |
| Feed thread, recovery | `feed/venue_feed.hpp`, `feed/retransmit_recoverer.hpp` | stop flag, the gap being repaired, attempts, deadline | `run`, `on_framer_error`, `recover`, `on_event`, `stop` | retries, late replies, deadline, stop during recovery, full queues |
| Pipeline | `pipeline/feed_handler.hpp`, `common/threading.hpp`, `main.cpp` | start gate, threads, stop requests | start, pin, gate, run until done, stop and join | startup failure, shutdown order, back-pressure |
| Book builder | `bookbuilder/book_builder.hpp` | books of a shard | `apply_event` per ITCH action, `run`, `stop` | replace = delete + add, unknown orders |
| Order book | `orderbook/order_book.hpp`, `two_tier_levels.hpp` | order table, per-price queues, hot and cold levels | add, cancel, execute, reduce, best | three linked structures kept consistent, sentinel prices |
| ITCH parser | `feed/itch_parser.hpp` | none | message to event | which fields a message carries |
| Length-prefix framer | `feed/length_prefix_framer.hpp` | leftover bytes | `feed` | messages split at any byte |
| Tables | `common/linear_probing_table.hpp`, `swiss_table.hpp` | slots, control bytes | insert, find, erase, rehash | backward-shift deletion, groups that run past the end, tombstones |
| Buffer and object pools | `common/buffer_pool.hpp`, `object_pool.hpp`, `treiber_stack.hpp` | chunks, per-thread magazines, tagged stacks | alloc, free, refill, donate | ABA, blocks lost or handed out twice |
| Logger | `common/logger.hpp` | per-thread rings, drop counters | emit, drain, write | threads that come and go, full rings |
| Sources | `transport/*` | kernel rings, pools, buffers with the caller | next, send, `~Buffer` | a buffer written to while the caller has it, lost or returned twice; a connection that two threads find dead |
| Profiling | `common/profiling.hpp`, `timing.hpp`, `sys.hpp` | histograms, hardware counters | record, merge, percentile, span | bucket boundaries, counters that move while they are read |
| Replay tool | `tools/mold_replay.cpp` | capture, index of datagrams | send, answer re-requests | sequence numbers against byte offsets |
| Configuration | `pipeline/thread_config.hpp`, `main.cpp` | core assignment | parse, validate | none of it concurrent |

How the parts interact: a source hands Buffers to `VenueFeed`, which feeds
them to a framer; the framer hands back messages, which are parsed, and the
events go into one SPSC ring per shard; each `BookBuilder` pops its ring and
updates the order books. Orders come from an object pool, buffers from the
buffer pool, whose shared lists are Treiber stacks. Every thread logs into a
ring of its own.

## 2. Modules and the code they model

| Module | Models | Granularity |
|---|---|---|
| `SpscQueue` | `SPSCQueue` | one action per access to shared memory |
| `BoundedFifo` | what the ring promises | one action per operation |
| `MoldFramer` | `MoldUDP64Framer::feed` | one disjunct per return |
| `MoldFeed` | `VenueFeed::run`, `on_framer_error`, `recover`, with the network and the re-request server around them | one action per datagram, request, reply, timeout |
| `MoldReplay` | the server: packing below the count that means end of session, datagrams left out, the index, answers to re-requests, the end-of-session datagrams | one action per datagram and per turn of the request loop |
| `Pipeline` | `FeedHandler`, `StartGate`, routing, back-pressure, shutdown | one action per step of a thread that others can see |
| `TwoTierLevels`, `PriceLevels` | the levels of one side of a book, as operators, and as a state machine of their own | one action per call |
| `OrderBook`, `ItchParser`, `BookBuilder` | book operations and parsing as operators; the builder beside the exchange's own book | one action per message |
| `LinearProbingTable` | insert, find, erase (both modes), rehash | one action per call |
| `SwissTable` | insert, find, erase, rehash over groups of control bytes | one action per call |
| `Transport` | what every source promises its caller | one action per Buffer handed out, moved, destroyed |
| `Buffers` | handles, move and move assignment of a `Buffer`, common to the sources | operators and one action |
| `ObjectPool` | get and restore of the pool under two sources | operators |
| `AfXdpSource` | `next`, `rearm_batch`, `~Buffer`, against the kernel's side of both rings | one action per call, one per packet |
| `TcpSource` | `next`, `send`, `fail_`, `rearm_recv_` (in the constructor too, where it may fail), the destructor, against the peer and the io_uring | one action per access to what the two threads share |
| `McastSource` | `next`, `refill_`, `release_range_`, `serve_`, `~Buffer` | one action per call, one per datagram |
| `LengthPrefixFramer` | reassembly of messages from slices of a file, and the file source | one action per slice |
| `TreiberStack` | push, push_chain, pop, take_all | one action per access to shared memory |
| `AtomicStack` | what the stack promises | one action per operation |
| `BufferPool` | alloc, free, reserve, refill, magazines, thread exit | one action per operation on a shared stack; the flush at exit one per class |
| `Logger` | slots, emit, drops, drain, last drain | one action per access to shared memory |
| `Histogram` | record, merge, percentile | one action per call |
| `PmuGroup` | spans, the system call and the user-space reading of counters, against the kernel and the hardware | one action per load |

`SpscQueueProofs`, `MoldFeedProofs`, `PipelineProofs`, `BuffersProofs`,
`AfXdpSourceProofs`, `TcpSourceProofs` and `McastSourceProofs` hold the
theorems of section 5 and their lemmas. The modules `MC...` give TLC its
instances. Where a run has several parts (`MCMoldFeed`, `MCTables`,
`MCSources`, `MCAllocator`, `MCInstruments`), a variable chosen in the initial
state says which part moves. The others stay as they are, so the parts are
checked side by side and never interfere.

The modules build on each other's promises. `Pipeline` and `Logger` use rings
that are bounded FIFOs, which `SpscQueue` implements (proved). `BufferPool`
uses atomic stacks, which `TreiberStack` implements (model-checked).
`AfXdpSource`, `TcpSource` and `McastSource` implement `Transport` (proved).
`MoldFeed` takes from `Transport` that a Buffer does not change while it is
being fed and fed again. Its server sends messages under their own numbers,
which `MoldReplay` does.
`BookBuilder` takes its events in order and once, which `Pipeline` and
`MoldFeed` establish (proved).

Modelling decisions a reader should know:

- **Memory order.** An acquire or relaxed load of another thread's variable
  returns any value between the one last seen and the present one. Once the
  other thread has been joined, it returns the present one.
- **Merged steps.** What a thread does to memory nobody else can reach goes
  with the shared access before it (links of a chain being built, a magazine,
  a chunk taken off the stack). `TreiberStack::pop` reads the link of a node it
  does not own; that read is a step of its own. The link is a plain pointer, so
  a read that meets a write is a data race in C++. The build reads an aligned
  word, and the model reads one value that the link has at that moment.
- **Repeated replies.** A repeated reply changes nothing in the framer. The
  variable `turn` of `MoldFeed` makes taking it a step all the same. Without it
  an endless stream of duplicates would be a stuttering behaviour that fairness
  excludes, and `RecoveryEnds` would hold for the wrong reason.
- **Exchange and network** are external: they are modelled from how the code
  uses them and marked so in `PROJECT.json`.
- **Kernel.** AF_XDP rings, io_uring completions, `recvmmsg` and the perf
  pages are external too. The fill ring's slot counts as free once the kernel
  has taken its frame, and so not later than the packet is listed. The kernel
  may take frames in any order. A perf update runs on the reader's own CPU,
  so it is one step, but it may fall between any two loads of the reader.
- **Units.** Sources deliver numbered units: a packet, a datagram or a byte.
  A Buffer shows the first and last unit written to its memory, so memory that
  is written to too early shows the wrong units.
- **Group types.** The four group types of the Swiss table are one operator
  that reports the lanes that match. The SWAR variant may report a lane too
  many, which the comparison of keys rejects as it rejects a collision.
- **Left out**: statistics, the text of log lines and reports. If an
  allocation in `grow()` fails the process terminates, which needs no step.
  A failing write of the logger keeps some prefix of the records.

## 3. Runs

Distinct states are those TLC reports. All searches are complete.

| Run | Instance | States | Shows |
|---|---|---|---|
| `spsc` | 4 slots, 2 values | 7,487 | no slot race, object lifetimes, the inductive invariant, refinement of `BoundedFifo`, every item is popped |
| `mold_feed` | feed: 3 messages, batches of 2, one cut and one foreign datagram, 2 attempts, 2 messages per request; server: captures of up to 4 messages of 2 sizes, at most 3 in a datagram, every third datagram left out, one re-request | 117,388 | order, completeness at end of session, recovery closes the gap, requests answerable, retries, recovery and stop end; the server's answers carry the right messages |
| `mold_retries` | as `mold_feed` | violation | see section 6 |
| `pipeline` | 2 shards, rings of 2, 5 events in batches of up to 3, instruments 0, 1, 3 | 178,518 | routing, back-pressure, drain at shutdown, failed start, liveness of start, stall and shutdown |
| `book` | 3 order ids, 3 prices, 1 hot and 1 cold level, a pool that starts with 1 order | 26,686 | the book is the exchange's book: time priority, depth, best price, pool, losses only when full |
| `book_replace` | as `book`, asks replaced too | violation | see section 6 |
| `book_zero_price` | as `book`, with price 0 | violation | see section 6 |
| `tables` | linear probing: 4 keys, every hash function, 2 to 8 slots; Swiss: 8 keys in 3 classes, groups of 4, 8 to 16 slots; levels: 3 hot and 3 cold, 8 prices, both sides | 135,472 | both tables are sets: no key lost, none found after it was erased; the counts of entries and of free slots are right; the levels are a map with the right best price, hot levels are the best ones |
| `allocator` | pool: 2 threads, 2 chunks, 2 classes, magazines of 2; stack: 3 threads, 3 nodes, 4 tags | 676,801 | blocks and runs neither lost nor doubled, exit flushes, refinement of `AtomicStack` |
| `allocator_exit` | as `allocator` | violation | see section 6 |
| `instruments` | logger: 3 threads, 2 slots, rings of 2 records, 3 calls; histogram: 1 bit of accuracy, 4 of range, values 0 to 18, 3 samples in 2 histograms; counters: 2 counters of 2 bits, 2 ticks, 2 updates | 1,330,387 | every call accounted for, order within a thread; a percentile is not below the true one, nor above it by more than the accuracy allows; a recorded span missed no event |
| `sources` | file: every file of up to 10 binary bytes, every slicing; AF_XDP: 3 frames, batches of 2; TCP: 3 buffers, 2 bytes per receive; multicast: 3 datagrams, batches of 2; 4 units, 3 handles | 131,735 | slicing does not matter; buffers in one place; a failed connection stays failed; refinement of `Transport`; a sleeping kernel is woken, and bytes that arrived are returned |

Why the bounds are enough for the cases that matter: a four-slot ring wraps and
fills with both copies stale. Three messages with two per request give a gap
that needs two requests, so that progress resets the attempts in the middle.
Five events fill a ring of two while the other shard runs. Two tiers of one
level each make every insertion move or refuse a level. Eight keys outnumber
the growth limit of eight slots, and the classes of the Swiss table make groups
overlap across the end of the array and meet in the middle. Three handles and
three buffers let the caller run a source dry, with a receive in flight and
without: `rearm_recv_()` is also called with nothing in the pool. A capture of
four small messages would fit one datagram, but for the cap that keeps its
count from reading as end of session.
Three threads are needed for a harmful ABA, and three threads with two slots
leave one without a ring. `MaxRuns` bounds the runs ever claimed in
`BufferPool`, at two. Without it two chunks give more states than a complete
search can visit. A two-bit counter overflows within two ticks, and two updates
take the group off the hardware and on again.

`mold_feed` was also searched completely with four messages, in a version
before `turn` and `cutNews` were added, and the pool with `CacheSize` 1 and
`MaxRuns` 3, and `book` with four order ids: three prices and orders of one
share (179,110 states), two prices and orders of up to two (112,500). All
passed, and none is kept as a run because of its length.

Four runs use symmetry: of order ids in `book`, of keys in `tables`, of chunks
and stack nodes in `allocator`, of logging threads in `instruments`. These are
only compared for equality, and none of the four runs checks liveness. Permuting keys is sound because the
linear probing table starts from every hash function, and the keys of one class
of the Swiss table share their hash.

The inductive invariants of section 5 were checked with TLC before they were
proved, on instances no larger than those above.

`CHECK_DEADLOCK FALSE` is set where the system really stops: the ring is
destroyed, a feed or a server finishes, a pipeline is shut down, a file ends,
a TCP source is destroyed, the logger ends, the samples of a histogram or the
span of a counter group are over. `allocator` checks deadlock. Its step
`PoolRests` allows the pool to stop only when every thread has exited or the
bound of runs is reached.

Each property of a passing run has a mutant, a definition changed as a plausible
bug would change it, that TLC finds to violate the property.

## 4. Fairness

Four specifications assume any.

- `SpscQueue`: the consumer polls for ever, a push once begun ends, and a
  store becomes visible in finite time (strong fairness of loading the present
  `head_`). The producer need not push.
- `MoldFeed`: `recover()` and the end of `run()` go on, since `next()` never
  blocks for good (the re-request socket has a receive timeout), and the
  monotonic clock reaches the deadline. No datagram and no reply is due.
- `Pipeline`: every thread takes its next step, since `ThreadConfig::validate`
  gives each hot thread a core of its own and all of them poll. Input, signals
  and failures are not due.
- `MCSources`: the feed thread polls its source and destroys the Buffers it
  gets, as `VenueFeed::run` does. A call of `send()` that has shut the
  connection down stores the status. A kernel completes a receive at the end
  of the stream, and, while there are bytes, not for ever with EAGAIN (strong
  fairness of completing with bytes). The peer need not send.

## 5. Proofs

Every theorem holds for every value of the constants that the named
assumptions of the modules allow. They ask that sizes are natural numbers
(positive where the code needs it), that the model values standing for "no
value" are none, and, in `MoldFeed`, that no batch of the exchange is as large
as the count that means end of session (`MaxBatch < END_OF_SESSION`), which the
protocol reserves. Nothing bounds the sequence numbers.

| Module | Theorem | States |
|---|---|---|
| `SpscQueueProofs` | `TypeCorrect` | `Spec => []TypeOK` |
| | `RingInvariant` | `Spec => []RingInv` |
| | `SlotRaceFree` | `Spec => []NoSlotRace` |
| | `LifetimesRespected` | `Spec => []ObjectLifetimes` |
| | `Refinement` | `Spec => ImplementsFifo` |
| `MoldFeedProofs` | `DeliveredInOrder` | `Spec => []InOrderOnce` |
| | `NothingMissingAtEnd` | `Spec => []EndOfSessionComplete` |
| | `RecoveryCloses` | `Spec => []RecoveryClosesGap` |
| | `RequestsInRange` | `Spec => []RequestsAnswerable` |
| | `RetriesExhaustedHonest` | `Spec => []RetriesMeanNoProgress` |
| `PipelineProofs` | `LatchesStayInRange` | `Spec => []TypeOK` |
| | `RoutingIsExact` | `Spec => []RoutedInOrder` |
| | `ShutdownDrains` | `Spec => []QueuesDrained` |
| | `FailedStartNeverReads` | `Spec => []FailedStartIsIdle` |
| `AfXdpSourceProofs` | `XdpFramesInOnePlace` | `XdpSpec => []FramesInOnePlace` |
| | `XdpFillHasRoom` | `XdpSpec => []FillHasRoom` |
| | `XdpRefinement` | `XdpSpec => ImplementsTransport` |
| `TcpSourceProofs` | `TcpBuffersInOnePlace` | `TcpSpec => []EntriesInOnePlace` |
| | `DestructorLeavesNothing` | `TcpSpec => []ArmedMeansInFlight` |
| | `TcpFailureIsFinal` | `TcpSpec => []FailureIsFinal` |
| | `TcpRefinement` | `TcpSpec => ImplementsTransport` |
| `McastSourceProofs` | `McastDgramsInOnePlace` | `McastSpec => []DgramsInOnePlace` |
| | `McastRefinement` | `McastSpec => ImplementsTransport` |

**The ring.** `NoSlotRace` is not inductive: nothing in it says why the
producer may write the slot it has reserved. `RingInv` adds the reason, in four
parts. `CachesLag`: each cached index lies behind the real one, within the
ring. `Reserved`: a reservation is backed by the producer's copy of `tail_`, a
pop by the consumer's copy of `head_`. `InHand`: what each side holds at each
place in its code. `LiveSlots`: exactly the slots from `tail_` to `head_` hold
objects, but for the one just emptied and the one just built. The argument
measures everything by `Dist`, the steps from one index to another.
`DistBetween` says that a stale load keeps the lag, `QueuedGrows` and
`QueuedShrinks` what a commit and a release do to the queued slots, and
`ReservedIsFree` that the reserved slot is not queued and the popped one is.
For the refinement, `CommitAppends` and `ReleaseTakes` show that the two index
stores are the appending and the taking of the abstract FIFO.

**The feed.** `FeedInv` first says what any datagram can be relied on for,
whether it was multicast, sent as a reply, cut, or foreign (`Sound`,
established by `MulticastSound` and `RepliesSound`). `Stream` ties the next
number expected to the messages delivered; `DeliversNext` shows that the
message loop goes on exactly where they end. `Recovering` is what makes a
recovery close its gap: no request, of this recovery or an earlier one, reaches
beyond the gap. So a reply that was cut cannot fill the gap
(`CutReplyLeavesGap`), and only a reply the framer accepts leads to feeding the
datagram again. The theorem that "Gap still open" is never reported needs
`MaxRecoveries > 1`, which the code's value of 3 satisfies.

**The pipeline.** `PipelineInv` relates the two latches to the places of the
threads (`LatchCounts`: `ready` is the number of threads that have still to
count it down), says how the start was decided and who may have passed the gate
(`Decided`), where the feed is in its input (`FeedPlace`), and that a builder
sees its stop request only after the feed has been joined and leaves its loop
only with everything applied that was pushed before (`Ordered`). `QueuesDrained`
follows, since after the join nothing more is pushed.

**The sources.** `BuffersProofs` has what the sources share: what moving,
handing out and destroying a Buffer does to what the handles show. `XdpInv`
adds to the places of the frames that the entries behind the batch hold the
packets not yet returned, in order. `TcpInv` adds that the bytes taken from the
socket are those returned and those in the completion. `McastInv` adds that
the rest of the batch holds the datagrams that follow, with the lengths that
`recvmmsg` reported. Its hard step is a new batch: `ReleaseShape` says where
each datagram of the pool was before `release_range_` put the unused ones back
in reverse, and `ReleaseHolds` that the pool has lost just those received. Each
of the three says that the memory of a Buffer is nowhere else, so the kernel cannot write to it, and the
refinement of `Transport` follows step by step. `XdpFillHasRoom` is the
assertion in `~Buffer()`, from counting the frames.

Only model-checked: all liveness, which is beyond the proof system; the
refinement of `AtomicStack`; everything about the books, tables, allocator, logger, server and profiling. What
`TreiberStack` promises depends on walking its links, which needs an induction
the installed provers cannot do, and so do the books' levels and the tables'
probe sequences. `LinearProbingTable` and `LengthPrefixFramer` are recursive.

## 6. Where code and documents disagree

Four violation runs:

- **`book_replace`.** An ITCH replace carries no side, `create_mbo_from_order_replace`
  (`feed/itch_parser.hpp:311`) sets none, and `replace_order_handler`
  (`bookbuilder/book_builder.hpp:97`) adds the new order with the event's
  default, BID. A replaced ask becomes a bid.
- **`book_zero_price`.** `EMPTY` marks an unused hot slot with price 0 for bids
  (`orderbook/two_tier_levels.hpp:52`). A bid at price 0 is queued in an unused
  slot and lost with it, against the assertion in `orderbook/order_book.hpp:194`.
- **`mold_retries`.** `feed/recovery.hpp:6` says RetriesExhausted means
  requests "in a row with no progress". `recover()` goes on after a Malformed
  reply (`feed/retransmit_recoverer.hpp:91`) without resetting `attempts`,
  although the intact leading messages of a cut reply have been delivered.
- **`allocator_exit`.** The test ThreadExitReturnsMagazineBlocksToTheGlobalStack
  (`tests/test_buffer_pool.cpp:102`) says that a dying thread's magazine must be
  flushed, as its blocks are otherwise "unreachable for good". Its thread
  allocates first, and passes. `TLMagazine::push` (`common/buffer_pool.hpp:223`)
  does not register the thread, so the magazine of one that only frees is not
  flushed. The pipeline's own threads call `thread_init()`.

The passing runs check what remains true. `book` replaces only bids and uses no
price equal to `EMPTY`; its properties say nothing about replaced asks or such
prices. `RetriesMeanNoProgress` excepts a recovery in which a cut reply brought
news (`cutNews`). `ExitFlushes` speaks of the threads that called
`thread_init()` or ever took blocks from a shared list (`filled`): whatever
fills a magazine in bulk registers the thread before.

One assumption: `TagIsNew` supposes that the 21-bit tag of the chunk stack does
not come round within a single `pop()`. Each pop and push of a chunk uses up a
64 KiB run, so that would take 64 GiB of allocations during one `pop()`.

## 7. Not modelled

- Fields of messages, headers and log arguments in bytes (`feed/buf_reader.hpp`,
  `feed/buf_writer.hpp`): big-endian access without state.
- The computation of a size class, the alignment of mappings, the
  calibration of the clock, reports: pure arithmetic or output.
- Setting up: opening sockets, rings, files and perf events, joining a group,
  parsing arguments and the thread configuration. All of it ends before the
  first thread starts, and a failure ends the program.
- The packet filter, which runs in the kernel and has no state; the packets it
  redirects are an input of `AfXdpSource`.
- `instrument_map_` of a builder filling up: `BookBuilder` has a book per
  instrument of a small set.
- The former order book, kept for benchmarks; `WideTag` of the Treiber stack
  and the framer variant without reassembly, used by no pipeline; the tests and
  benchmarks.

`PROJECT.json` gives the reason for each part. Not composed: `MoldFeed` with
`Pipeline`, whose product is beyond a complete search at bounds where a gap, a
full ring and a stop can meet. What one assumes of the other is said in
section 2.

## 8. Plan

1. Composition of `MoldFeed` and `Pipeline` through an abstract feed, so that a
   gap, a full ring and a stop request meet in one model.
2. Proofs for `BufferPool` (`BlocksOnce`, `RunsReachable`) and `Logger`
   (`Accounted`), as far as they are in reach.
