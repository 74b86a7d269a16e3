# TLA+ models of the io_uring buffer manager, shuffle and servers

This directory has TLA+ models of the parts of the repository with shared
state, concurrency and a correctness story. They are checked with TLC:

* the fiber-scheduled buffer manager in `src/src/buffer_mgr`;
* the B-tree over buffer-managed pages in `src/src/buffer_mgr/btree*.hpp`
  and `btree.cpp`;
* the two hash maps: the page table `rh_backshift_u64_map.hpp` and the
  chained hash table `src/src/utils/hashtable.hpp`;
* the distributed shuffle `src/src/shuffle/shufflev2.cpp`, with both its
  io_uring `Worker` and its `EpollWorker`, and its start-up (the TCP
  barrier, the connection set-up and the pthread barrier);
* four network programs with their clients: the io_uring bandwidth server
  `server_bw.cpp` (with `client_bw.cpp` and `utils/iou_bufring.hpp`), the
  epoll bandwidth server `epoll_server.cpp` (with `epoll_client.cpp`), the
  TCP ping-pong `server.cpp`/`client.cpp`, and the zero-copy receiver
  `zc_recv.cpp`.

The other programs are micro-benchmarks and tools (see *Not modelled*).

## The system

The buffer manager keeps `page_count` frames of 4 KiB (the `pages` array)
in front of an SSD. It has these parts:

* **Page table** (`rh_backshift_u64_map.hpp`): a fixed-size Robin-Hood hash
  map from page id to a `BufTagged`. A `BufTagged` holds the frame id and
  five flags: `in_use`, `dirty`, `evicting`, `io_lock` and `mark`.
  * Deletion is by backshift.
  * `clock_sweep_next` moves a clock hand over the slots. The eviction policy
    uses it.
* **BufferManager** (`bm.cpp`, `bm.hpp`):
  * `fixS`/`fixX` pin a page and `unfixS`/`unfixX` unpin it.
  * `handleRestart` handles a miss:
    * `handleFault` takes a free frame, sets `io_lock`, reads the page and
      parks until the read completes;
    * `handleWait` parks behind a fault that is already running;
    * if the free list is empty, it wakes the evictor and yields.
  * `allocPage` creates new pages.
  * The evictor is a `SleepingFiber`. Its `evict()` sweeps the clock. It clears
    the mark of a marked page and selects an unmarked idle page. Dirty
    victims are written in one io_uring batch. `evictNow` re-checks each
    victim before releasing its frame.
* **Fiber runtime and I/O engine** (`kuring.hpp`): `UringReactor`.
  * It is single-threaded. Fibers are cooperative.
  * The ready queue is an SPSC ring.
  * `io()` queues an SQE. `check_submit` decides whether to call
    `io_uring_submit` now or defer it.
  * `drain_cqe` wakes the fibers whose completions arrived.
  * The reactor loop resumes the fibers that were ready at the start of a
    round, then drains.
* **B-tree and guards** (`btree.hpp`, `btree.cpp`, `guards.hpp`).
  * Every operation fixes the metadata page (pid 0) shared, then descends.
  * If any fix returns Restart, everything fixed so far is unfixed and the
    operation starts again.
* **YCSB driver** (`buffer_mgr.cpp`, `ycsb_workload.hpp`).
  * A loader fiber inserts the records and sets `loaded`.
  * Then `cfg.concurrency` worker fibers run transactions. After each
    transaction they call `check_submit` and yield.

* **Shuffle** (`shufflev2.cpp`): one worker thread per node scans its
  input, partitions tuples into fill buffers and sends full buffers to the
  node that owns the partition, over io_uring (`Worker`) or non-blocking
  sockets under epoll (`EpollWorker`), and receives the other nodes'
  buffers until every peer has sent its FIN. Before that, `do_benchmark`
  meets the other processes at a TCP barrier, every worker connects to
  and accepts from its peer workers, and a pthread barrier holds the
  workers until the TCP barrier has passed.
* **Network programs.** Each is a server process and a client process on
  TCP connections:
  * `server_bw`: worker threads, each with its own io_uring; worker 0
    accepts and hands connections round robin through `msg_ring`; receives
    use a provided-buffer ring (`BufRing`) per worker, single shot or
    multishot, optionally as bundles; `stop_after_last` ends the server
    when the last connection ends;
  * `epoll_server`: worker threads, each with its own epoll fd; worker 0
    accepts and hands connections round robin with `EPOLLONESHOT`; the
    client's threads send with edge-triggered `EPOLLOUT`;
  * `server.cpp`/`client.cpp`: one connection, one thread and one io_uring
    each side, exchanging pings and pongs (or a one-way stream);
  * `zc_recv`: one thread and one io_uring receiving with zero-copy
    multishot recvs into a registered area, handing buffers back on a
    refill ring.

The buffer manager's parts interact in one way only. Fibers run one at a time, and only at
suspension points (yield, park) can another fiber run. The only true
concurrency is the kernel completing I/O.

## Modules

| Module | Models |
|---|---|
| `KeyValueMap` | What the page table and the B-tree promise: a partial map from keys to values. Each step is one `insert` or `erase` call, or an abort on probe overflow, and is recorded in `call`. |
| `PageTable` | `RHBSU64Map`. `insert`, `find`, `erase`/`backshift_delete` and the visiting order of `clock_sweep_next` are written as (recursive) operators on the table. `Home` is the splitmix64 home slot of each modelled key. `Map` instantiates `KeyValueMap` with the refinement mapping "key is in the map iff `find` returns it". |
| `ChainedHT` | `ChainedHT<Value>` at the level of its pointers: bucket heads, nodes with `next`, key and value, and the free list. `insert`, `insert_batch`/`flush_batch`, `erase` and `alloc_node` are operators on the table; the actions apply them. |
| `BoundedBuffer` | What the fixed-capacity containers promise: a sequence of at most `Cap` items, popped oldest first (FIFO) or newest first (LIFO). |
| `Containers` | `SpscRing` (`spsc_ring.hpp`, the reactor's ready ring), `StackRing` (`utils/ring.hpp`) and `Stack` (`utils/stack.hpp`): their counters, arrays, `push` and `pop`. Each instantiates `BoundedBuffer` with the refinement mapping "the items from the read counter to the write counter" (for `Stack`, the first `idx` slots). |
| `MCHashTables` | Both maps, or one container, chosen in the initial state: the page table at capacity 4 with colliding home slots, the chained table with three keys in one bucket and a pool of two nodes, and the containers with four slots and 3-bit counters. |
| `MCPageTable`, `MCChainedHT` | The same maps alone, for the configurations by hand listed below. |
| `BufferManager` | The buffer manager, the reactor, the access pattern of the B-tree and the YCSB fibers. It instantiates `PageTable` for the page table. |
| `MCBufferManager` | The constants of the buffer-manager runs. |
| `BTreeNode` | `BTreeNode` of `btree_node.hpp` as operators on a node record. The record holds the leaf flag, the lower and upper fences, the prefix length, the slots (suffix key and payload), the hints, `upper`, `dataOffset` and `spaceUsed`. The operators are `insertInPage`, `removeSlot`, `compactify`, `lowerBound` (the binary search of `lowerBoundImpl`, as a recursive operator) with `searchHint`, `updateHint`/`makeHint`, `findSeparator`, `splitNode` and `mergeNodes`. |
| `BTree` | `BTree` of `btree.cpp`. It holds the page map, `root`, the PID counter `allocCount` and each fiber's insert and `ensureSpace` in progress. Its actions are insert (room in the leaf, or `trySplit`), `ensureSpace`, `remove` with merge and `updateInPlace`. `lookup`, `scanAsc` and `scanDesc` are state functions over recursive descents. `Map` instantiates `KeyValueMap` with "the map is what `lookup` finds". |
| `MCBTreeWorkloads` | Two B-tree workloads, chosen in the initial state: growth (two fibers, seven keys) and churn (one fiber, five keys, three erased). |
| `MCBTree` | The same tree alone, for the configurations by hand listed below. |
| `Shuffle` | The io_uring `Worker`: one node per partition, each with its own io_uring, and the TCP streams between them. |
| `ShuffleEpoll` | `EpollWorker`: the same scan, with `send_progress`/`recv_progress` on non-blocking sockets that hold `SockCap` tuples, level-triggered epoll and `EPOLLOUT` arming. |
| `ShuffleSetup` | The start of a shuffle: `do_benchmark`'s main thread with `TCPBarrier` and the pthread barrier, and the connection part of `Worker::init`/`EpollWorker::init` of every worker, on `P` nodes. |
| `TupleIterator` | The key extractor of the shuffle's zero-copy receive path: `TupleIterator::process` over a connection's byte stream, with a reference definition of the keys. |
| `MCShuffleWorkers` | Both workers between two nodes, the set-up in two sizes, or the key extractor, chosen in the initial state. |
| `MCShuffle`, `MCShuffleEpoll` | The inputs of the shuffle violation runs and of the configurations by hand. |
| `ServerBw` | `server_bw.cpp`'s workers with their rings and `BufRing`s, and `client_bw.cpp`'s connections. |
| `EpollBw` | `epoll_server.cpp`'s workers and `epoll_client.cpp`'s workers. |
| `PingPong` | `server.cpp` and `client.cpp` over TCP. |
| `ZcRecv` | `zc_recv.cpp`'s receive loop over zero-copy multishot recvs, with the kernel's `RECV_ZC` and the sending peers. |
| `MCServerBw` | The four network programs, chosen in the initial state. |

### BufferManager state and actions

Variables and the code state they stand for:

| Variable | Code |
|---|---|
| `pt` | `page_table` entries |
| `hand` | `sweep_` |
| `bm` | `freeList`, `allocCount`, `physUsed`, the `toEvict`/`toWrite` batches, and the evictor's `running` flag |
| `rx` | The `UringReactor`: ready ring, fiber states, the SQ, the set of requests inside the kernel, the CQ, `to_submit`, `fibers_since_first_io`, `outstanding_` |
| `mem`, `disk` | Page contents: the `pages` array and the SSD |
| `latest` | Ghost variable: the last content written to each page |
| `pc` | Where each fiber resumes |
| `op` | The transaction a worker is attempting |
| `loaded` | The `loaded` flag |
| `failed` | The `ensure()` that ended the process, if any |

Actions:

* `Dispatch` starts a reactor round (`run`). `Drain` is `drain_cqe`. Both
  come from `kuring.hpp:111-127`.
* `Complete(e)` is the kernel finishing one request, in any order.
* Worker and loader steps:
  * `Start` picks an operation.
  * `Attempt` is one B-tree descent with all of its fixes and unfixes.
  * `PostFault` resumes after a read completes: `handleFault`'s wake-up of
    waiters and `io_lock` reset, or a re-check in `handleWait`.
  * `TxEnd` is the driver's `check_submit` and `yield`.
* Evictor steps:
  * `EvInit`
  * `EvLoop`: a sweep, plus eviction of clean victims or submission of the
    write batch.
  * `EvWrote`: `evictNow` after the write batch completes.
* `Terminated` stutters after an abort.

Each action includes everything its handler does up to the next suspension
point: `ensureFreePages`, the `check_submit` in `io()`, and the page-table
updates.

Abstractions:

* The probability in `check_submit` becomes a choice between "submit" and
  "defer". It is certain to submit when `fibers_since_first_io` reaches
  `total_io_fibers`.
* Page contents are drawn from `{Zero} \cup Vals`.
* A B-tree with one leaf: the root leaf's split allocates a new root page
  (`Ops`). Deeper splits, merges and scans are not modelled.

### BTree state and actions

The fixes of a B-tree operation never suspend. A fix that cannot proceed
returns Restart. The operation then unfixes everything, `handleRestart`
may yield, and the operation starts again from the root. So one attempt
between two restarts is one atomic step of `BTree`, and fibers interleave
between attempts.

| Action | Code |
|---|---|
| `CallInsert` | A fiber starts `insert(key, payload)` (`btree.cpp`). |
| `InsertInLeaf` | The descent reaches a leaf with room: `insertInPage` and return. |
| `InsertSplit` | The leaf is full: `trySplit(leaf, parent)`. A split that needs room in the parent records an `ensureSpace` in `ens`. The two booleans choose whether each `AllocGuard` finds a free frame. |
| `EnsureSplit`, `EnsureReturn` | `ensureSpace(toSplit, key, len)`: split `toSplit` if the descent still reaches it full; otherwise return. |
| `Erase` | `remove(key)`: remove the slot, and merge the leaf into its right sibling when it is underfull and the sibling is light. |
| `Update` | `updateInPlace`: overwrite the payload of a present key. |

The pages are scaled down. A slot takes 1 byte, a PID 3, a payload 1, and
a page 14. So a handful of one- and two-byte keys fills a leaf, separators
are truncated and fences share prefixes.

### Shuffle state and actions

Each node runs one worker thread (`ShuffleWorker::run`, `shufflev2.cpp`).
It scans its morsels and appends each tuple to the fill buffer of the
tuple's partition. A full buffer is sent on a free connection of that peer,
and the worker takes another buffer from its `unused` stack. Receives on
every incoming connection are kept armed. At the end, the worker flushes the
partial buffers, shuts every connection down, and waits until every
incoming connection has delivered its FIN and every request has completed.

`node[n]` is one record with the worker's locals and members:

* `pc`, `pos`, `hi`: the loop the worker is in, and its morsel;
* `fill`, `unused`, `buf`: the fill buffers, the free stack and buffer contents;
* `conn`: per peer and connection, the buffer being sent, whether the FIN
  was seen, and the armed receive buffer;
* `shut`, `budget`: per peer;
* `sq`, `kern`, `cq`: the SQEs queued, those inside the kernel, the CQEs posted;
* `out`: `outstanding`.

`stream[<<from, to, c>>]` is the TCP byte stream of one connection, a
sequence of whole buffers (at most `StreamCap` of them) and the FIN.

Ghost state:

* `meant` of a buffer is how many tuples the sender put in it;
* `got` is the bag of tuples a node has taken in;
* `ins` is the bag of tuples inserted into the hash table.

Worker actions: `NextMorsel`, `ScanTuple`, `FindConn`, `SendFull`,
`MorselDone`, `FinalPass` (one pass of the final flush-and-shutdown loop)
and `Outstanding`.

Every action that calls `drain_cqe` includes all of it. `Drain` folds
`OnCqe` over the CQ: `OnSend` returns the buffer to `unused`, and `OnRecv`
consumes the data and re-arms the receive.

Kernel actions: `KSend`, `KRecv`, `KShut`. The kernel executes the
submitted SQEs of a node in any order. A send on a shut-down stream
completes with `-EPIPE`.

### ShuffleSetup state and actions

Before any worker runs, `do_benchmark` (`shufflev2.cpp`) makes the
processes meet. The main thread builds a `TCPBarrier`: it listens on
`port - 1`, connects to every higher node and accepts one connection from
every lower node. It then starts the workers and waits twice at a pthread
barrier of `num_workers + 1` threads, calling `TCPBarrier::wait` between the
two waits. `wait` sends an int on every connection, then receives one from
each. Each worker's `init` listens on `port + wid`, connects `C` times to the
worker with its id on every higher node and sends its node id on each
connection. It then accepts `C` connections from every lower node, reads the
id and files the connection under `conn_idx[remote_id]`. Then it waits twice
at the pthread barrier and starts `run`.

State:

* `main[n]`: the main thread's `pc`, the node it is connecting to or
  accepting from, the attempts left (`tries`) and the connections it made;
* `wrk[<<n, w>>]`: the same for worker `w`, with `cidx`, the connections
  accepted per peer;
* `listening`: the `<<node, port>>` pairs with a listening socket;
* `backlog`: the connections queued on each listening socket and not yet
  accepted;
* `idSent`, `tbSent`: the id sent on a worker connection and the int sent
  on a barrier connection;
* `pb[n]`: the pthread barrier's count and generation;
* `aborted`: the processes that have ended.

Main thread actions: `Start`, `MainConnect`, `MainAccept`, `Spawn`,
`MainBarrier`, `MainSend` and `MainRecv`. Worker actions: `WListen`,
`WConnect`, `WSendId`, `WAccept`, `WRecvId` and `WBarrier`.

`connect_to` (`socket.hpp`) tries `Retries` times (100 in the code) and
throws after the last refusal. A connect is refused while the peer does not
listen yet, and nothing in the code bounds how late a peer worker listens:
it does so only after its node's `TCPBarrier` constructor has returned. So
`MainConnect` and `WConnect` may end the process (`Abort`). An `ensure` on a
`send` or `recv` fails once the peer process has ended, and that also ends
the process. An ended process stops listening. Its peers blocked in `accept`
or at the pthread barrier wait forever; the model has them stop
(`Terminated`), as does the normal end after `tp.join`.

### TupleIterator state and actions

Each receive connection of the shuffle's `Worker` owns a
`TupleIterator<sizeof(tuple_t)>` (`shufflev2.cpp`, constructed with
`key_offset` 0). With `use_hashtable`, every chunk that `process_recvzc`
hands back goes to `conn.ex.process`, whose callback inserts the key. The
variables are the iterator's fields: `streamPos` (`stream_pos_`),
`nextKeyPos` (`next_key_pos_`) and `partial` (the first `partial_filled_`
bytes of `partial_`). Two more variables record the run: `keys`, the keys
the callback received, and `fed`, the bytes handed over so far. The action
`Process(len)` is one call of `process` on the next `len` bytes:
`CompletePartial` is step 1 (finish a buffered key, emit it, move
`next_key_pos_` on), and the recursive `MainLoop` is step 2 with its four
exits. A byte of the stream is its own position, so a key is the sequence
of the positions it came from. `RefKeys` and `RefPartial` cut the stream
the way the layout says it should be cut; `KeysExtracted` compares them
with the iterator's state after every call.

### ServerBw state and actions

`wk[w]` is worker `w`'s state (control point, its free `BufRing`s,
`nr_conns`, `inflight_msgs`, `do_listen`); `cq[w]` its completions;
`kern[w]` the requests armed in its ring. Per client, `phase` is the
kernel's view of the connection, `srv[c]` the server-side `Client` and
`br[c]` its `BufRing`. A ring is `slot`, `head` and `tail` as in
`iou_bufring.hpp`, with 16-bit indices, so `add_from_cqe`,
`add_bundle_from_cqe` and the count are the code's arithmetic. `bSock`
(`sock` in the module) counts a connection's unread sends.

* `Spawn`, `Wire`, `WorkerInit(w)`: `main` starts the workers, each runs
  `init`, and `get_workers` is set last.
* `Reap(w)`: one iteration of `run`: `HandleCqe` folded over the CQEs
  (`OnNewClient` hands the socket on with `msg_ring` round robin,
  `OnMsgClient` creates the client and arms its recv, a receive completion
  gives its buffers back), `cq_advance`, the `stop_after_last` test with
  the wakeups, and the next submit.
* Kernel: `KAccept(c)`, `KMsg(w)`, `KRecv(w, c)`; a multishot recv that
  finds the ring empty ends with `-ENOBUFS`.
* Client: `Connect(c)`, `Send(c)` (at most `Data` sends, blocked while the
  socket holds `SockCap`), `ClientExit`.

### EpollBw state and actions

`sw[w]` is server worker `w`'s control point with the events its
`epoll_wait` returned; `conn`, `owner` and `armed` are the server side of
each connection (state, epoll set, `EPOLLONESHOT` armed); `nrConns` and
`openConns` are `nr_conns` and the atomic `open_conns`; `exits` counts
calls of `exit(0)`. On the client side `cw[c]` is a client worker's pass,
`canSend` is `conn->can_send`, and `nospace`/`edge` model TCP's
`SOCK_NOSPACE` and the queued `EPOLLOUT` edge.

* Server: `SWait(w)`, `Accept`/`AcceptDone` (worker 0's accept loop until
  `EAGAIN`, with `on_accept`), `SHandle(w)`/`HandleClient(w, j)` (one
  recv and re-arm, or close and `--open_conns`), `Check(w)` (the separate
  `open_conns == 0` test and `exit(0)`), `SHandleDone(w)`.
* Client: `Connect(j)` in the constructors, `ClientTop`, `ClientSend`
  (send, or `EAGAIN` clearing `can_send`), `ClientPassEnd`, `ClientWait`
  (`epoll_wait`, setting `can_send`), `RequestStop`, `ClientDestroy`.

### PingPong state and actions

Per side: `pc`, `sq` (prepared SQEs), `io` (requests in the kernel, in
submission order, with their `IOSQE_IO_LINK` flag), `cq`, and `rx`, the
messages in that side's socket. `closed` and `rst` record FIN and RST.
`ops` is the client's op counter, and `totalRecv`/`done` are the server's.

* Client: `ClientTop` (the stopper test: close, or submit), `Wait`,
  `ClientReap` (one CQE: an error returns 1; the `ud_action` completion
  counts an op and queues the next send and recv), `ClientReapEnd`.
* Server: `ServerSetup` (accept; `TCP_NODELAY` through the ring, whose CQE
  is never marked seen; the first recv), `ServerTop`, `Wait`,
  `ServerReap` (an error returns 0; a recv completion sets `done` on 0
  and queues the pong and the next recv), `ServerReapEnd`.
* Kernel: `Kernel(s)` runs an eligible request (not behind a linked one,
  the oldest of its kind): `KRecv`, `KSend` (with a zero-copy
  notification after it when `reg_bufs`), `KOther`.

A process that ends closes its socket: a RST if it leaves data unread, a
FIN otherwise. So a client whose duration ends while a pong waits unread
resets the connection, and the server leaves through its error branch
(`return 0` after "Server startup failed") rather than through `done`,
without printing `total_recv`; the model reaches this, and it is listed as
a hazard rather than checked, since both processes still end.

### ZcRecv state and actions

`zc_recv.cpp`'s `main` accepts `nr_conns` connections and prepares on each
a multishot zero-copy recv (`add_recvzc`) of `cfg.size` bytes, with the fd
as user data. Its loop submits and waits, then handles every CQE it finds.
A CQE with `IORING_CQE_F_MORE` carries data: `process_recvzc` hands the
buffer back on the refill ring, and the bytes count in `bytes_recv` and in
`bytes_since_last[fd]`. The last CQE of a recv has res 0. The kernel posts
it both when the recv's length is used up and at EOF, so the loop tells
them apart by `bytes_since_last`: bytes since the recv was armed mean the
length ran out, and the loop arms the recv again; none mean EOF, and the
loop sets `done`.

State: `size` (`cfg.size`, 0 for no limit), `pc`, `accepted`, `sq` (recvs
prepared, not submitted), `armed` (the bytes an armed recv has left), `cq`,
`last` (`bytes_since_last`), `bytesRecv`, `done`, `crash` (a failed `ensure`
or `bytes_since_last.at`), and for the peers `sock`, `sent` and `fin`.

Actions: `Accept`, `Submit` and `Reap`. `Reap` folds `OnCqe`, the body of
`io_uring_for_each_cqe`, over the whole CQ. The kernel's actions are
`KData` (one data CQE, and the last CQE if that used the length up) and
`KEof`. The peer's actions are `PeerSend`, while its socket has room, and
`PeerClose`. The peer stands for `client_bw` with a duration, which sends
until its duration ends and then exits. The refill ring is not state,
since each buffer goes back in the step that receives it.

## Runs

| Run | cfg | Expect | Shows |
|---|---|---|---|
| `hash_tables` | `MCHashTables.cfg` | pass | Either map, chosen in the initial state. The page table keeps its Robin-Hood layout (`RobinHoodLayout`), implements `KeyValueMap` (`MapRefinement`), through displacing inserts, wrap-around backshift and the overflow abort. The chained table stays a well-formed heap (`HeapWellFormed`), ends a batch as one-by-one inserts would (`MapSemantics`) and aborts only when every node is in use (`AbortOnlyWhenFull`). Each container, chosen instead, implements a bounded FIFO (the rings) or LIFO (the stack) through the wrap-around of its counters (`ContainerRefinement`). |
| `buffer_manager` | `MCBufferManager.cfg` | pass | Loader, evictor and two workers on 3 frames and 4 pages. Every frame is free or owned by exactly one page (`FrameAccounting`); no update is lost through eviction and re-read (`NoLostUpdate`); the head of every waiting list owns its page's read (`IoLockOwner`); every parked fiber waits for something that will wake it (`NoLostWakeup`); no fix hits an in-use page and no unfix misses (`GuardDiscipline`). |
| `buffer_manager_progress` | `MCBufferManagerLive.cfg` | pass | With one worker, under fairness, every fiber parked on I/O runs again (`ParkedFibersResume`) and the load phase ends (`LoadCompletes`). |
| `meta_evict` | `MCMetaEvict.cfg` | violation | `MetaNeverEvicted` fails. The evictor calls `evict()` again without suspending. The second rotation finds the metadata page unmarked and `ensure(pid != 0)` (`bm.cpp:491`) aborts. |
| `submit_hang` | `MCSubmitHang.cfg` | violation | `NoStrandedRead` fails with four workers. `check_submit` defers a fault read; three workers park in `handleWait`, which never calls `check_submit`; the evictor sleeps and nothing ever submits the read (`kuring.hpp:262`). |
| `shuffle_workers` | `MCShuffleWorkers.cfg` | pass | Either shuffle worker between two nodes. Every buffer is in exactly one place (`BufferConservation`); a buffer named by a request in flight belongs to that request's connection (`InFlightBufferOwned`); the epoll worker's partial sends and recvs keep the stream framed in whole buffers (`FramingAligned`); no `ensure` or `check_iou` fires (`NoAbort`); a worker that returns from `run` has every tuple meant for it, once (`DeliveredOnExit`); and under fairness every worker returns (`AllExit`). The set-up, chosen instead, with three nodes of one worker and with two nodes of two workers and two connections each: no worker starts `run` before every worker of every node has made and accepted its connections (`GlobalStart`); under fairness the set-up ends, with every worker running or with a process ended on a refused connect (`SetupEnds`). The key extractor, chosen instead, has emitted exactly the whole keys of the bytes received so far, once each and in order, and buffers the key a chunk cuts, for every way of cutting the stream (`KeysExtracted`). About two minutes. |
| `phantom_insert` | `MCPhantom.cfg` | violation | `NoPhantomInsert` fails with `use_hashtable`: `drain_cqe` inserts the whole receive buffer on every receive completion (`shufflev2.cpp:902`), the FIN completion included. |
| `btree` | `MCBTreeWorkloads.cfg` | pass | The growth workload (leaf and inner splits, new roots, failed `AllocGuard`s, `ensureSpace` meeting a tree another fiber changed) and the churn workload (underfull leaves merging into their right siblings). The reachable pages form a tree with fences equal to the separators above (`TreeShape`); slot array and heap never overlap and `spaceUsed` is exact (`SpaceLayout`); both scans visit exactly the present keys in order (`ScanOrder`); hints are current (`HintsCurrent`); `lowerBound` agrees with a linear search (`LowerBoundCorrect`); the tree implements `KeyValueMap` (`MapRefinement`). About two and a half minutes. |
| `epoll_flush_drop` | `MCShuffleEpollDrop.cfg` | violation | `DeliveredOnExit` fails: when the last full buffer is still in send at the end of the scan, `EpollWorker`'s flush loop skips the target's partial buffer (`shufflev2.cpp:1665`) and the peer returns without its tuple. |
| `server_bw` | `MCServerBw.cfg` | pass | Each network program, chosen in the initial state, under fairness. `server_bw` in every served receive mode gives back every ring buffer exactly once (`BufferConservation`). No `ensure`/`check_iou` ends either bandwidth server or `zc_recv`, and the ping-pong client never fails (`NoAbort`). No server leaves while a connection is unserved; `zc_recv` leaves only after its peer closed and every byte was counted, with and without a length limit (`ServedOnExit`). `epoll_client` never loses its `EPOLLOUT` wakeup (`NoLostWakeup`). No ping-pong recv can overwrite `buf` while a send of it is pending (`BufExclusive`). Every program ends (`AllExit`). |
| `server_bw_enobufs` | `MCServerBwEnobufs.cfg` | violation | `BufferConservation` fails with `mshot_recv` (not as a bundle): the `-ENOBUFS` completion hands buffer 0 back to a full ring (`server_bw.cpp:421`). |
| `epoll_double_exit` | `MCServerBwExit.cfg` | violation | `ExitOnce` fails: two `epoll_server` workers decrement `open_conns` and both read 0, so `exit(0)` runs on two threads (`epoll_server.cpp:188`). |

Each violation is recorded as a finding in `PROJECT.json`. Each property of
the passing runs has a mutant there: a plausible bug in a mapped definition
that TLC shows the property catches.

The runs that combine models (`hash_tables`, `shuffle_workers`, `btree`,
`server_bw`) choose one model in the initial state; the other models keep
one initial state and never move, so the state space is the sum of the
models', and each property is the conjunction (for `AllExit`, the
disjunction by choice) of the models' properties.

### Configurations by hand

These configurations are kept for exploring and are not among the runs:
`MCPageTable.cfg` and `MCChainedHT.cfg`/`MCChainedHTFull.cfg` (the maps
alone); `MCBTree.cfg`, `MCBTreeChurn.cfg` (the workloads alone),
`MCBTreeDuplicate.cfg` (`MapRefinement` fails when a present key is
inserted again: `insertInPage` has no existence check) and
`MCBTreeSepSlot.cfg` (`SepSlotPositive` fails: `splitNode`'s
`assert(sepSlot > 0)`); `MCShuffle.cfg`, `MCShuffleLive.cfg`,
`MCShuffleTwoConns.cfg` (two connections per pair) and `MCShuffleEpoll.cfg`
(each worker alone); `MCBudgetHang.cfg` (`AllExit` fails with
`use_budget` when node 1 sends nothing to node 0).

### Bounds

* **Frames and pages.** Three frames, one of them the metadata page's, with
  four pages. The workload's pages never all fit, so the evictor, the
  empty-free-list path and re-reads of evicted pages all happen.
* **Page table.** The capacity is 4, which is `next_pow2(3 * 1.5)`. The home
  slots are the real splitmix64 values of pids 0..3, masked with 3.
* **`FreeTargetPct = 10`.** The evictor runs exactly when the free list is
  empty.
* **Two workers.** Enough for two faults on one page (`handleWait`), a
  fix during an in-flight write, and interleavings between workers.
* **`total_io_fibers` equals the number of workers**, as in the driver.
  * Below four, `check_submit` is certain to submit from a fault (`total/4 = 0`).
  * So deferral first appears with four workers, which is the `submit_hang`
    configuration. `NoStrandedRead` is checked only there: in the
    two-worker run no read can be deferred, so it would hold whatever
    the deferral path did, and with deferral it fails.

* **Containers.** Four slots and counters of `Width = 3` bits, standing
  for the 64-bit `size_t`/`uint64_t` counters: they wrap after eight
  pushes, with up to four items held, so pushes and pops cross the wrap
  in every phase. The refinement needs `Cap < 2^Width`; with `Width = 2`
  a full ring reads as size 0, and TLC finds a push that overwrites a held
  item. With 64-bit counters and the repository's capacities this cannot
  happen.

### Fairness

The liveness run assumes:

* weak fairness of `Dispatch` and `Drain`: the reactor loop runs forever
  while anything is ready or outstanding;
* weak fairness of each fiber's steps: a resumed fiber runs until it
  suspends;
* weak fairness of each completion: the SSD completes every submitted
  request.

Nothing stronger is assumed. The random submit is not assumed to fire
eventually.

### B-tree bounds

The `btree` run evaluates the scans and the refinement mapping in every
state; the recursive descents bind each child once (`CHOOSE` over a
one-element set) so that TLC does not re-evaluate them, and the leaf lookup
binds the leaf page and its `lowerBound` result the same way. `KeyValueMap`
binds the map before and after a step once per transition, so the refinement
check descends the tree once per key and state. The run takes about two and
a half minutes.

* **Seven keys in the growth workload.** The second split fills the root, so
  `ensureSpace` must split an inner node and a new root is made. Two
  fibers let one fiber's `ensureSpace` meet a tree another fiber changed.
* **Five keys in the churn workload.** Three leaves under one root are needed
  for a leaf to have a right sibling under the same parent
  (`pos + 1 < count`), which merging requires.
* **`MaxPid`** bounds the PID counter: 12 for growth and 6 for churn. That is enough for every split the keys cause.
* **No liveness.** Inserts loop only through restarts, and restarts are
  stutters in the model. So the B-tree runs check safety only.

### Shuffle bounds and fairness

* **Nodes and tuples.** Two nodes (`P = 2`), so every node both sends and
  receives. Inputs of 6 and 3 tuples, with keys of both partitions, and
  buffers of two tuples. That gives full sends, partial final flushes, and
  a node that finishes its scan while its peer still sends.
* **Buffers.** Three buffers per node, of which one is the armed receive.
  With two sending partitions, the `unused` stack does run empty, and
  `FindConn`'s drain loop waits for a send to complete.
* **Streams.** `StreamCap = 1` buffer in flight per connection, so a send
  waits for the receiver.
* **Connections.** One connection per pair. `MCShuffleTwoConns.cfg` checks
  `NoAbort` and `DeliveredOnExit` with two connections per pair and
  one-tuple buffers (718k states). It is not one of the runs above.
* **EpollWorker.** Node 0 sends two full buffers and node 1 a partial one,
  over sockets that hold one tuple, so every send meets `EAGAIN`, arms
  `EPOLLOUT` and resumes in the middle of a buffer; the last full buffer
  is completed only in the drain loop.
* **Fairness.** Weak fairness of each worker's step and of each node's
  kernel step. A worker thread is always scheduled eventually, and the
  kernel completes every request it can. The receiver's recv is always
  armed, so a send into a stream with room is enabled until it is taken.

* **Set-up.** `ShuffleSetup` is checked in two instances. In the first,
  three nodes have one worker and one connection each (`P = 3`), so a node
  both connects and accepts, accepts arrive from two peers in either order,
  and one abort can cascade to two peers. In the second, two nodes have two
  workers and two connections per pair (`W = 2`, `C = 2`): only there is the
  pthread barrier shared by several workers, and only there can a worker's
  `recv` of the remote id meet a peer that has already ended.
  `Retries = 2`, so both a retry and a give-up happen. Three nodes with two
  workers do not finish in five minutes.
* **Set-up fairness.** Weak fairness of each node's main thread and of each
  worker thread. Every blocking call of the set-up (`accept`, `recv`, the
  barrier wait) is enabled only once its partner has acted, so weak fairness
  is just "a ready thread runs".

* **Key extractor.** The benchmark's tuples are 16 bytes with an 8-byte
  key (`do_benchmark<16>`); the model halves both (`KeySize = 4`,
  `TupleSize = 8`), keeping the gap as long as the key. The stream is
  three tuples (24 bytes), fed in chunks of every length from 1 to 9. So
  a chunk ends at every offset inside a key and inside a gap, a key is
  split over three chunks, and one chunk holds a whole tuple and more.
  Every chunking is explored: the state after a call depends only on the
  bytes fed so far if the iterator is right, and a wrong state is new.

### Network programs: bounds and fairness

* **server_bw.** Two workers and two connections, so worker 0 hands one
  connection to itself and one to worker 1; rings of two buffers (the
  smallest power of two) and one `BufRing` per worker (the default
  `num_brs`); up to three sends per connection and sockets of two, so a
  bundle takes the whole ring and a multishot recv empties it. The served
  modes are single shot without buffer select, with it, as a bundle, and
  multishot bundles; multishot without bundles is the `-ENOBUFS` run.
* **epoll.** One client worker with two connections, handed to the two
  server workers, so both may close the last connections together;
  sockets of two units, so sends meet a full socket and the client waits
  for `EPOLLOUT`; `MAX_CONNS` 2, as many as the client opens.
* **ping-pong.** Ping-pong with single-shot sends, with zero-copy sends
  (`reg_bufs`), and the one-way stream; `client.cpp` refuses `reg_bufs`
  without ping-pong. Sockets of two messages and at most three ops before
  the client's duration ends, enough for a pong to be unread when it does.
* **Fairness.** Weak fairness of every thread's step and of every kernel
  step: threads are scheduled, and the kernel completes what it can. The
  client's duration (`stopper`) is a choice at each loop test, bounded by
  the ops; nothing forces it earlier.
* **zc_recv.** One connection whose peer sends three units and closes,
  over a socket of two. With `cfg.size` 2 a recv is used up and armed
  again, and EOF reaches both a recv that has had data (armed again) and
  a fresh one (the loop ends); with `cfg.size` 0 the recv has no limit.
  The first accepted fd is 5: stdio, the ring and the listening socket
  come first. With two connections, `ZcRecv`'s `ServedOnExit` fails: the
  first EOF ends the loop while the other peer still sends. That is listed
  as a hazard, since the program measures bandwidth and may mean to stop
  there. `bytes_since_last` has 32 slots indexed by fd, so the 28th
  connection gets fd 32 and `.at` throws; the bounds do not reach that.
* **zc_recv fairness.** Weak fairness of main's steps, of each kernel
  step and of the peer. Under `DEFER_TASKRUN`, the default, the kernel
  posts completions while main waits in `submit_and_wait`, so the loop
  handles the CQ as one step.

## Not modelled

* **The `sync_variant`, `posix_variant`, libaio and NVMe passthrough paths of
  BufferManager, and `LibaioReactor`.** These are benchmark toggles with the
  same control structure over another I/O API.
* **TPC-C.** `tpcc_workload.hpp` is not in the repository.
* **Parts of the B-tree.** These are not modelled:
  * the optimistic version checks inside a fix, since an attempt is atomic;
  * the partial rewrite of `updateHint`, since the runs use one hint
    (`HintCount = 1`) and a partial rewrite needs at least seven slots on
    a page with two hints;
  * the page leak of `mergeNodes` is visible (`allocCount` only grows) but
    no property bounds it;
  * concurrent scans: a scan is a state function of one state, so a split
    between two leaves of one scan is not interleaved.
* **Parts of the shuffle.** The zero-copy receive path itself (`ZCRecvHelper`,
  `send_zc` with `MSG_ERRQUEUE`), `mini_alloc` and the timing. The key
  extractor is modelled on its own; its callback passes the chunk's start
  (`(tuple_t*)data`) as the tuple of every key, which is payload the
  model does not carry. The set-up (`ShuffleSetup`) leaves out the socket options
  (`set_nodelay`, `SO_REUSEADDR`) and the io_uring and buffer set-up of
  `init`; it does not connect the set-up to the workers' run in one
  model, which would multiply both state spaces.
* **Parts of the network programs.** In all three, `reg_fds`, `napi`, SQPOLL and the other setup modes, which
  change who submits and not what; the UDP path of the ping-pong and its
  empty terminating datagram; timing and statistics.
* **The zero-copy set-up of `zc_recv.cpp`** (`setup_zcrx`, the udmabuf
  and the refill ring's registration), which is configuration, and the
  refill ring, whose consumer is the kernel.
* **The micro-benchmarks, CLI parsing, the perf-event
  wrapper, logging and hugepage glue.**
* **Numeric edges of `check_submit` and `next_pow2`.** In `check_submit`
  the deferral counter grows by at most one per call and a submit is forced
  once it reaches a quarter of the I/O fibers, so the table index stays in
  range; no run has enough fibers for the deferral branch, and the
  `submit_hang` violation covers its one real consequence. `next_pow2` has
  undefined behaviour for large shifts.

## Plan for later work

1. `next_pow2` and the `ExpTable` submit probability as operators, checked
   against reference definitions.
2. B-tree pages with two hints and enough slots for the partial
   `updateHint` rewrite.
