# A verification development for C-flat

TLA+ modules that model the concurrent core of the C♭ ("cflat") runtime library, the language
server's analysis engine, the compiler's data flow analyses of moves, and the over-the-air launcher;
TLC configurations that check them on small instances, and proofs that TLAPS checks. Paths below are
relative to `src/`.

## 1. Inventory of the system

The repository is a compiler (C++ over LLVM, `cflat/*.cpp`), the core library that its programs
are compiled against (written in CFlat, `cflat/core/*.cb`), a language server, and a launcher
that installs and runs compiler releases (`launcher/`).

| component | state it keeps | operations | interacts with | what is hard | what makes it correct |
|---|---|---|---|---|---|
| `channel<T>` (core/channel.cb) | ring, per-slot sequence numbers, head, tail, producer count, closed flag | init, add/close_producer, try_push, send/push, try_pop/try_receive, receive/pop, receive(out), `>>`, destroy | ThreadPool queues, arena_channel, forwarders | lock-free claims, slots reused lap after lap, out-of-order publication, end of stream racing the last item | a slot has one user; nothing lost, duplicated or reordered; end only when drained |
| `ThreadPool` (core/threadpool.cb) | three queues, token semaphore, `_inflight`, `_drainingWorkers`, stop flag, handles with continuations | submit, submitDetached, then, wait, drain (inside and outside), shutdown, resize, worker loop | channel, semaphore, mutex, condition variable, tasks that call back into the pool | continuation racing completion, handle deleted by its waiter, drain on a worker, lost wake-ups, full queues | every task once; drain complete; every call returns; no use of a deleted handle |
| launcher (launcher/Launcher.cpp) | release slots, `current`, `update-state.json`, `update-lock` | run, --install-release, --update-from, --rollback, --status | file system, compiler process | several processes, a crash between any two file operations, a slot that is edited | files name only complete slots; replay protection; run does not change what is active |
| `spsc_queue` (core/spsc_queue.cb) | ring with a sentinel slot, head, tail | push, pop and their try forms | program inboxes | publication order | a bounded FIFO |
| barrier, spin_barrier, latch, event | counters, generation | wait, count_down, set | threads | a fast thread that re-enters the next phase; destruction after the last wait | no phase is skipped or mixed |
| page_pool, page_arena | Treiber stack with a tagged top word, links inside the free pages, an approximate count | acquire, release, cleanup | bucket_allocator, vmem | ABA, a 17-bit tag, reading a page that was handed out or unmapped, a count that lags | no page has two owners; an acquired page is zero; the cache is bounded |
| bucket_allocator, memory, vmem | per-thread buckets, page headers | allocate, free from another thread | page_pool, thread | cross-thread free, thread exit | every block has one owner |
| olock, B-tree (core/hpc) | version word per node and for the root, nodes, entry count | lookup, insert (fast and slow path), and the single-threaded add, remove, cursors | readers and writers of nodes | reads of half-written nodes, a leaf that is split before it is locked, splits from the root down | an answer is right for some moment of the call; the tree at rest is a B-tree with every accepted entry |
| mutex, semaphore, rwlock, thread | operating system objects | lock, wait, start, join | everything above | lazy creation, spurious wake-ups | mutual exclusion |
| arena_channel, hpc/parallel | a channel of arenas and a free list; loops over a pool | send/receive arena; parallel for | channel, ThreadPool | recycling of arenas | no arena has two users |
| compiler front end and code generation | AST, symbol tables, LLVM module | translate | - | size, not protocol | semantics of the language |
| move data flow (cflat/MoveDataflow.h) | what may be moved or null at the end of each block, post-dominators, control dependence | fixpoint, diagnosis | code generation, which records the events | loops, visit order, exemptions that come and go, code that ends the program | exactly the uses after a move are reported, and nothing that a guard excuses |
| CompilerManager, CxxIncrementalGroup | caches on disk and in memory | build, reuse, invalidate | file system | stale results | a cached result equals a fresh one |
| isolation policy, package resolvers, Windows metadata | parsed rules and files | evaluate, resolve | build | rule precedence | - |
| language server (cflat/LspServer.cpp) | open documents, job queue, generations, backend slots with what each was analysed with, analyses in flight, view cache, index | notifications, view requests, debounce, worker loop, locale change, shutdown | compiler backends, client | three kinds of threads under eight mutexes, jobs that are superseded, crashes and exceptions in an analysis, waiting for slots | no slot is lost; a view shows the text asked for; the newest revision is analysed; everything ends |
| UI, network and science libraries | - | wrappers and numerics | platform | - | - |

The component list with its status is in `PROJECT.json`, and so are the hazards: the places in
the code that tests hardly reach, each with the properties that watch it.

## 2. Plan

Done, in this order:

1. **Channel** (+ `TicketQueue` as its contract, + `QueueProofs`): everything else in the core
   library that moves data between threads rests on it.
2. **ThreadPool**, on top of the channel's contract.
3. **Launcher**.
4. **SpscQueue** (+ `BoundedFifo` as its contract, + `QueueProofs`): refinement of a bounded
   FIFO, for every capacity.
5. **LspServer**: the analysis engine of the language server.
6. **Cfg**, **MoveDataflow**, **NullDataflow** (+ `DataflowProofs`): the data flow analyses, against
   definitions by walks through the graph.
7. **BTree** over the version lock: concurrent lookup and insert (+ `BTreeInvariant`, `BTreeProofs`).
8. **PagePool** (+ `PagePoolProofs`).

Left, most important first:

9. *ChannelPipe*: `operator>>` and its forwarder threads over two channel contracts, with
   `add_producer` called by the forwarder; does fan-in lose items?
10. *Barrier*, *SpinBarrier*, *Latch*: phases, re-arming order, destruction.
11. `olock.obsolete()` under a lock bracket, *ArenaChannel*, *BucketAllocator*,
    `ThreadPool.resize`, restart after shutdown, the order in which the language server publishes
    diagnostics.
12. A set as the abstract specification of PagePool (a page has one owner) and of BTree (a map),
    with the refinements.

Section 5 has a theorem for every invariant and every action property that a run checks, and for the
safety part of each refinement. Theorems planned after those: the refinements of point 12.

## 3. Modules and how they correspond to the code

`PROJECT.json` ("map") names the lines of every definition.

**Channel.tla** - `channel<T>`. One step for every load, CAS and store of shared memory, because
the interleavings between them are the point. The loops of the six push and pop variants are the
same loop with different exits, so a call has a `mode`: `"block"` (send, push, receive, pop),
`"try"` (try_push, try_pop, try_receive) and `"eof"` (receive(out)). `pc` and `pos` are the
program counter and the local `pos` of the call. `head`, `tail`, `seq`, `buf`, `producers`,
`closed` are the fields. `sent` and `got` record what went in and out. The plain copies of the
item are steps of their own (`PushWrite`, `PopRead`), so two of them meeting is a state.
Senders are registered before any starts, as the comment on `add_producer` asks. Senders call
`close_producer` once they have sent what they have to send. Memory is sequentially consistent:
the code states x86/x64 as its only targets and uses acquire loads, release stores and CAS.
Positions are unbounded integers where the code has 64 bits.

**TicketQueue.tla** - the contract of a channel: a sender takes a ticket and later makes it ready;
only the oldest ticket can be received, and only if it is ready. It is the right contract, and a
plain FIFO is not: the code documents that try_pop can be empty-handed while a later item is
complete. `Channel!ImplementsTicketQueue` is the refinement: the CAS on head takes the ticket,
the release store makes it ready, the CAS on tail receives.

**Ring.tla** - the array and the two indices into it, which Channel and SpscQueue extend; what else
both would give one name has the prefix `Spsc` in SpscQueue, so that one module can state theorems
about the two.

**SpscQueue.tla** - `spsc_queue<T>`, with one producer and one consumer, as the code demands.
`head`, `tail` and `buf` are the fields; `ppc`/`cpc`, `item` and `out` are the program counters and
locals of the call of each side; `pmode` and `cmode` tell `try_push` from `push` (a blocked push
stays at its check). A step is one access that the other thread can observe: the load of the
other's index, the plain copy, the store of one's own index. The indices are seq_cst atomics
(`spsc_queue.cb:19-24`), so interleaving is exact here. `pushed` and `popped` record what each store
made visible.

**BoundedFifo.tla** - its contract: items leave in the order in which they came, and at most `Capacity`
are under way. `SpscQueue!ImplementsFifo` is the refinement: the store of `_head` puts, the store
of `_tail` takes. The comment at `spsc_queue.cb:8` says that `init(1024)` has 1023 usable slots;
the model follows the code (and the comment at line 45), which allocates one slot more than it
is asked for and so has 1024.

**QueueProofs.tla, ThreadPoolProofs.tla, LauncherProofs.tla, LspServerProofs.tla,
DataflowProofs.tla, PagePoolProofs.tla, BTreeInvariant.tla, BTreeProofs.tla** - the proofs
(section 5). BTreeProofs extends BTreeInvariant, which has the invariant and the steps that do not
reshape the tree.

**ThreadPool.tla** - `ThreadPool`, its workers, and the tasks. Each thread has a stack of frames,
since a task that drains executes other tasks on its own stack, and tasks call the pool. The
variables are the fields; `cont`, `done` and `handle` are the task handles. A step is one access
to shared state or one critical section; where a critical section could matter to a reader
that takes no lock (the completion handshake, where `done` becomes visible inside the lock), it
is split. The queues are channels at the granularity of TicketQueue (claim, publish, pop the
oldest if published). `program` fixes what each thread and task calls.
`fate`, `owed` and `runs` are history variables. A task stands for one submission, so a program
submits each once, and `then` is not called on a detached task, which has no handle
(`OneSubmissionEach`).
Not modelled: resize, pinning, inline mode, cancellation tokens, time-outs of wait_for, restart
after shutdown. A queue is full when it holds QCap items; the code's channel can refuse a little
earlier (see `RefusedOnlyWhenFull`), which has the same consequences in the pool.

**Launcher.tla** - the commands run, install, rollback as processes over a shared directory. A
step is one file operation or one decision between two; a `Crash` can happen before each. A slot
is a release or absent, with the set `broken` of slots that no longer verify. WriteAtomic is
modelled with its four operations (write, rename, remove, rename again), because two processes
use the same temporary name. A failed install saves its state too (`Fail`), so that
is a write. Hashes, manifests and copying are "the release is defective or not".
Not modelled: torn writes within one file (open to flush is one step), an installation without
the seed compiler, a state file that is lost or corrupt for other reasons, I/O errors.
`--update-from` selects the files of an install, `--status` only reads.

**LspServer.tla** - the analysis engine. The message loop handles one message at a time (one action
per handler, with the parts of `EnqueueAnalysis` under different mutexes as steps of their own:
`Begin`, `Bump`, `Push`); the debounce thread (`Debounce...`) enqueues in the same way and so races
it; each worker runs `WorkerLoop`: `Take`, `Check` (superseded?), `Reserve` a slot, then `Reuse` or
`Analyse`, `Emit`, `Release`. `free`, `record`, `inflight`, `cache`, `queue`, `gen`, `pending` are
the fields; `held` is what the backend of a slot really contains, which the code can only infer from
its record. An analysis ends in one of five ways (`Outcomes`): well, with errors, with a crash that
the server recovers from, with an exception, or before it began. `ApplyClientLocale` takes all
slots; the destructor stops and joins. Modelling choices: didOpen is for documents that are closed
and didChange for open ones, as the protocol demands of clients; a text stands for its hash and
length; the debounce thread exists from the start; the quiet period ends at any time after which no
change has come, and firing is one step with the read of `viewUris_`; idle workers are alike, so the
first takes the job; the locale is changed at most once; published diagnostics and the symbol
queries are left out.

**Cfg.tla, MoveDataflow.tla, NullDataflow.tla** - `movedf::AnalyzeFunction` and `nulldf::AnalyzeFunction`.
A function is a graph and a log of events in blocks. `Search` is one round of the loop of
`ComputeRpoIndex`, a depth-first search with its own stack (`SearchStep`); `Number` turns the blocks it
has left into the reverse post-order, and from then on a block is known by its place there. The log is
input, recorded event by event (`Record`). `Visit` is one block of a sweep, `NextSweep` begins the next
one, `EndSweeps`, `VisitAcyclic` and `Diagnose` are what follows the last. The move analysis
has one binding `x` with one field, and the exemption `!x.f` of a revived field; a re-binding clears all
three keys. The null analysis has one binding. It finds the post-dominators in sweeps of its own, from
the last block to the first (`BeginMeets`, `MeetPd`, `NextMeets`); `EndMeets` stores the closure of the
control dependence (`cd`), which the code computes when it is first asked for and remembers. What
MoveDataflow also has carries the prefix `Null` there. Not modelled: field paths and the address escape
of the null analysis (an escaped name has no events at all), blocks that end in an invoke,
`FunctionNeverReturns` (which functions end the program is a given, `ends`), the recording of the
events, the texts of reports.

**BTree.tla** - `lookup` and `insert` of `btree<K,V>`. A step is one access that another thread can
observe: a snapshot or validation of a version, a read of a count, a child or a value, a store that
shifts an entry, the store of the count. `ReadBegin` .. `Couple` are `_descendOptimistic`;
`Upgrade`, `NoRoom` are `_fastLockLeafWithRoom`; `LockTree` .. `SlowRoom` are
`_lockLeafPessimistic`; `Find` .. `CountEntry` are the insertion itself. A scan over the keys of one
node is one step, and so is the part of a split that no other thread can reach. Versions are numbers
and are never reused. `known` and `wins` are history variables. Memory is sequentially consistent.
Trees to start from are those that single-threaded `add()` leaves behind: any that are `WellFormed`,
that is for which there are a span (the keys that belong below it) and a level for every node, such
that a leaf holds the entries of its span in order, the separators of an inner node divide its span
among its children, and the leaves are linked in the order of their spans. A tree in `Trees` comes with
its spans and levels; they are not part of the state. `Keys` is the key type. `add`, `remove` and
cursors are documented as single-threaded and not modelled, so no node is ever freed.

**PagePool.tla** - `page_pool`. `top` is the decoded word (page and tag modulo `TagMod`), `link[p]` the
first eight bytes of a page, `zero[p]` whether the rest is zero, `place[p]` who owns it or whether it is
unmapped (`"os"`). `acquire` and `release` take one step per shared access; the read of the head's link
(`ReadLink`) may find a page that somebody else owns and has written to, or that is unmapped, which
ends the process (`faulted`). `NoWrap` is the assumption the code states about its 17-bit tag: it does not
come round again while a thread is between its load of `_top` and its CAS.

## 4. Runs

| run | instance | result |
|---|---|---|
| channel | 2 senders (2 + 1 items), 2 receivers, 2 slots | passes: `SlotExclusive`, `RingInv`, `EndMeansDrained`, `RefusalIsHonest`, `ImplementsTicketQueue`, `StreamEnds` |
| threadpool | 2 workers, 2 users, 5 tasks, queues of 1, three programs | passes: accounting, handles, continuations, drain outside the pool, every call returns |
| threadpool_long_chain | 1 worker, a chain of three | `NeverNeither` is violated |
| threadpool_late_drainer | 2 workers, two tasks that drain, a continuation of lower priority | `WorkerDrainCompletes` is violated |
| launcher | 2 processes, 4 commands, 3 releases (two of one version, one defective), 1 edit | passes: `ActiveInstalled` always; replay protection and run's harmlessness while commands do not overlap |
| spsc_queue | 2 usable slots, 5 items of two values, blocking and try calls mixed | passes: `CopiesApart`, `QueueInv`, `RefusalsRight`, `ImplementsFifo`, `EverythingDelivered` |
| lsp | 1 open document with 2 texts, 2 slots, 2 views, a cache of 1, 3 messages | passes: `SlotsConserved`, `AnswersRight`, `NewestNeverLost`, `NoDuplicateAnalysis`, `ViewsAnswered`, `ShutdownEnds` |
| move_dataflow | 5 graphs (loops nested, with two entries, with an unreachable block), every log of up to 3 events | passes: `ReportsExact`, `Terminates` |
| null_dataflow | 8 graphs (5 without loops), a block that ends the program or not, every log of up to 3 events | passes: `PostDominatorsRight`, `WitnessesExact`, `LoopFreeNothingSkippable` |
| btree | 2 inserting threads and 1 reader, fanout 3, 4 trees | passes: `AnswersRight`, `TreeRight`, `RoomForSplit`, `CallsReturn` |
| page_pool | 3 threads, 4 pages, cap 1, tag modulo 4 | passes: `StackRight`, `AcquiredZeroed`, `CacheBounded` |
| page_pool_unmapped | 2 threads, 2 pages, cap 1 | `NoFault` is violated |

The type invariants `TypeOK` of Channel, ThreadPool, Launcher, LspServer, SpscQueue, PagePool and BTree
are proved (section 5).

The properties, in the order of what they are worth:

* `ImplementsTicketQueue`, `SlotExclusive`, `EndMeansDrained`, `StreamEnds`: a channel neither
  loses, duplicates nor reorders, its unsynchronised copies never meet, and the end of the stream
  is told only, and always, when everything was received.
* `AnswersRight`, `TreeRight` (BTree): what a lookup answers was true at some moment of the call, what it
  returns is an entry that was inserted under that key and not a mixture; an insert is refused only
  for a key that is there; and when nobody is inside, the leaves hold every accepted
  entry once, in order, each found by the descent. `RoomForSplit`: the branches that the code calls
  defensive are never taken. `CallsReturn`: no circular wait, no lock kept.
* `NewestNeverLost`, `AnswersRight`, `SlotsConserved` (LspServer): although generations are taken
  and queued in different critical sections by two threads, the newest is never the one dropped;
  a view never shows a text or kind that was not asked for, whatever has been analysed, has failed or has
  crashed on its slot; slots and announcements survive every way an analysis can end.
  `ViewsAnswered`, `ShutdownEnds`: nobody waits for ever for a slot, for an analysis in flight or for
  the locale. `NoDuplicateAnalysis`: that waiting has the effect it is there for.
* `StackRight`, `AcquiredZeroed`, `CacheBounded`: the links in the free pages form one stack although a
  thread reads them in pages that are no longer free; a page is zero when it is given out; the cap
  is exceeded by less than the number of threads.
* `ReportsExact`, `WitnessesExact`, `PostDominatorsRight`: the iterative algorithms compute what
  their definitions by walks say, on graphs where the visiting order could matter.
  `LoopFreeNothingSkippable`: without loops no reported dereference can be skipped once the move has
  happened.
* `InflightExact`: at every step `_inflight` is the number of tasks that are somewhere on their
  way. This is what drain and shutdown rest on; every failure path has to keep it.
* `EveryTaskOnce`, `HandleAlive`, `NeverNeither`, `ContinuationAfterDep`: what happens to a task
  and to its handle when `then`, the completing worker, `wait` and a full queue meet.
* `DrainCompletes`: drain() on a thread outside the pool returns, and shutdown() stops the workers, only
  when nothing is on its way: no task is queued, runs, waits for another to finish, or is about to be
  pushed. A drain() on a worker reads two counters instead of one and does not keep its promise
  (`WorkerDrainCompletes`, run threadpool_late_drainer).
* `EveryCallReturns`: no lost wake-up, no leaked reservation, no deadlock among draining workers.
* `ActiveInstalled`, `RunKeepsActiveOneByOne`, `HighestKeptOneByOne`, `NoReplayOneByOne`.
* `ImplementsFifo`, `CopiesApart`, `RefusalsRight`, `EverythingDelivered`: the two-thread ring is a
  FIFO of exactly the capacity asked for, although each side acts on an index that it loaded
  earlier.

**Bounds and why they are enough.** Two slots is the smallest ring on which the code is correct;
three items wrap it, fill it and make a sender of the next lap meet a reader of the last. Two
senders and two receivers give every pair of roles. The proofs cover the other sizes. For the pool,
queues of one place make "full" reachable; two workers suffice for a task that drains while another
runs; the three programs are chosen so that every action and failure path occurs (duplicate `then`,
a continuation dropped, nested submission, a call after shutdown, drain on one and on two workers,
two users). For the launcher, four commands of which two overlap contain
install-install-rollback-run in every order, with a crash anywhere. The SPSC ring of three slots
goes round once and two thirds with five items, so that each slot but one is reused; two values tell
an item from the one that was in its slot before. The proofs cover every other size. In the language
server three messages are what it takes for an edit, a view and a second view (or a save, a locale
change, a shutdown) to meet on two slots; the session starts with the document open so that none is
spent on that; two slots let two analyses run, and a cache of one makes every second view evict.
Documents interact only through slots, queue and the pending change, and with one document the
contention for those is strongest. In the data flow runs two branches in a row or nested are what
distinguishes merging from walks, and a move, a revival and a use are three events; the graph that
ends the program before code that cannot be reached any more is there because the proof found that
`LoopFreeNothingSkippable` has to speak of it. Again the proofs cover every graph and every log. The
four trees of the B-tree run have nothing to insert into, a full leaf that is the root, a full leaf
whose split fills the root, and both full, so that creation, growth and splits at both levels occur
while another insert and a lookup are on their way to the same leaf; fanout 3 is the least where a
split leaves both halves with a key. For the page pool four pages and three threads let a page leave
and come back (ABA) while a third thread watches; a tag modulo 4 is safe only under `NoWrap`, as in
the code; the proof covers every size.

**Deadlock checking** is off because the programs end: senders close, users finish, the bounds on
commands, messages and calls are reached, an analysis is done; a process that has faulted stops.
That nobody waits for ever is `StreamEnds`, `EveryCallReturns`, `EverythingDelivered`,
`ViewsAnswered`, `ShutdownEnds`, `CallsReturn`, `Terminates`.

**Fairness.** Weak fairness per thread: the operating system schedules a runnable thread.
Channel also assumes strong fairness of a receiver's decision to call `receive(out)`, for a receiver
that polls with try_receive would otherwise poll for ever. It does not assume that a spinning call
wins its CAS: someone's CAS succeeds, and the number of items is finite. In ThreadPool
the condition variable wakes up spuriously only finitely often. No fairness is assumed of the
mutex or of the semaphore beyond that of the threads. In SpscQueue each thread is weakly fair,
and both keep calling until the items are used up; without a caller on the other side a
blocked push rightly spins for ever. In LspServer every thread is weakly fair and the client need not
send anything; in particular it assumes that an analysis ends. In BTree a thread is weakly fair while
it is inside a call, and need not make one. The data flow analyses are one sequential
loop. PagePool and the launcher have no liveness property: in the pool a CAS can
lose again and again to other threads.

### What the code does otherwise than its comments say

Each is a run that ends in a violation, with the counterexample found by TLC.

* A dropped continuation that has itself a continuation leaves that one neither run nor dropped
  (`threadpool.cb:836,887`); its reservation is never returned, so drain waits for ever.
* drain() on a worker reads `_inflight` and then `_drainingWorkers` (`threadpool.cb:752-753`). In TLC's trace
  x drains and finds the queues empty; the other worker finishes a and queues its continuation b; x
  reads `_inflight`, which is 2 for x and b; y, submitted after that with a higher priority, overtakes b
  and drains too; x reads `_drainingWorkers`, which is 2 for x and y, and returns with b still queued.
  The comment says that it blocks "until every submitted task has finished executing" (`:727`) and that
  it completes when "all queues are empty" (`:731`). Read at one moment the counters would do
  (`DrainersSuffice`, section 5).
* `acquire()` reads the link of a page that another thread may have popped, released over the cap and
  unmapped (`page_pool.cb:82`, `:112`), although it is called thread-safe (`:69`).

### Further configurations

These are kept beside the runs, each with one property that TLC finds violated; run them with
`tlc -config <cfg> <module>`.

| configuration (module) | property | what it shows |
|---|---|---|
| MCChannelOneSlot.cfg (MCChannel) | `Bounded` | a channel initialised with capacity 1 loses items (`channel.cb:88`): with one slot `pos + 1` means both "holds item pos" and "free for pos + 1" |
| MCChannelRefusal.cfg (MCChannel) | `RefusedOnlyWhenFull` | try_push can be refused although the channel is not full (`channel.cb:127,143`), while a receiver still copies |
| MCThreadPoolTokens.cfg (MCThreadPool) | `IdleWorkersSleep` | tasks that help to drain leave tokens behind (`threadpool.cb:740`), and idle workers then spin over them |
| MCThreadPoolLateSubmit.cfg (MCThreadPool) | `ShutdownLosesNothing` | a submission that passed the stop check is accepted by a pool that has stopped (`threadpool.cb:461`) |
| MCLauncherInstallAndRun.cfg (MCLauncher) | `HighestKept` | run saves the state it loaded without the lock (`Launcher.cpp:746`) and can undo an install's record |
| MCLauncherTwoInstalls.cfg (MCLauncher) | `NoReplay` | install loads the state before it takes the lock (`Launcher.cpp:809`), so that of two concurrent installs the older release can win |
| MCLspServerSuperseded.cfg (MCLspServer) | `DroppedForNewerRevision` | a view raises the generation, so an analysis that would publish symbols is dropped for it (`LspServer.cpp:2078`), not for "a newer revision" as the comment above it says |
| MCNullDataflowLoops.cfg (MCNullDataflow) | `NothingSkippable` | a guard "necessarily suppresses the report", says `MoveDataflow.h:370-373`. In TLC's trace block 2, the header of a while loop, moves the pointer; block 3, the body, dereferences it and ends in a conditional break. The edge (2, 3) lets the dereference be skipped after the move, but through the next iteration, over (3, 2), it controls the move too: both blocks depend on {(2, 3), (3, 2)} and the dereference is reported (`:753`). No block ends the program here, so that every edge can be taken. Without loops the claim holds (`LoopFreeNothingSkippable`) |

## 5. Proofs

`QueueProofs.tla` has the theorems of both rings. Of the channel it proves, for any finite set of
senders, any receivers, any capacity and any programs (`ChannelAssumption`):

* `TypeCorrect`: `Spec => []TypeOK`.

and with at least two slots (which `MCChannelOneSlot.cfg` shows to be necessary):

* `RingCorrect`: `Spec => []RingInv`;
* `SlotsNeverShared`: `Spec => []SlotExclusive`;
* `RingBounded`: `Spec => []Bounded`;
* `RefusalsAreHonest`: `Spec => RefusalIsHonest`.

The inductive invariant is `RingInv` with `TypeOK`. `SlotExclusive` alone is not inductive: that a
CAS gives exclusive use of the slot follows only from what the sequence number says about
it. `WritersOwn` and `ReadersOwn` state this for the threads inside a slot; `ClaimedOnce` says
that a position is claimed by one thread; `ProbeHolds` says that what a thread probed still holds
if its CAS is going to succeed, although other threads have moved in between; `Laps` says it for the
slots that no thread is in; `Bounded` keeps the positions in use within one lap, and there equal
slots mean equal positions, which is arithmetic of `%` (the first lemmas: two numbers less than
`Cap` apart that are congruent are equal, a slot after a lap is the same slot, and so on).
The proof has one step per action and below it one per conjunct. TLC checks the invariant in
the run `channel`. The assumption `Cap >= 2` enters through one fact, that neighbouring
positions lie in different slots: publication sets a slot to `pos + 1`, which must not look free
to position `pos + 1`, and likewise when a slot is handed to the next lap.

The content of the stream, with at least two slots too:

* `StreamCorrect`: `Spec => []StreamInv`;
* `EndIsTheEnd`: `Spec => []EndMeansDrained`;
* `RefinesTicketQueue`: `Spec => ImplementsTicketQueue`, the whole safety part of the contract.

`StreamInv` adds to `RingInv` what is in the slots and who is still there: a ticket that is claimed
and not yet published is in the hands of one sender (`Claimed`), and what that sender is about to
publish is its own next item (`Written`); the producer count is the number of senders that have not
closed (`Counted`), and the channel is closed only when all have (`ClosedLast`); a receiver that looks
again, or was told the end, saw the flag, and who was told the end has left nothing behind
(`EndSeen`). Each step of the channel is then a step of the ticket queue (the CAS on head takes a
ticket, the release store makes it ready, the CAS on tail receives, close_producer finishes) or leaves
its variables alone.

Of the SPSC queue `QueueProofs.tla` proves, for every capacity (0 included, where every push is
refused), every set of items and any number of them:

* `SpscTypeCorrect`: `SpscSpec => []SpscTypeOK`;
* `QueueCorrect`: `SpscSpec => []QueueInv`;
* `CopiesNeverMeet`: `SpscSpec => []CopiesApart`;
* `RefusalsAreRight`: `SpscSpec => RefusalsRight`;
* `RefinesFifo`: `SpscSpec => ImplementsFifo`, the whole safety part of the contract.

The inductive invariant is `QueueInv` with `SpscTypeOK`: the indices are the counts of what was sent
and received modulo the ring (`IndicesCount`), at most `Capacity` items are under way
(`CountsBounded`), the slots from tail to head hold them in order (`SlotsHoldItems`), and what a
thread has checked stays true until its call is over, because the other side can only make more
room or more items (`ProducerHasRoom`, `ConsumerHasItem`). Two positions less than a ring apart
have different slots (`ApartWithinLap`), which makes full differ from empty
and keeps the copies apart.

`PagePoolProofs.tla` proves, for any finite sets of pages and threads, any cap and any tag of at least
one bit (`SizeAssumption`, `PageAssumption`, `ThreadAssumption`):

* `PoolCorrect`: `Spec => []PoolInv`;
* `StackIsRight`: `Spec => []StackRight`;
* `AcquiredIsZeroed`: `Spec => []AcquiredZeroed`;
* `CacheIsBounded`: `Spec => []CacheBounded`.

The inductive invariant `PoolInv` is `TypeOK` with five parts. `Held`: the page a thread works on is
its own. `Fresh`: if the top word still is what a thread loaded, then the link it read is the link
of the head - this is what the tag is for, and the CAS relies on it. `Blank`: free pages and pages
on their way in are zero. `Linked` and `Reached`: links lead from free page to free page, at most
one to each, none back to the head; and every set of pages that contains the head and is closed
under links contains the pool, which says without recursion that the chain is the pool. `Fresh` is
kept since every pop and push raises the tag and `NoWrap` excludes that it comes round to a word
somebody holds (`NextTag`, `HeadMoves`). That assumption is part of the specification because the
code makes it (`page_pool.cb:35`); without it the theorem is false for every width. `StackEffect`
reduces the fifteen actions to three effects on the stack. For the cap `CountInv` says that the
count differs from the size by the pushes and pops that are not counted yet, and that the pages on
the stack and the threads that have passed the check together stay within the bound; a thread that
passes is itself not one of those whose push is uncounted, which gives the minus one.

`ThreadPoolProofs.tla` proves, for any users, any finite set of workers, any tasks, priorities and
programs that submit each task once, and any queue capacity (`ThreadPoolAssumption`,
`OneSubmissionEach`):

* `PoolRight`: `Spec => []PoolInvariant`;
* `TypeCorrect`: `Spec => []TypeOK`;
* `CountIsExact`: `Spec => [](up => InflightExact)`;
* `EachTaskOnce`: no task runs twice, and `Spec => [](up => EveryTaskOnce)`;
* `ContinuationsFollow`: `Spec => []ContinuationAfterDep`;
* `DrainsComplete`: `Spec => DrainCompletes`;
* `DrainersSuffice`: `Spec => [](inflight <= draining => Outstanding = DrainingTasks)`. The condition on
  which drain() on a worker ends is right of the two counters at one moment, for any number of
  workers; what makes `WorkerDrainCompletes` fail is only that they are read at two;
* `HandlesOutlive` and `HandshakeAgrees`: `Spec => [](NoneDropped => HandleAlive)`, and the same of
  `NeverNeither`;
* `NothingDropped`: with no more tasks than a queue holds (65536 in the code), nothing is dropped.

`up` is the time until a shutdown has deleted the queues: a task that was submitted past the stop
check (`MCThreadPoolLateSubmit.cfg`) is deleted with them, and its reservation stays. The inductive
invariant speaks of each task, not of the set of them. `OnePlace`: a task is with its submitter, in a
queue, on the handle it waits for, with the worker that fires it, or on a stack, and in one of these
only; `RunsRight`: it has been run exactly if it got to a stack; `Fresh`: while the call that submits
it is still to come, it is nowhere (this is where nested submission enters: the call may belong to a
task that has not run yet); `NotLost` and `Follows` are the two properties in inductive form; and
`HandleKept` says that a task on its way has its handle unless it is detached, without which a
completing worker could fail to publish. `StacksRight` says who can be on which stack and at which
step, `CallRight` what a thread holds at each step of a call. `_inflight` is then the cardinality of
`Outstanding` because every step changes the membership of one task at most. That is the shape of the
proof: a step of thread t concerns one task (`Concerns`), all others are spared, with what their
threads hold (`Quiet`), so that `TaskRight` is carried over for them once (`Spares`) and the counts
follow (`Counts`); what is left for each of the 31 actions is where its own task goes
(`Preserved`, `TaskTo`). `LevelsRight` keeps the number of a pop within the three queues.

The handles have an invariant on top of that one, `HandlesInv`: the mutex is held where the code holds
it, so that no continuation can be registered between `TakeContinuation` and `PublishDone`; a task
whose handle reports that it ran has been run, has no continuation left, and is on a stack only as
the topmost frame, at a step after the publication. `NoneDropped` is needed: once a continuation is
dropped for a full queue, the two properties are false (`MCThreadPoolLongChain.cfg`). It holds as long
as no handle reports a drop, and, by `NeverFull` (the queued tasks are distinct, and the one being
pushed is not among them), whenever there are no more tasks than a queue holds (`FitsQueues`).

`LauncherProofs.tla` proves, for any releases, commands, processes and bounds
(`LauncherAssumption`):

* `LauncherInvariant`, the inductive invariant, and `TypeCorrect`: `Spec => []TypeOK`;
* `NamedSlotsAreInstalled`: `Spec => []ActiveInstalled`;
* `HighestIsKept`: `Spec => HighestKeptOneByOne`;
* `NoReplays`: `Spec => NoReplayOneByOne`;
* `RunKeepsActive`: `Spec => RunKeepsActiveOneByOne`.

A part of the invariant holds whatever overlaps and wherever a process is killed: what the files name
is there (`FilesThere`), what a process has loaded and is going to write is there too (`ProcThere`,
`CommandRight`), and an install activates the slot it has put in place (`InstallRight`); slots are
never removed. The other part holds as long as no two commands have overlapped: at most one process
is busy (`OneByOne`), what it loaded is what the disk said (`UpToDate`), a temporary file that is
about to be renamed is its own (`RenamesOwn`), what was accepted is recorded or about to be
(`AcceptedKnown`), and run changes the active release only to repair (`RunRight`). The properties
about sequences are proved of that part only because they are false beyond it
(`MCLauncherInstallAndRun.cfg`, `MCLauncherTwoInstalls.cfg`).

`LspServerProofs.tla` proves, for any documents, open or not, texts, requests, workers, backend slots
and cache size (`LspAssumption`):

* `SessionInvariant`, the inductive invariant, and `TypeCorrect`: `Spec => []TypeOK`;
* `SlotsAreConserved`: `Spec => []SlotsConserved`;
* `AnswersAreRight`: `Spec => []AnswersRight`;
* `NewestIsNeverLost`: `Spec => []NewestNeverLost`;
* `NoDuplicates`: `Spec => []NoDuplicateAnalysis`;
* `RequestsAreKept`: a view request without a response has a job on its way.

The invariant is `TypeOK` with: a slot is free, reserved for the change of locale or with one worker,
and exactly the analyses that run are announced (`SlotsApart`); what the record says of a slot, what is
about to be printed and what is in the cache is true, and keys in the cache are distinct, which the
model's `Inserted` takes for granted (`Backed`); a request is carried by one job at most, queued, held
by a worker or still being enqueued, with what was asked for (`OwedOnce`, `AnswersRight`); no job is
newer than the generation of its document (`GenerationsRight`), so the newest is never taken for
superseded (`NewestNeverLost`); and no two workers analyse the same text for views
(`NoDuplicateAnalysis`). `RequestsAreKept` has an invariant of its own on top, that a request without
a response is carried by a job.

`BTreeInvariant.tla` and `BTreeProofs.tla` prove, for any fanout of at least two, any set of integer
keys, finitely many threads with any requests and any number of calls, and any well-formed tree to
begin with (`FanoutAssumption`, `KeysAssumption`, `ThreadsAssumption`, `RequestsAssumption`,
`TreesAssumption`):

* `InvHolds`: `Spec => []Inv`, the inductive invariant, and `TypeHolds`: `Spec => []TypeOK`;
* `AnswersHold`: `Spec => []AnswersRight`;
* `RoomHolds`: `Spec => []RoomForSplit`;
* `LocksExclude`: no two threads hold one lock, and a node is locked just while a thread holds it;
* `StoredHolds`: when no lock is held, the leaves hold every accepted entry in exactly one slot;
* `TreeHolds`: `Spec => []TreeRight`.

`Inv` says that there are two sequences which no variable holds: the span of each node and its level.
`Spans` says how they fit together: the root is responsible for all keys, and the nodes of one level
have no key in common. By `Contents` a node that nobody is writing holds what it is responsible for;
this also refers to the children's spans, so a split has to replace the spans of the two halves before
the parent has its separator, and for that time the parent is excepted (`Busy`) and its writer answers
for it. The rest is what each thread knows (`Own`). `SeesTree` and `SeesNode`: a reader's locals may be
anything, but if the version it took still stands, then the node it stands at is on the path of its
key, and what it has read of that node is so; this is what the order of snapshot and validation in
the code is for. `WritesLeaf`: in the middle of a shift the leaf is a correct leaf once the open slot is
left out (`Without`), and with the entry of this thread added when the slot is stored. `Descends` and
`Opens`: the locks held from the tree down, and the inner node as it will be when the separator
and the new child are in (`KeysAfter`, `KidsAfter`). `HasRoom`: the half that the thread goes on to after
a split has room, which stays so although it is not locked then, for nobody has a snapshot of it that
can still be validated, and everybody else would have to pass the locked parent; `RoomForSplit` needs
it. Without the spans none of these is inductive: that a leaf is the right one for a key follows only
from the path that led to it.

The proof does not compare every action with every other thread's knowledge. A step of thread t is
summarised by how it may change locks (`LockStep`) and by what it leaves alone (`Frame`: a node it
does not hold changes only by being locked, a node it takes is one it had a valid snapshot of, the
root, or one below a node it passed). From that summary everything other threads know is carried over
once (`StableTree` .. `StableCalls`, `Compose`), and each of the 37 actions has to establish the frame
and its own thread's part. `LinksOK` (the leaf after a leaf is responsible for the keys directly above)
is kept by every step, with the spans of a split divided at the separator (`SplitLinks`). `TreeRight`
then follows in states where nobody holds a lock: a descent loses a level at each step and so comes to
a leaf (`GoesDown`, `LeafOfKey`), the links lead from the leftmost leaf through all keys, and no
leaf can come twice, since their spans ascend (`ChainWhole`); their contents in a row are then the
entries in order (`ChainListed`). The recursive functions in `TreeRight` are over an interval of
numbers, for which the induction is done by a least counterexample (`Climb`, `Steps`).

`DataflowProofs.tla` proves, for every graph whose entry has no predecessor (`GraphsAssumption`; LLVM
forbids branches to the entry block), every log of events and every set of blocks that end the program:

* `MoveInvHolds`: `Spec => []MoveInv`, the inductive invariant of the move analysis;
* `ReportsRight`: `Spec => []ReportsExact`;
* `NullInvHolds`: `NullSpec => []NullInv`, that of the null analysis;
* `PostDominatorsHold`: `NullSpec => []PostDominatorsRight`;
* `WitnessesRight`: `NullSpec => []WitnessesExact`;
* `ReportsUnskippable`: `NullSpec => []LoopFreeNothingSkippable`.

The properties speak of walks of any length, by a recursive function over an interval
(`ReachableFrom`). The proofs use only that its value contains the start and is closed under the
edges (`ReachClosed`, which takes the argument that as many rounds as there are edges suffice) and is
contained in every set that is so (`ReachLeast`); that such a recursive function exists, and what holds
of all its values, is shown by a least counterexample (`LeastNumber`, `UpTo`, `Recursion`).

Both invariants begin with the depth-first search (`SearchInv`): a frame is on the stack once, a
block that has been left has only visited successors, and every block but the entry was entered from
one that is still on the stack or left later. The order is therefore complete and closed under
successors, and every block but the entry has a predecessor before it (`Ordered`). From this follows
that every block is reached by a walk, in the acyclic pass of the move analysis by one without
retreating edges.

What the sweeps compute is compared with the walks in two directions. What a block has at its end
comes from a walk (`FromWalks`, `NullFromWalks`), at any moment of the sweeps. When the sweeps stop,
each block agrees with its predecessors (`Solved`, `NullSolved`; during a sweep this holds of the
blocks that are not dirty, or that were visited since the last change, `SweepInv`, `NullSweepInv`),
so the configurations that agree with the result are closed under the steps of walks and contain
them all (`WalksInside`, `NullWalksInside`). The two meet because merging loses nothing: the events
of a block move a key, revive it or leave it alone, whatever the other keys are (`Fates`,
`NullFates`), so a key comes out of a merge just if it comes out of one of the states that went in.
The exemption `!x.f`, which comes and goes and survives a merge only if nothing that went in has the
field moved, has no part in this: what a use asks about is decided by the keys that are united
(`PathKeys`, `MergedKeys`).

The post-dominators start from above: a block without an entry stands for all blocks. `PdSound` says
that what an entry leaves out can be avoided, at every moment; `PdSwept` that a sweep that has
changed nothing leaves the blocks behind it stable; and at the end (`PdEnds`) every block has an
entry, since every block reaches one of the `Seeds`, and the blocks whose entry leaves out x contain
all those that can avoid x, since they are closed backwards. For `ReportsUnskippable` follow the way
from the move to the dereference: if the dereference can be skipped, it does not post-dominate the
move, and where on the way it begins to, there is a branch edge that guards it (`BranchBetween`).
Without loops that edge cannot guard the move: a block's post-dominators do not lie before it and
the branches it depends on do not lie behind it (`LoopFreePd`, `LoopFreeClosure`). With loops it
can; `MCNullDataflowLoops.cfg` shows it. The proof also showed that an earlier form
of the property was false and the bounds of the run hid it: it did not ask that the program can go
on from the move to the dereference. After a block that ends the program there can be code in the
graph that is never executed, where a report is possible and harmless. `Skippable` therefore asks for
a way from the move to the dereference, and, if both are in one block and the dereference comes first,
for one that leaves the block and comes round to it (`ReachOnward`).

**What stays with TLC.** Out of the prover's reach: liveness under fairness (`StreamEnds`,
`EveryCallReturns`, `EverythingDelivered`, `ViewsAnswered`, `ShutdownEnds`, `CallsReturn`,
`Terminates`) and ENABLED. Not provable in general, because only the instance of the run
avoids a finding: `NeverNeither` once a task has been dropped (a chain of three with a full queue
violates it), `HandleAlive` of a dropped task (whose handle can be deleted while a continuation stays
registered on it, which is the same finding). False, as the run threadpool_late_drainer shows:
`WorkerDrainCompletes`.

## 6. What is not modelled

Sequential library code, the compiler front end and code generation (nearly all of the repository's
lines), and the wrappers around platform libraries have no protocol whose interleavings a model
checker explores; they are listed with their reasons in `PROJECT.json`. Weak memory is not modelled:
where the code relies on x86 or on fences (the fence in `olock.read_validate`), the models assume
sequential consistency. Time-outs (`wait_for`) only return earlier and change nothing. Within the
modelled parts: `resize` and restart of ThreadPool, `operator>>` of a channel, the loss of the
launcher's state file, the language server's published diagnostics (an older analysis can publish
after a newer one) and symbol queries, the single-threaded interface of the B-tree and
`olock.obsolete()`, and page_arena. The components marked "planned" are the subject of section 2.
