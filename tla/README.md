# MCTOP in TLA+

MCTOP infers the topology of a multi-core machine from measurements, and
places threads, memory and work by it. This directory models the parts of it
whose correctness depends on the order in which threads act, or on index
arithmetic that tests hardly reach, checks the models with TLC, and proves
with TLAPS, for every value of the constants, nearly all of their safety
properties that do not rest on a fold over data.

`PROJECT.json` lists the components, the runs, the code lines each definition
stands for, the hazards of the code with the properties that watch them, and
the theorems. Paths below are relative to the root of the repository.

## 1. The system

| component | code | state | operations | what is hard | what makes it correct |
|---|---|---|---|---|---|
| measurement of latencies | `src/mctop.c` (`crawl`, `is_smt`), `src/barrier.c` | two threads; a word per barrier; the cache line and each thread's copy of its address; a retry flag; the latency table; each thread's loop counters | set up a row, warm up, measure a pair, judge, repeat, next; spin alone, spin together | the two threads only meet at barriers that are used again and again; a flag that both read and both reset; a line that is replaced | what is timed is the transfer between the two contexts of the pair; the threads never work on different pairs; the table is complete and symmetric; nobody spins for ever |
| measurement of memory | `src/mctop.c` (`mem_bandwidth`, `mctop_mem_latencies_calc`), `src/mctop_mem.c` | a counter the threads spin on, result arrays and tables | per socket and node: one thread alone, all together, add up | a counter that one thread sets back while the others are on their way to the next round | every entry of a table is of its own round, the sum of all threads |
| driver | `src/mctop.c` (`main`, the `print_` functions), `src/mctop_load.c` | options, the latency table, the topology, the description file | stages one after the other, each appends to the file; `--augment`: load the file, add what is missing | a process that dies between two stages; a stage that trusts what the file says | what is loaded is what was measured; augmenting ends with a complete file and topology |
| caches, power, profiler | `src/mctop_cache.c`, `src/mctop_power.c`, `src/mctop_profiler.c`, `src/helper.c` | statistics | measure | timing and floating point | – |
| clustering | `src/cdf.c` | points, sensitivity, clusters | cluster; with a number asked for: again with another sensitivity | the search may swing; the value 0 of the diagonal; the first cluster reaches down to 0 | every value is in one cluster, medians are measured values in order; the search ends |
| topology: construction | `src/mctop_topology.c` | contexts, cores, groups, sockets, siblings; parents, children, lists, lists of siblings | group from the latency table, level by level; fix the links; add memory latencies and bandwidths; free | greedy grouping in the order of the numbers; links set by climbing; the order of two contexts of one core | the groups of every level are the blocks of the machine; children, parents and lists agree; all is freed once |
| topology: queries | `src/mctop_control.c` | – | latency of two ids, socket, core, positions, the n-th of a list, siblings, nodes | they walk links set up elsewhere | the latency is that of the table; a position and the element at it are inverse to each other |
| allocators: policies | `src/mctop_alloc.c` | an ordered list of contexts, the sockets used, numbers of contexts and cores per socket | one constructor per policy | passes over sockets with limits, SMT first or last, comparisons of bandwidth | contexts are distinct, as many as promised, of the best sockets; cores first where the policy says so |
| allocators: pinning | `src/mctop_alloc.c` | `hwcs_used` per slot, the counter `n_hwcs_used`, thread-local information | pin by counter, by search, by number; unpin | no lock; slot and counter change in two steps, both ways | one thread per slot; no slot lost; a search fails only on a full allocator |
| allocators: pool | `src/mctop_alloc.c` | a table of allocators, the current one | set the current allocator; pin to it, moving if it has changed | the change races with the pin | the slot given back is the one the thread has |
| work queue | `src/mctop_wq.c` | per socket a linked list with a dummy node, its size and a spin lock; `next_q`; counters of threads that entered and left | enqueue to a queue; dequeue from the local one and then from the others; count; enter, leave, am I last | reads outside the lock; memory that is freed outside it; visits without a common lock | a FIFO per queue; nothing lost, doubled or used after it is freed; NULL means empty if nobody enqueues |
| node tree | `src/mctop_node_tree.c` | levels of pairs of nodes, helpers, barriers, offsets | build; who does what at a level; wait | sizes computed in one place and used in another; sockets left over | the waiting threads are those the barrier counts; offsets number the participants; everyone leaves |
| sort on the work queue | `tests/work_queue_sort1.c` | blocks in queues and hands | dequeue, sort or merge, enqueue | workers leave on a NULL that may be premature | the output is all of the input, sorted |
| merge sort on the node tree | `tests/merge_sort`, `include/mctop_sort.h` | two buffers per node, the result | sort locally, merge level by level, swap buffers | barriers between levels; a leader that swaps while others are at the next level | nobody reads a buffer that is not finished; all data arrives |
| growing arrays | `src/darray.c` | elements, size | add, push, remove, pop, sort, copy | growth at the limit | a sequence |
| graphs, platform | `src/mct_load.c`, `src/mctop_graph.c`, `src/mct_numactl_print.c`, `src/mctop_aux.c`, `src/numa_sparc.c` | – | output, affinity calls | – | – |

How they interact: the measurement tool writes a latency table; clustering and
the construction turn it into a topology; an allocator orders contexts of a
topology by a policy; threads pin themselves to the slots of an allocator, and
what pinning leaves in thread-local storage (the number of the node) selects
the local queue of a work queue and the role of a thread in a node tree. The
work queue calls the allocator for memory on a node and the topology for
latencies between sockets. Threads share memory only; there are no messages
and no callbacks, and no operation times out. The one thing that outlives a
process is the description file.

## 2. The modules

| module | models | abstracts |
|---|---|---|
| `Fifo` | what one queue promises: a put and a take are each one step between call and return, a take gives the oldest item, or NULL when the queue is empty | |
| `NodeQueue` | `mctop_queue_enqueue`, `mctop_queue_dequeue`, access by access | the content of items |
| `WorkBag` | what the work queue promises: puts, takes and counts are single steps, a dequeue visits queues in order | locks |
| `WorkQueue` | the operations of `mctop_wq_t` on all queues | what happens under one lock is one step |
| `WorkSort` | the workers of `tests/work_queue_sort1.c` over `WorkBag`, with `mctop_wq_thread_enter`, `_exit`, `_is_last_thread` | a block is the set of the chunks merged in it and whether it is sorted |
| `StealOrder` | `mctop_sort_uint_index` and the construction of `next_q` | |
| `AllocPin` | pinning, unpinning and the pool | affinity calls; the fields of the thread information that no decision reads |
| `Crawl` | `crawl`, `is_smt`, `barrier2_t` | what is measured is any value of a small set |
| `MemBandwidth` | `mem_bandwidth`, `mini_barrier` | what is measured is the round, and whether all threads were at it |
| `Measure` | which of the two `main` starts: `Crawl`, or `MemBandwidth` in a run with `--augment` | |
| `Darray` | `src/darray.c`, as operators on sequences | the capacity |
| `Clustering` | `cdf_calc`, one pass of `cdf_cluster`, medians, normalisation, `mctop_infer_clustering` | percentiles |
| `Topology` | `mctop_construct` with all it calls, what memory measurements add, `mctop_free`, the queries that walk links | records of caches and power |
| `Mctop` | `main` after the latencies are measured, the search of `cdf_cluster`, the description file, `mctop_load`, a kill between two stages | the text of the file: a section is its kind and its table |
| `Machines` | machines for TLC: shape, numbering of the contexts, scatter of the latencies | |
| `AllocPolicy` | `mctop_alloc_create_config` and the policies; what a pinned thread is told of its place | floating point: bandwidths are integers, the factor 1.05 a comparison of products; proportions and power estimates |
| `AllocPool` | the tables of the pool | |
| `NodeTree` | `src/mctop_node_tree.c` and `mctop_sort_merge_cross_socket` run by every thread of an allocator | a buffer is the set of shares written; the merge within a socket is done |
| `Placement` | composes `AllocPool` and `NodeTree` over the same policies | |
| `MC…` | values of the constants for TLC | |
| `…_proofs` | theorems about `StealOrder`, `WorkQueue`, `NodeQueue`, `WorkSort`, `AllocPin`, `Measure` (with `Crawl` and `MemBandwidth`), `Mctop` (with `Clustering`) and `Placement` (with `AllocPool` and `NodeTree`) | |

### How state and actions correspond to the code

*Steps.* A step is one access to shared memory with the local computation
around it. `pc[t]` names the next access of thread `t`. `NodeQueue` takes this
to the letter. `WorkQueue` makes the accesses under one lock one step: the
lock keeps the others out, and the only accesses outside it (the look at
`qu->size`, the `free`) are steps of their own or concern memory that
`NodeQueue` shows to be private by then. The models are sequentially
consistent; the code is for x86, where the compare-and-swap orders what comes
before the critical section and stores are not reordered with the store that
unlocks.

*NodeQueue.* `next` and `data` are the fields of every node and `live` the
nodes that `malloc` has returned and nobody has freed: `malloc` picks any other
one, so that the address of a freed node comes back. Fields that were never
written hold `Garbage`, and so does what a read through a bad pointer finds.
`chain` is history, the list as it ought to be. The critical sections are cut at every store: `EnqLink`, `EnqTail`,
`EnqSize`, `DeqRead`, `DeqHead`, `DeqSize`.

*WorkQueue.* `todo[t]` is what is left of the loop over `next_q`; `NextVisit`
is its increment and test. `CallEnqueue` takes any queue, for
`mctop_wq_enqueue_node` looks one up by the node of a socket; what that look-up
gives is a property of `Placement`, `NodeFindsSocket`, and the calls in which
it gives a number no queue has are left out here (section 6). `hand[t]` is not in the code: it is the client's
side, the items the thread owns and may enqueue. `quiet[t]` is history for one
property and no guard reads it. The two loops of
`mctop_wq_get_size_atomic` are `SizeLock` and `SizeUnlock`.

*AllocPin.* `mctop_alloc_pin_plus` and `_pin_simple` share their loop, the
operation `search`: `Test` (the counter), `Scan` (the slot), `Cas`, `Count`,
`Settle`. Releases are `Drop` (the counter) and `Clear` (the slot, and the
thread's own mark), in the order of the code. `include/mctop_alloc.h` asks one
thing of a client: `mctop_alloc_pin` is not called while a thread that has
unpinned leaves others pinned. `emptying` is the client's knowledge of that, no
variable of the code. The rest is the caution of the client of this module,
which nothing in the repository states: no more threads pin by the counter than
there are slots (`CallPin`), for the code takes the counter as a slot without a
bound; `mctop_alloc_pin_on` is called with a number of the thread's own; and a
thread that is pinned moves to another allocator by unpinning or by the pool,
with `mctop_alloc_pin_plus` to its own allocator only and with
`mctop_alloc_pin_simple` not at all, although the header speaks of repinning at
the first and of "pin plus" at the second. `MCAllocRepin` has a client that
takes the header at its word, and section 6 what comes of it.

*Crawl.* `bar` has the words of `val` and `eval`; `Arrive` is the atomic
decrement or increment, `Pass` the spinning read that sees 0. `pthread_barrier_wait`
is external: both threads pass together. The medians and deviations are chosen
from small sets, every time anew. `cache_line` keeps its value when the line
is replaced for a repetition, as in the code.

*Topology* is a record: `gs` maps an id, the pair of level and number of
`mctop_create_id`, to one record for contexts, groups and sockets, which share
their first fields in the code too; a pointer is an id. A dereference of NULL
is the status `crash`, a failed assertion `abort`, the warning about missing
sockets `incorrect`; the process goes no further. A construction is a function
of its input, done by one thread, so it is an operator; the process around it,
`Mctop`, has one action per stage, and `pc` is the stage. `points`, `sens`,
`dir` and `cc` are the variables of `cdf_cluster`, whose loop is the action
`Cluster`, one step per pass. `file` is what has been appended so far; `Kill`
keeps nothing else; `Augment` starts the next run. The whole of `main` is
modelled from the end of `crawl` on; the latencies it has then are those of
`machine`.

*AllocPolicy* takes topologies that `mctop_construct` makes: the constant
`Topologies` is computed by `Topology` in the MC module. A socket is its
number. `TopologiesAssumption` is what the policies take for granted of a
topology, and TLC evaluates it on those of the runs: bandwidths are known; the
sockets have equally many contexts, for `mctop_alloc_prep_min_lat` reads the
number of the first socket for all; `n_cores` counts the cores of a socket,
which leaves out machines with groups of cores (section 6); every context
is in one socket and, with SMT, one core, at one place (`ContextsAreApart`),
and one context alone has some bandwidth, by which the code divides; every other
socket is a sibling once; and the two orders of the siblings, by bandwidth to
them and from them, agree in the latencies, for the policy visits sockets in
one and reads `max_latency` from the other. `RunsOut` names the calls of the round-robin policies whose behaviour
is undefined (section 6); they are left out of the inputs, of those of the
node tree by `ClientsAssumption`.

*NodeTree.* `pc` and `lvl` are the places of the threads in the loop over the
levels; `at` has the threads that wait at each `pthread` barrier, the last to
come lets them go. `node_data` has the two buffers of each node, of which a
share is `[id, of, nodes]`: which one of how many, and the nodes whose data
went in. A buffer is `Whole` when all shares of one merge are in it. The
number of a thread in its node follows the build of the sort with cores only
(`MCTOP_SORT_USE_SSE`) for `CORE`, and the plain one otherwise.

*MemBandwidth.* `mini_barrier` is two steps, the atomic increment and the read
that sees `n`; `SetBack` and `AddUp` are apart because the other threads run on.

*WorkSort* uses the actions of `WorkBag` for the queue, which `WorkQueue`
implements, so that the run has none of the locks and can afford three
threads, two queues and three chunks, in every initial distribution.
`MCWorkSort` puts `StealOrder` in front of it, as `main` creates the work queue
before it starts the threads. The lists made for five queues and the two
queues of the sort are apart: only one vector of latencies leads on to the
sort, which would do the same after every other.

## 3. The runs

| run | constants | states | shows |
|---|---|---|---|
| `MCNodeQueue` | 3 threads, 2 items, 4 nodes | 57 203 | the list is a chain from head to tail that ends in NULL, with `size` items behind the dummy; nobody reaches a freed node; every node is in the chain, being linked or being freed; the queue implements `Fifo` |
| `MCWorkQueue` | 3 threads, 2 queues, 2 items | 513 725 | an item is in one place and never lost, the count is of one moment, a NULL is the truth when nobody has enqueued since the call, the queues implement `WorkBag` |
| `MCWorkQueueCalls` | 3 threads, 2 queues, 1 item, 2 calls per thread | 297 000 | every call returns |
| `MCWorkSort` | 5 queues with latencies up to 3 for the lists of victims; 3 threads, 2 queues, 3 chunks for the sort | 193 731 | the list of victims is right for every latency vector; the result is complete; work is never stranded; one thread is last; the last thread finishes |
| `MCAllocPin` | 3 threads, 3 allocators of 2 slots, counter modulo 16 | 1 609 258 | slots are exclusive, marks and counter agree with the threads, and a search fails only on a full allocator |
| `MCCrawl` (`Measure`) | 3 contexts, 3 repetitions, 1 warm-up, 2 barrier words; bandwidth: 3 threads, 3 rounds | 682 208 | what is timed is the transfer between the pair; the threads stay on the same pair; the table is complete; the spin loop that is to run alone does; the measurement never gets stuck; a measurement of bandwidth ends and all its entries are of their round |
| `MCMctop` | 28 machines of 4 to 16 contexts and 1 to 4 sockets, 19 settings, 1 kill, 2 runs with `--augment` | 25 041 | clusters are sound and the search for them ends; the topology is the machine; latency queries agree with the table; positions are bijective; siblings are ranked; all is freed once; augmenting completes what a killed run left |
| `MCPlacement` | topologies of 2, 3, 4, 6 and 8 sockets; tables of 2 entries, 3 changes of the allocator; 43 clients of a tree with up to 8 threads | 220 880 | the pool gives what was asked for, unless a table is full without it; placements have the contexts promised, once each, of the best sockets; barriers are for those who come; merged data is whole; everyone leaves |
| `MCAllocRepin` | 2 threads, 2 allocators of 2 slots, repinned with `pin_plus` or `pin_simple` | – | fails: see section 6 |
| `MCAllocPinId` | as `MCAllocPin` | – | fails: see section 6 |
| `MCPlacementFull` | as `MCPlacement` | – | fails: see section 6 |
| `MCPlacementNode` | as `MCPlacement` | – | fails: see section 6 |

`MCMctop` and `MCPlacement` switch the check for deadlock off: the process
ends, and so do the threads of a tree (that all of them do is the property
`EveryoneLeaves`). In the other runs queues always have a next call,
and those that end (`MCWorkSort`, `MCWorkQueueCalls`, `Measure`)
have a step that says so, which stutters.

### Why the bounds are enough to be interesting

* Three threads: one holds a lock, one waits for it, and one is between
  its look at the size and its attempt to lock. A dequeue that finds the queue
  emptied after its look needs two dequeues and the enqueue of an item.
* Four nodes and two items: the dummy, two items and one node that is being
  freed or was handed out again, so that the address of a freed node comes
  back while a thread may still have it in a local variable.
* Two queues: a visit order with a local and a remote queue, a lock order
  between two locks, an item that moves from a queue still to be visited to one
  already visited.
* Three chunks in two queues, three threads: two threads with one sorted block
  each, the third leaving early, and a last merge by a thread alone.
* Three threads on two slots: allocators that are full, that refuse, and whose
  last slot is contested; the third allocator is the one used by the counter.
* Five queues and four different latencies: ties, and inversions in every round.
* Two barrier words for repetitions 0 to 2: the index wraps, so a word is used
  again within a pair; three contexts: a second pair in a row, and a second row.
* The deviations 0 and 2 with a limit from 1 to 2: accepted at once, and
  accepted only after the limit has grown.
* Three threads and three rounds of bandwidth: two threads may be in the next
  round while thread 0 adds up, and thread 0 sets the counter back twice.
* Machines: with and without SMT, with and without a level between cores and
  socket, with two distances between sockets, a ring of cores (distances that
  do not nest); contexts numbered by core, by thread and round robin over the
  sockets, so that the groups are not intervals; latencies exact or scattered
  by up to 3, with sensitivities that split the levels (1), are right (4, 8),
  or merge the two lowest (11), and hints that are met, reached by search, or
  given up.
* One kill at any stage and two runs with `--augment`: the second one finds a
  file that the first has completed, and must add nothing.
* Topologies for placement: SMT with cores to fill twice, a ring of four
  sockets with unequal siblings, three and six sockets (no power of 2: nodes
  that help, and nodes without a role), eight (three levels).
* `MCTOP_ALLOC_POOL_MAX_N` is 8 in the code and 2 in the run: three changes
  fill a table and ask for more.

Symmetry is used for threads, items and the nodes but the first dummy in
`MCNodeQueue` and for items in `MCWorkQueue`; nothing else in the modules
tells them apart, and these runs have no liveness property. `MCWorkQueueCalls`, `MCWorkSort` and `MCCrawl` check liveness
without symmetry.

### Fairness

* `WorkQueue`: a thread inside a call takes another step if it continuously
  can (weak fairness of `Step(t)`). Threads are scheduled by the operating
  system and the code never blocks in it. Nothing more is assumed of the spin
  lock: it does not queue its waiters, so a thread may lose every
  compare-and-swap. `EveryCallReturns` is therefore only stated for a client
  that makes finitely many calls.
* `WorkSort`: weak fairness of each thread. That a thread is alone at the end
  is not guaranteed (section 6), so the property starts there.
* `Crawl`, `MemBandwidth`: weak fairness of each thread, and of the `pthread`
  barriers.
* `Mctop`: weak fairness of `Cluster` alone, the loop whose length is not
  known: a process that is not killed goes on.
* `Placement`: weak fairness of the threads of a tree together: while one can
  take a step, one does. Each has finitely many, and a thread that waits
  cannot step, so nothing stronger is needed.

## 4. The proofs

`StealOrder_proofs` proves, for any number of queues and all latencies, the
property of the run, `StealListIsRight`, and the invariants it rests on
(`StealTypeOK`, `IsPermutation`, `SortedSoFar`). The inductive invariant is the conjunction of the
types, of `IsPermutation` and of `SortedSoFar`: the finished places hold the
smallest latencies, in order, and the place being filled holds the smallest of
those it has been compared with. `StealListIsRight` then follows from
arithmetic modulo the number of queues (`AroundAndBack`, `BackAndAround`), from
the fact that an injection of a finite interval into itself is onto
(`PermutationIsOnto`) and from `SelfStaysClosest`: the comparison is strict, so
the queue itself, at index 0, which is closer than all others, is never
moved from the place the code skips.

`WorkQueue_proofs` proves all safety properties of `MCWorkQueue` and the
refinement of `WorkBag`, for any set of threads, any number of queues, any
items and any lists `NextQ` that name every queue:

* `TypeCorrect`: types, with what `pc` says of the length of `todo` and of `val`.
* `LocksExclude`: `MutualExclusion` is inductive with the types once it is
  stated both ways, a queue is locked exactly when one thread is at a place
  that holds it. `Holds` says for a counting thread which prefix of the queues
  it has (`SizeOrder`).
* `SizeAtomicity`: a queue the counting thread holds has the length it has
  added, since nobody else changes a locked queue (`QueueDiscipline`).
* `NullIsTrue`: needs two strengthenings. `QuietSoFar`: while no item was
  enqueued since a thread's call, the queues it has visited are empty, for
  dequeues only make queues shorter. `FoundEmpty`: the visit under way, when it
  found nothing, found the queue empty.
* `ItemsAreUnique`, `NothingIsLost`: every action moves an item from one place
  to another (`Moves`); a move keeps single what is single
  (`MovesKeepSingle`).
* `WorkQueueRefinesWorkBag`: each step maps to one of `WorkBag` or to a
  stutter; the mapping shows a count as taken when the last lock is held and
  takes the visits from `todo`.

The assumptions are those of the modules: at least one queue, `NULL` is no
item, each list of visits names every queue. The last is what `StealListIsRight` proves of
`next_q`.

`NodeQueue_proofs` proves every safety property of `MCNodeQueue` and the
refinement of `Fifo`, for any threads, items and nodes of memory. The
invariant relates the pointers to the history `chain`. Between lock and unlock
they differ by what the thread in between has written (`InFlight`), and
`MutualExclusion` says that only one thread is there. Outside the lock a
thread touches a node of its own only, which is what `MemorySafety` and
`NoLeak` say; neither of the three is inductive without the others, for a
`free` outside the lock would break the chain if the node were in it.
`ItemsInPlace` gives each node of the chain its item, which the refinement
reads as the queue of `Fifo` (`QueueImplementsFifo`): an enqueue and a dequeue
take effect when the size changes, a refusal at the look that finds size 0,
with the lock or without. The assumption is that `NULL` and garbage are no
nodes or items.

`WorkSort_proofs` proves the safety properties of `MCWorkSort` for any number
of threads, queues and chunks. One half says where blocks are: a step moves
blocks from one place to one other (`EachInOnePlace`, `BlocksApart`), so the
chunks are always a partition of the input. The other half says why the NULL
that ends a worker is not premature although others go on enqueueing
(`QueuesWatched`): for a queue that is not empty there is a thread that will
visit it before it leaves, since whoever enqueues visits all queues
afterwards, and a thread stops watching a queue by finding it empty only. When
the last thread finds nothing, nobody watches, so all queues are empty, and
the block it has is the whole input. The assumptions are finitely many threads
and chunks, at least one of each, and visits that name every queue.

`AllocPin_proofs` proves the four properties of `MCAllocPin` for any threads,
allocators and slots. The three ways to take a slot exclude each other for
different reasons: a search by the compare-and-swap, the counter because pins
and releases alternate (`CountsUp`), numbers of one's own because they differ
(`SeatsKept`). `Phases` says which calls a thread can be in where, so that one
way does not spoil another; `CounterIsSize` makes the counter the cardinality
of the threads that have counted themselves, whence `CounterAccounts`. The
assumptions are those on the client (section 2), and that there are fewer
threads than the counter has values.

`Measure_proofs` proves the safety properties of `Crawl` and, for the liveness
properties of `MCCrawl`, their safety halves. The two threads of a crawl meet
at barrier words, at `pthread` barriers and in `main`. The invariant assigns
to every place in the code the next meeting, and says that both threads are on
their way to the same one (`InStep`), and that a word that does not read 0 was
written by a thread that spins on it (`WordsInUse`). That is inductive because
two barriers in a row never share a word, for which two words are enough: the
assumption of `Crawl`, next to at least two contexts. `SamePair`,
`TimesTheTransfer` and `TableComplete` follow the meetings;
`BarriersDoNotBlock` says that the threads are never both stuck. The threads
of a bandwidth measurement meet at three barriers a round (`OnOneRound`), and
between two of them the counter of `mini_barrier` is the number of threads
that have passed it (`CounterCounts`). So a thread measures while all do
(`NobodyMeasuresEarly`), and thread 0, which sets the counter back and adds up
while the others run on, adds figures of one round (`EntriesAreOfTheirRound`).

`Mctop_proofs` is about the clustering and the description file, for any
latencies of any number of contexts. It holds the lemmas about `darray_sort`
(`SortedArray`: the element at place i has i - 1 elements below it) and about
intervals that begin at given starts (`StartsCut`), which give
`ClustersAreSound` for every sensitivity. On top of it:

* `SearchRunsOut`: the search for a number of clusters has a number of passes
  left which each pass but the last makes smaller. Downwards it is the
  sensitivity; upwards the distance to the largest latency, because a
  sensitivity not below that leaves two clusters at most (`CoarseClusters`),
  and nobody can ask for fewer. With the fairness of `Cluster` this is why
  `SearchEnds` holds. For 1 cluster it would not: 0 is a cluster of its own, so
  every pass finds too many and the sensitivity grows without end (section 6).
* `FileInvariant`: the file starts with the normalised latencies, has only
  sections of memory behind them, bandwidths in pairs and written ones only
  with read ones, whatever was killed and started again; `FileOnlyGrows`.
* `TableIsInOrder`, `LoadFindsTheClusters`: the table in the file keeps the
  order of the measured latencies, and the clusters a later run infers from it
  are those of the run that measured (a set has one sorted array only,
  `OnlyOneOrder`).

The assumptions are that latencies are natural numbers, one for every two
contexts, that the sensitivity is not 0, and that nobody asks for 1 cluster.

`Placement_proofs` has three parts. The pool: its tables never overflow and have
no two entries for the same arguments (`AtMostOneEntry`), from which
`PoolAnswers` follows for any topologies, any numbers as arguments and any size
of the tables. The invariant says what the loop of `mctop_alloc_pool_set_alloc`
leaves, with a full table too (`CallsAnswered`); `PoolAnswers` claims nothing
for a call that finds its table full without an entry for it, for there the
code does not do what it announces (section 6).

The policies: `PoliciesTakeBest` is `BestSockets` and `PlacementsAreSound` is
`PlacementIsSound`, for every topology that satisfies `TopologiesAssumption`,
any arguments (but those of `RunsOut`) and any number of calls. The
policies are folds, and what `FoldLeft` means is a function on sets of places
that `CHOOSE` picks. `FoldExists` shows that there is one, `FoldUnrolls` that
its value is that of steps made one after the other; both by induction on the
number of places, which needs no library theorem about operators: a least
counterexample (`LeastIs`, from the well-founded order of the naturals) is
refuted (`Inductive`). The folds of the code then are lemmas of their own:

* `MostIs`: `mctop_find_double_max` returns a place no other surpasses. "To
  surpass" is by more than one part in twenty and not transitive the way an
  order is; what is needed is that whatever the maximum so far does not exceed
  is not exceeded by a later maximum either (`ExceedsMore`);
* `SortPlaceIs`, `SortIs`: `mctop_sort_double_index` returns every index once,
  and no later place surpasses an earlier one. An exchange puts a smaller value
  behind, and the places after it stay below the one that is being filled;
* `FillIs`: the sockets that are filled are the first of those to visit; if
  every socket gives equally many contexts, the last one is needed;
* `LatencyOfSockets`, `SiblingLatency`: `mctop_ids_get_latency` of two sockets
  is that of their sibling, so the first sockets visited are the closest
  (`FirstIsClosest`) and `max_latency` is the largest latency to them;
* `FillJoins`, `NextJoins`: the contexts are rows, one per socket and pass,
  joined (`Joins`), and what comes later is joined behind what was there;
* `IdsIs`, `NthIs`: a row holds contexts of its socket only, none twice; with
  one context per core it is a column of the cores, another one in each pass
  (`PassesApart`), so rows of different sockets or passes have nothing in
  common and all contexts together are each there once;
* `MinLatSound`: a pass that does not take all cores of each socket is the only
  one, for then the limit, or the even share, is reached with it
  (`FilledShort`, `PerSocketFits`). So either every context is on a core of its
  own or all cores of the sockets are taken (`LatSound`). `UpCovers` is why a
  share rounded up reaches the number asked for, `PassesSuffice` why the later
  passes do;
* `RoundRobinSound`: the place in the order is the quotient and the remainder
  of a division by the number of sockets (`DivIs`), which determine it; the
  quotient stays below the contexts of a socket because `RunsOut` does not hold.

`PlacementInvariant` carries this through the program: every entry of a table
and the allocator of the merge sort were made by a policy and are not changed
later, and the current allocator is an entry of its table. It is needed because
`mctop_alloc_pool_set_alloc` hands out entries of earlier calls.

The node tree: for any number of threads, nodes and levels, and any order of the
threads,

* `DataArrives`: a thread never merges a buffer another has not finished, and
  the data of all nodes arrives (`DataArrivesWhole`);
* `TreeDoesNotBlock`: as long as a thread is not through, some thread is at a
  step it can take. That is the safety half of `EveryoneLeaves`.

Both are proved from `TreeIsSound` of the tree that was made, as a hypothesis
on the initial state. It is what `mctop_alloc_node_tree_create` computes with
some numbers of sockets and not with others (section 6), so TLC checks it for
the clients of `MCPlacement`. The invariant (`TreeIInv`) fixes the roles of
the threads in a record, which no step changes, and has two halves.
`TreeControl`: the threads of a level are before each of its two barriers or
behind it together, and no barrier is full. `TreeData`: if the level above is
through and this one is not, the nodes of this level hold all the data between
them, in one buffer or the other depending on whether their leader has swapped
yet (`SourcesWhole`), and those who have merged have written their shares of
the sum of both nodes (`SharesWritten`). The second half needs the first: a
leader swaps only after the second barrier, so nobody reads a buffer while it
changes.

Only checked by TLC:

* liveness under fairness: `EveryCallReturns`, `LastThreadFinishes`,
  `KeepsMeasuring`, `BandwidthIsMeasured`, `SearchEnds`, `EveryoneLeaves`. For
  the last four the proofs have the safety half: nobody is stuck, the figures
  are right, or the steps left grow fewer;
* the construction and the queries of the topology (`LatencyIsTable`,
  `TopologyIsMachine`, `PositionsAreBijective`, `SiblingsAreRanked`,
  `FreesAll`), and of `AugmentCompletes` that a topology built from the file
  knows which memory sections the file has. The construction selects from
  sequences (`SelectSeq`) and merges functions (`@@`), operators of the
  standard modules whose definitions the prover cannot expand, so nothing
  follows from them;
* the construction of the tree (`TreeIsSound`). It is a hypothesis of the
  theorems about the tree and no theorem, for it is not so with every number of
  sockets (section 6); `MCPlacement` has numbers with which it is. Beyond that
  the construction selects with `SelectSeq`, and counts its levels with powers
  of 2, of which the prover knows no more.

## 5. What is not modelled

* The lock of the build with hardware transactions (`__TSX__`), whose
  critical sections are atomic or fall back to a lock; printing; profiling;
  freeing of structures, which nobody uses any more by then.
* Failure to allocate memory: `malloc_assert` ends the program.
* What measurements give: floating point and timing. The statistics are an
  arbitrary median and deviation.
* Input and output, the affinity calls, and the SPARC variants.
* Caches and power, measured by one thread; the calls are disabled in `main`
  by a comment and by `MCTOP_POWER`. Their sections of the description file
  are left out with them.
* Queries that return a stored number, the pinning of a thread to a socket or
  node, and the scratchpad of the tree (one pointer per node for the caller).
* The capacity of a growing array, and fewer contexts (`-n`) than there are.
* Memory latencies measured inside `crawl` (`-m 1`): a loop of one thread in
  the set-up of a row. `Mctop` has the table they yield.
* How `merge_arrays` cuts two arrays into shares, and the sort and merge
  within one socket: data, and barriers of one node only.
* Machines whose sockets differ in their number of contexts (the construction
  divides contexts by sockets), and a machine with one context (`crawl` fails).

## 6. Where the code and what is said of it differ

Four differences have a run.

* **`mctop_alloc_pin_plus` does not release the slot of another allocator**
  (`MCAllocRepin`). `include/mctop_alloc.h` says of it "repin possible". It
  sets the allocator of the thread before it unpins, and the unpin reads that
  field. The slot in the old allocator stays taken, the new allocator's counter
  goes down, below zero if it was zero: then it wraps around, the allocator
  looks full and the thread is not pinned. Repinning to the same allocator
  works, and so does moving through the pool, which releases first; `MCAllocPin`
  covers both. `mctop_alloc_pin_simple`, "pin plus without stats", sets the
  allocator as well and releases nothing: a thread that is pinned takes a second
  slot and forgets the first. The run has both; each alone violates the property.
* **`mctop_alloc_thread_id` of an unpinned thread** (`MCAllocPinId`) is the id
  of its last slot, not the -1 that the header promises.
* **A full table of the pool** (`MCPlacementFull`).
  `mctop_alloc_pool_set_alloc` has a warning that the pool is out of space,
  "Returning SEQUENTIAL", and makes a sequential allocator. It does so if `aa`
  is NULL after a loop that leaves it NULL in no case: with a full table the
  last allocator of the policy becomes the current one, whatever it is for.
* **`node_to_nth_socket`** (`MCPlacementNode`) is to give the socket of a node
  and is filled with the nodes of the sockets. `mctop_wq_enqueue_node` takes what
  it gives as the number of a queue: of another node's, or, for an allocator on
  fewer sockets than there are nodes, of none, behind the end of `wq->queues`.
  The tests of the sort fill their queues that way. `WorkQueue` has the calls
  that find a queue, and loses no item whichever that is.

Others were met on the way and have no run.

* `mctop_wq_dequeue_remote` visits the local queue as well, at the end: the
  loop runs over all entries of `next_q`, whose last is the queue itself. The
  header says "from remote ones only". The model follows the code.
* Two workers of `tests/work_queue_sort1.c` may hold one sorted block each,
  find no second one, put theirs back and so on; the sort then makes no
  progress while that goes on. `LastThreadFinishes` starts where one thread is
  left for this reason.
* `crawl` frees and allocates the cache line anew before a repetition, but the
  threads keep the address read before the loop and update freed memory. With
  `malloc`ed lines that usually is the same memory; with lines from `libnuma`
  it may be unmapped. The model keeps the stale address and shows that, if it
  is still accessible, the measurement is right.
* `crawl` ends in `assert(sum != 0)` after a row in which nothing was
  measured: the last row never fails since the sum is kept from before, but a
  machine with one context has no other row.
* `n_cores` of a socket with groups of cores: `include/mctop.h` calls it the
  number of physical cores, the loop that fixes the children
  (`src/mctop_topology.c:643`) stores the children of each group whose children
  are cores, and the last one stays. `TopologyIsMachine` therefore claims the
  number only for a socket whose children are the cores. The policies use it as
  the number of cores, so on an SMT machine of that kind they hand out too few
  contexts; the machines of `MCPlacement` have no such level.
* `mctop_alloc_pin` takes the value of the counter as a slot without looking
  whether there is such a slot, and neither the header nor a check says that no
  more threads may pin than there are slots. One more writes past the end of
  `hwcs_used`. The client of `AllocPin` keeps to the number.
* `crawl` calls `numa_set_preferred(mem_lat_min)` with a latency where a node
  is expected (`src/mctop.c:203`).
* `MIN_LAT_CORES` with a limit per socket: a later pass takes as many contexts
  of a socket again, whatever an earlier one took. `include/mctop_alloc.h`
  speaks of a limit per socket; `PlacementIsSound` claims it for this policy
  only up to the number of cores.
* `BW_BOUND` with 0 extra contexts: 0 is turned into all contexts first.
* `BW_ROUND_ROBIN` with fewer sockets than hold the contexts asked for reads
  past the contexts of a socket. In a pool the number of contexts is always
  that of all, so every such call does, and `mctop_alloc_pool_create` makes one.
  Its `min_bandwidth` is that of the last socket.
* Every policy but `NONE` reads the bandwidth of a socket over a pointer that
  is NULL before bandwidths are measured.
* The node tree offers a pair `n_avail` helpers and has room for
  `n_avail / n_pairs`: with 7, 12 or 16 sockets it writes past its end. With a
  number that is no power of 2 some nodes are never merged; with 5 or 7
  sockets a helper of level 0 may have left the loop at level 1, and the
  barrier of level 0 waits for ever. The run has 2, 3, 4, 6 and 8.
* `tests/node_tree.c` builds a tree for `EVERYONE_CORE` and lets all contexts
  wait at it; the sort with `MCTOP_SORT_USE_SSE` 4 numbers the threads of such
  a tree by contexts, with gaps when both contexts of a core come first.
* `mctop_sort` gives each socket `n_elems / n_sockets` elements and the
  remainder to nobody.
* `mctop_load` reports a file with a section that does not parse as incorrect
  and then reads a field of the topology it has not made. `has_mem_bw_any` is `has_mem_bw_all`.
* A hint of 1 cluster can never be met, for 0 is a cluster of its own. The
  search does not notice: it finds too many clusters in every pass, so the
  sensitivity grows by 1 or more, the direction never turns, and the loop has no
  end but the overflow of an `int`. `SettingsAssumption` leaves this hint out,
  and `SearchEnds` says nothing of it.
* `mctop_node_to_socket` gives socket 0 for a node that is closest to none.
* An SMT machine with one core per socket fails the assertion of
  `mctop_fix_n_hwcs_per_core_smt`. Latencies within a socket that do not nest
  (a ring, a mesh) and a sensitivity so fine that a level is split end in a
  NULL dereference, or in a socket beyond the array; fewer sockets than
  expected cause a warning and then a NULL dereference. `TopologyIsMachine`
  states what the construction needs (`Separated`, `Nested`, `SeveralCores`).
* `tests/allocator.c` pins with `mctop_alloc_pin` again after a barrier of one
  node only, while the header asks that all threads have unpinned.

## 7. Plan

Order of the work, the behaviour that everything else rests on first.

1. *(done)* Work queue: `Fifo`, `NodeQueue`, `WorkBag`, `WorkQueue`,
   `StealOrder`, with the proofs of the last two; its client `WorkSort`.
2. *(done)* `AllocPin`; `Crawl`.
3. *(done)* `Darray`, `Clustering`, `Topology`, `Mctop`, with machines as the
   reference for the construction.
4. *(done)* `AllocPolicy`, `AllocPool`, `NodeTree`, `Placement`.
5. *(done)* `MemBandwidth`, `Measure`.
6. *(done)* Proofs of the safety properties of `NodeQueue` with its refinement,
   `WorkSort`, `AllocPin`, `Crawl`, `MemBandwidth`, of the clustering and the
   description file in `Mctop`, of the pool, of the policies, unrolling their
   folds, and of the threads on a node tree.
7. Still open: the construction of a topology and of a tree step by step, as
   actions with one iteration of a loop each in place of folds, `SelectSeq` and
   `@@`. A fold can be unrolled, as for the policies, but the two others are
   closed to the prover, and an invariant of such a loop would do without them:
   first for the offsets and waiting threads of the tree (`TreeIsSound`, with
   the numbers of sockets for which the helpers fit), then
   for grouping (`TopologyIsMachine`).
