# TLA+ specification of the BaM / GIDS asynchronous I/O stack

The repository lets GPU threads read a data set on NVMe SSDs without the CPU:
a software page cache in GPU memory (BaM), lock-free NVMe queue pairs in GPU
memory, a registered asynchronous read path on top of both, data loaders for
training (GIDS, CIDS, LLMIDS) that drive it, and below them libnvm with its
admin queue, its DMA mappings and its kernel module. This directory models the
parts in which independent actors meet or a failure leaves something behind,
checks them with TLC on small instances and proves central invariants with
TLAPS for instances of every size.

Paths below are relative to `src/`.

## 1. Inventory

| component | state it keeps | operations | who it meets |
|---|---|---|---|
| page cache, synchronous path (`bam/include/page_cache.h`) | per backing page a 32-bit word (count, DIRTY, BUSY, VALID) and an offset; per slot a lock and a translation; `page_ticket` | `acquire_page`, `find_slot`, `release_page`, `read_data`, `write_data` | all coalesced lane groups of all kernels, through atomics only |
| NVMe queue pair (`bam/include/nvm_parallel_queue.h`, `nvm_types.h`, `queue.h`) | identifiers with locks, tickets per ring position, marks, two try-locks, head and tail, doorbells | `get_cid`, `sq_enqueue`/`move_tail`, `cq_poll`, `cq_dequeue`/`move_head_cq`, `put_cid` | threads, and the SSD that completes out of order |
| registered asynchronous path (`page_cache.h`, `gids_module/gids_kernel.cu`, `gids_nvme.cu`) | one `s_ctx` per row, `polling_flag` per page, the table from (queue, identifier) to context | rowctx submit, window/try service, compatible blocking poll, get | rows of one kernel, kernels of several requests, SSDs |
| `BaM_IOStack` (`bam/include/bam_iostack.cuh`) | `outstanding_queue`, request states, context queue | submit, mark ready, pop | host calls of the feature store |
| `BAM_Feature_Store` (`gids_nvme.cu`, `gids_kernel.cu`), arrays and `bam_ptr` (`page_cache.h`) | window counter and second reference count per page, rows in CPU memory | `read_feature...`, `store_tensor`, `set_window_buffering`, `set_cpu_buffer`, `flush_cache` | warps of a kernel; an asynchronous request left between two calls |
| loaders (`GIDS_Setup/GIDS/GIDS.py`, `CIDS.py`, `LLMIDS.py`) | `prefetch_queue`, pending and current batch, budget, sampler thread, window buffer | constructor, `__next__` of five iterators | the feature store; the training loop, which may stop in the middle of an epoch |
| admin queue (`bam/src/rpc.cpp`, `admin.cpp`, `queue.cpp`, `bam/include/nvm_queue.h`) | two rings, a lock, descriptors of the queues made | `nvm_raw_rpc`, the admin commands, create, reset, destroy | threads, the controller, timeouts |
| remote admin (`bam/src/dis/rpc.c`, `dis/interrupt.c`) | binding handles, exported interrupt | enable, disable, bind, remote command, callback | processes of other nodes |
| controllers and DMA mappings (`bam/src/dma.cpp`, `ctrl.cpp`, `linux/`, `dis/`) | reference counts of controllers, mappings and segments | every way of mapping, remap, unmap, open, free | threads; failures of any step |
| kernel module (`bam/module`) | lists of controllers and mappings, controller count | probe, remove, three ioctls, NVIDIA callback, unload | processes, PCI core, NVIDIA driver |
| data striping (`get_backing_ctrl_`, `get_backing_page_`) | none | page to (SSD, block) | every transfer |
| not reached in this build | TLB, `wb_*`, `prefetch_count`, try-wait polling, `clear_cache_safe` | | |

What is hard here:

* there is no lock around an access: a slot is protected by a count in one
  word, BUSY in another and a try-lock in a third, and each decision is taken
  on a value that was loaded before the read-modify-write that acts on it;
* a queue pair is consumed out of order by many threads, its head moves only
  over marked entries, identifiers and ring positions are reused at once, and
  only a phase bit tells a new completion from an old one;
* in the asynchronous path the thread that submits a command is gone when the
  completion arrives; pins, contexts and the lookup table must outlive it;
* the host runs one kernel at a time, so a kernel that waits for something
  only a later kernel does waits for ever;
* the loader and the stack keep two queues of the same requests, which nothing
  but the order of the calls keeps in step;
* a page has two reference counts and a window counter that different paths
  maintain differently;
* an admin command that times out is still in the ring, and a DMA mapping can
  fail at six places after some of its resources were taken.

What makes each part correct: a slot never changes hands under its holder and
no write is lost by eviction (page cache); identifiers under way are distinct,
entries are not overwritten, a thread takes its own completion and always gets
it (queue pair); a context that says `isHit` has its data, transfers land in
slots that still belong to their page, completions find the context that waits
for them, pins are exactly the outstanding rows, batches are delivered in order
(asynchronous path); references are those of holders and window, what was
stored is what is read (feature store); each batch comes back once, with its
own rows, within the budget (loaders); a call gets its own completion and the
ring's losses are accounted for (admin queue); counts are those of the holders
and what is mapped stays mapped exactly as long as it is held (DMA, driver).

`PROJECT.json` lists every component with its status, and the hazards line by
line with the properties that cover them.

## 2. Modules

| module | models | role |
|---|---|---|
| `PageCache` | `acquire_page`, `find_slot`, `release_page` (synchronous) | one action per atomic operation |
| `PageCacheProofs` | | theorems: types, held slots, no lost write |
| `IOChannel` | what a queue pair promises: each command executed once, then returned to its issuer | abstract specification |
| `NvmQueue` | one submission/completion queue pair and the device | implements `IOChannel` |
| `NvmQueueProofs` | | theorems: identifiers, commands, completions, the safety part of `IOChannel` |
| `FeatureStream` | what the stack promises the loader: batches come back in order, with their contents | abstract specification |
| `AsyncRead` | submit, service, poll and get kernels, `BaM_IOStack`, the loaders' polling policy, SSDs | composition; implements `FeatureStream` |
| `AsyncReadProofs` | | theorems: pins, data of hits, transfers, lookup table, one read per page, order and contents of the stream |
| `FeatureStore` | calls of `BAM_Feature_Store`, their kernels, window pins, arrays, CPU copy, flush | synchronous and unregistered asynchronous accesses on one cache |
| `FeatureStoreProofs` | | theorems: references, stored and read rows |
| `Loader` | the iterators of GIDS, CIDS and LLMIDS over `BaM_IOStack` | one step per call of the stack |
| `LoaderLemmas`, `LoaderProofs` | | theorems: both queues in step, own batches, none lost, epochs, budget |
| `AdminQueue` | admin queue pair, admin commands, remote relay, controller | |
| `AdminQueueProofs` | | theorems: types, ring, exports, completions, descriptors |
| `SharedMapping` | what DMA handles promise: mapped from the first holder to the last | abstract specification |
| `DmaMap` | DMA mappings and controller handles of libnvm | implements `SharedMapping` |
| `HelperDriver` | the kernel module and what it holds of the NVIDIA driver | no specification of its own |
| `DmaStack` | one process on libnvm on the kernel module | composes `DmaMap` and `HelperDriver` |
| `DmaStackProofs` | | theorems: counts, error paths, `SharedMapping` implemented; controllers, GPU mappings, entries of the driver |
| `MC...` | | values and symmetry for TLC |

Operators named `Mut...` are plausible mistakes in the definition that follows
them (a dropped re-check, a missing write-back, an off-by-one). They are not
used by the specifications; `PROJECT.json` pairs each checked property with one
that violates it, which shows that the property depends on the code.

### PageCache

The state word is kept as the four functions `cnt`, `valid`, `busy`, `dirty`;
since the code changes it by atomic read-modify-writes only, one step may
change several. `offset` is `data_page_t::offset`; `lock`, `trans`, `ticket`
are `page_take_lock`, `page_translation` and `page_ticket`. `data` and `disk`
record what a slot and the SSD contain: the page, and the processes whose
writes are in it. A process is one coalesced group of lanes, whose master lane
acts with `count = popc(eq_mask)`; the model uses 1.

`Acquire` is the first `fetch_add` and the switch on the word it returns;
`Retry` a later load; `Claim` the `fetch_or(BUSY)` of the miss case; `Hit` the
hit case. `FindTicket` to `Clear` are the steps of `find_slot`: next ticket, a
FREE slot taken (`TakeFree`), a LOCKED one passed over (`TakeSkip`), an
UNLOCKED one locked (`TakeLock`), the victim's word loaded (`LookState`),
`fetch_or(BUSY)` with the re-check (`Evict`), and either undo (`Unbusy`,
`Unlock`) or write back and clear (`WriteBack`, `Clear`). `ReadData`,
`SetOffset`, `Publish` end the fill; `Publish` is the `fetch_xor` of line 2120
and toggles VALID, as the code does. `Release` is `release_page`.

`compare_exchange_weak` is modelled without spurious failure (it would only
make the process go to the next slot). Transfers are completed ones here: what
happens inside them is the subject of `NvmQueue`. `refilled` is a history
variable: pages that were claimed for a fill while VALID (section 6).

### NvmQueue

All counters are modulo `Word` (2^32 in the code). `tickets`, `tailMark`,
`headMark`, `posLock` are the per-position words; `sqDb`, `cqDb` the doorbells.
`GetId` is `get_id`. `MoveTail` and `MoveHead` take the run of marks that
`move_tail` and `move_head_cq` exchange as one step: marks only appear
concurrently and `sqHead` only advances, so that a run that is interleaved with
such changes is one the code could also have seen later. `RingTail` and
`RingHead` write the doorbells, `StoreHead` the head. `Scan` looks at one entry
at a time, so that the ring may move under a scan. `lapped` records that the
head has meanwhile passed the entry that a scan accepts: the comparisons of
lines 979 to 1009 then place it behind the head, and `cq_dequeue` does not wait
for its turn (hazard at line 992). An earlier version took "the head moved by
more than a round" for the condition, which the attempt to prove
`OwnCompletion` showed to be too narrow.

The device is external: `DevFetch` takes entries up to the doorbell and
`DevComplete` posts completions in any order while the ring has room.

### AsyncRead

A row's `pc` follows its thread through `acquire_page_submit_async`
(`Acquire`, `Look`, `Hit`, `Claim`, `FindSlot`, `SubmitRead`, `Follow`) and,
under the blocking poll, through `acquire_page_wait_async` (`WaitDone`,
`WaitBusy`, `WaitCas`, `Poll`, `Publish`). `SubmitEnd` registers the contexts
in `lookup` (any order of the registering threads) and enqueues the request.
`ServiceEvent` is one completion taken by the service kernel,
`ServiceEnd` the refresh of contexts from VALID pages and the READY marks of
the host. `Get` copies the rows, releases the pins and pops the request.
`kernel` is the one kernel that runs: all are launched on the default stream
and the host waits for each. `strayed` records that a row polled successfully
for an identifier that is not that of its page's command, as a follower may,
whose context has the identifier 0 (`Strays`).

Two parts are abstracted because they have modules of their own: `find_slot`
is one step with an open choice among the slots it may take, and a queue pair
is a set of commands and a sequence of completions from which an entry leaves
only with all before it. Each SSD has one queue pair. On the purely
asynchronous path `ref_count` equals the count in the state word and is left
out (`FeatureStore` has both). A freed context reached through a stale table
entry is not finalized in the model; `LookupFindsOwner` says that this never
happens. `WindowLaunch` may happen at every turn, which is more often than the
warm-up rules of CIDS allow.

### FeatureStore

A row is a page. `pc` follows a warp: `ReadCpu` (row found in CPU memory), the
load of the window counter (`LoadCounter`), the store of its flag (`SetFlag`),
the `fetch_add` (`CountIn`), `Hit` or `Miss`, the mark of `bam_ptr` (`Mark`),
the copy (`Use`), and the load, the counter and the `fetch_sub`s of
`release_page` (`Unload`, `TakeOff`, `Release`). What `PageCache` takes apart
(slot search, write-back, fill) is one step; the accesses to the window counter
are separate, because a plain store follows the load. Slots are tried in ticket
order. An asynchronous request (`AsyncWarps`) may stay between its submit and
its wait while synchronous calls run. A row's contents are the number of the
call that stored it.

Four history variables keep apart what the code is known to get wrong:
`upset` (pages whose window counter was changed between a load and its use, or
wrapped), `unmarked` (pages evicted as clean although modified, or written from
a slot that was never filled), `outdated` (rows stored after their copy to CPU
memory), `synced` (pages accessed synchronously, whose `ref_count` then differs
from the count). The properties hold outside them; section 6 says what happens
inside. A count below zero borrows from the flag bits, where the model ends.

### Loader

A call of an iterator is a list of steps, `it.todo`; `Warmup` is the
constructor and `NextCall` `__next__`, one list per iterator. Loops put steps
back. A step makes at most one call of the stack, so completions (`Complete`)
and the sampler thread (`SamplerNext`, `SamplerPut`) come in between wherever
the program lets them. `stack` is `outstanding_queue` together with the context
queue, an item of `it.queue` an entry of `prefetch_queue`. A feature row is a
pair (batch, position), so that rows in the wrong batch, or in the wrong place
of it, are visible. `cfg` is chosen at the start: iterator, depth, budget and
the size of each batch.

`InStep` says that the items number their requests in order, that the stack is
in that order too, and that the stack holds exactly the requests that no get has
fetched; it does so with sets and the numbering, and `BudgetKept` compares
`outstanding_io_count` with the number of rows outstanding (`OutstandingRows`),
so that neither needs a recursive operator. `SumUpTo` is written the same way.

`try_loops % 8` and the fall-back interval are abstracted to "may service now".
`NewEpoch` makes a new iterator when the old one has ended or the training loop
has left it; `stale` records that requests of the old one are still in the
stack. With the window buffer, `StopIteration` comes while `wb_size` batches
are in the window; they are handed out at the start of the next epoch, so
`EpochComplete` is about the other modes. A call that raises the sampler's
exception drops the batch in hand (`NoBatchLost` excepts it).

### AdminQueue

Rings as in `nvm_queue.h` (`asq`, `sqmem`, `acq`, `cqmem`); `TakeLock`,
`Submit`/`SubmitFull`, `Dequeue` or `Expire`, `Return` are the steps of
`nvm_raw_rpc`, run by threads and by the callbacks of remote commands. `desc`
is what a caller believes about its queues, `dev` what the controller has.
`dev.ready = FALSE` is a controller that never became ready, which
`nvm_aq_create` does not report. A remote caller binds to the interrupt in
`info`, sends a request, and waits for its own interrupt. `Expire` may happen
whenever no completion is there: the timeout against any speed of the
controller. Completions are taken by position, as in the code; `lag` counts
expired waits and `stale` whom an old answer may reach. Callback start,
command, and reply are separate, so the owner may disable or destroy in
between. Disabling without a handle is `DisableNull`: the code follows a null
pointer with the lock held, and the owner never comes back from `"fault"`; its
other threads end as well in the code, while the model lets them go on as far
as they need no lock. A reply whose completion is uninitialized memory
(`Replies`) is read by the client as success or as an error status.

### DmaMap, HelperDriver, DmaStack

A way of mapping is the sequence of resources it acquires (`Path`), composed
from the helpers it calls; `CreateFail` stops after any prefix and gives back
what the code gives back (`Undone`), which is not always all. `Unmap` is the
locked part of `put_map`, `PutKeep`/`PutRemove`/`PutFreed` what it does after
the unlock with whatever it reads then. `HelperDriver` takes ioctls as atomic;
`Probe` and `ProbeDone`/`ProbeFail` are apart because the controller is listed
before it is usable; `ctrl_put` and the callback of the NVIDIA driver take the
one entry they are called for out of its list. The NVIDIA driver is the set `p2p` of mappings it holds.
`DmaStack` conjoins the actions of both: a mapping of libnvm and its ioctl, an
unmap and the driver's search, `cudaFree` and the callback, the end of the
process. Buffers are numbers of 4 KiB pages, because `map_find` accepts an entry
of the page or of the start of its 64 KiB block (`Found`, `Block`): GPU buffers
start their blocks, host buffers lie anywhere. A device file knows its controller
by the address of a cdev (`cdevOf`, `FileKnown`), which is gone with the
controller and may be that of another one later (`Cdevs`). `corrupt`,
`unplugged`, `undercount`, `excused` and `crowded` record the cases named in the
properties' comments; after a descriptor was freed twice
(`corrupt`) the process can only end.

## 3. Runs

### Passing

| run | instance | states | checks |
|---|---|---|---|
| `page_cache` | 3 processes (1 writes), 2 pages, 1 slot, 2 accesses each | 204 K | `TypeOK`, `HeldSlotIsMine`, `NoLostWrite`, `AcquireReturns` |
| `nvm` | 2 threads, 4 commands each, rings 2/4, 3 identifiers, `Word` 8 | 218 K | `CidsDistinct`, `CompletionFound`, `OwnCompletion`, `NoOverwrite`, `ImplementsChannel` |
| `async_safety` | 3 requests of 2 rows that share a page, race for one or have none in common, 4 pages, 3 slots, 3 identifiers, 1 SSD, 2 outstanding, polling rules of either loader at each turn | 2.9 M | `HitMeansData`, `DmaLandsInOwnSlot`, `LookupFindsOwner`, `PinsAreRequests`, `OneReadPerPage` |
| `async_live` | 2 requests of 2 rows, GIDS polling | 70 K | `ImplementsStream` |
| `store` | 3 pages, 2 slots, 2 warps, 1 asynchronous warp, 3 calls of 12 kinds | 3.8 M | `PinsConserved`, `AsyncCanEvict`, `StoredNotLost`, `ReadsStored` |
| `loader` | 7 modes, depths 1 to 3, budgets none/2/3, split 2, batches of 1 or 3 rows, 2 epochs of 3 | 461 K | `InStep`, `ReturnsOwn`, `NoBatchLost`, `EpochComplete`, `BudgetKept`, `RaisesOnlyOversize`, `NextReturns` |
| `admin_safety` | 1 thread (up to 4 calls), 1 client (1 call), rings 4/4, 2 enables, 2 lives, 5 calls in all | 567 K | `TypeOK`, `RingAccounting`, `OwnCompletion`, `DescriptorsTrue`, `ExportIsLive` |
| `dma_map` | 2 threads, 2 mappings, 3 handles, an ioctl and a SmartIO controller, 7 ways of mapping | 52 K | `CountsHandles`, `RefsCounted`, `MappedWhileOpen`, `NothingLeft`, `ImplementsSharing` |
| `dma_stack` | 2 threads, 2 mappings, 2 host buffers of one block and a GPU buffer, 3 devices for 2 numbers, 2 cdevs; `FewAtOnce` | 756 K | `NumbersValid`, `P2PBalanced`, `MappedInKernel`, `NoStaleEntries` |

### Violated

Each states what the documentation, a comment or an assertion of the repository
says, and TLC finds a behaviour of the code that breaks it (section 6):
`page_cache_doubleclaim` (3 processes, 1 page, 2 slots), `async_headofline`,
`loader_abandon` (default iterator, depth 2, 2 epochs of 2 batches).

### Why the bounds are enough

* Page cache: three processes on one slot are the shortage: one pins the slot
  or fills it, one keeps its own page BUSY while it spins in `find_slot`, and the
  third waits for that page. Two pages make each fill an eviction, raced by a
  process that takes a reference between the load and the `fetch_or`; with two
  accesses a page is written, evicted by another process and fetched again by
  its writer. A second slot would only give the clock of `find_slot` another one
  to try (two are in `page_cache_doubleclaim`, any number in the theorems).
* Queue pair: eight commands make both rings wrap and the phase change while
  identifiers are reused; the submission ring of two has one usable entry, the
  full case, and each thread moves tail and head over the marks of the other.
  `Word` is as small as the rings allow.
* Asynchronous path: batches share pages, so that rows meet VALID, BUSY and
  unread pages; two requests are outstanding and a third reuses slots,
  identifiers and table entries of the first. `Loaders = {"GIDS", "CIDS"}`
  allows at each turn what either loader does and so covers both. A batch may
  name page 1 twice: as the first request its reader has identifier 0, the one
  that the follower polls for; after batch <<0, 2>> it has another one, and the
  follower takes the completion of a third request (`strayed`). Of <<0, 2>> and
  <<3, 1>> together the second finds no slot, and its submit kernel spins.
* Feature store: three calls are enough to store, evict or flush, and read
  back, or to announce a window, take its pin and give it up; three pages in
  two slots make eviction necessary; `Flag` 4 lets the counter reach its flag
  with two announcements.
* Loaders: depth 3 with split 2 has six requests under way; a batch of 3 rows
  is cut into unequal parts and exceeds the budget of 2; an epoch of 3 batches
  ends with the queue full, and the second starts after an end or a break.
* Admin queue: a ring of 4 has three entries, which a thread's first three
  calls can use up by expiring before its fourth; four calls also create and
  delete a pair of queues; two lives show what survives a destroy. `MaxTotal`
  bounds calls of all kinds together, so that each of these happens while
  their combinations stay small.
* DMA: two mappings and three handles let one mapping be shared while the other
  fails; three devices for two numbers let one be ignored. With two mappings an
  unmap can hit the wrong one: host buffer 0 is at the start of a block and 1
  inside it, the pair that `map_find` confuses. Two cdevs let a device come back
  with the address it had or with another. `FewAtOnce` explores three devices
  without a buffer, two with one and one with two, and no buffers after an
  ignored device was removed; the theorems have no such bound. Symmetry is over
  names, not over buffers.

The loops of the clients are cut by `Accesses`, `Ops`, `NReq`, `MaxCalls`,
`MaxEnables`, `MaxLives`, `MaxTotal`, `Epochs`; a behaviour that has used them up has
nothing left to do, which is why most configurations do not check for deadlock.
`Loader` has an explicit end and does check. In `store` a further reason is
that `find_slot` spins for ever when every slot is pinned, and in
`admin_safety` the deadlock of section 6. Symmetry is used in safety runs only.

### Fairness

* Threads of a running kernel are resident and the GPU schedules them: weak
  fairness on the steps of each process, thread or row. Nothing forces a
  client to begin a new access.
* SSDs work on what they have: weak fairness on fetching and completing.
* A kernel whose rows are done ends: weak fairness on `KernelEnd`.
* In `AsyncRead` the loader is one Python loop, "poll the front until it is
  ready, then get it". Service kernels for later requests disable both calls
  again and again, but the loop comes back to them, which is strong fairness on
  `FrontPoll` and `Get`.
* In `Loader` a call in progress goes on and the sampler thread is scheduled:
  weak fairness on `IterStep`, `SamplerNext`, `SamplerPut`, `Complete`. Nothing
  forces the training loop to call `__next__` again.

## 4. Proofs

Eight modules hold the theorems, for every value of the constants that the
modules' ASSUMEs allow: at least one slot, finitely many processes, writers
among the processes, `None` not a page (`PageCache`); positive sizes, rings
that divide the word (`NvmQueue`); not more slots than pages, finitely many
warps, a warp either synchronous or asynchronous, a window flag above 2
(`FeatureStore`); a submission ring of at least two entries that divides 65536
and a completion ring not smaller, processes that are different from each other
(`AdminQueue`); finitely many mappings, handles and threads (`DmaMap`);
positive sizes and batches of pages (`AsyncRead`); the known iterators, positive
depths, batch sizes and queue sizes, budgets that may be 0 (`Loader`); buffers' addresses are not
`None`, devices with a file are PCI functions (`DmaStack`). All the
inductive invariants were checked by TLC before they were proved.

The proofs have one shape. An invariant is a conjunction of named parts; there
is one lemma per action, which first says what the action changes and then
shows each part; one lemma collects the actions of `Next`; PTL makes the
theorem. Lemmas on operators (`AfterPut`, `Got`, `Undone`, `SqUsed`, removal
from a sequence, cardinality of a set that gains or loses an element) come
first.

### PageCacheProofs

`TypeCorrect` (`TypeOK`) and `HeldSlotCorrect` (`HeldSlotIsMine`). That a count
never goes negative, and that a slot stays with its holder, both depend on who
may be doing what to a page at the same time; `IndInv` says it in parts:

* `CountIsHolders`: the count of a page is the number of processes inside an
  access of it, so a process that reads 0 knows that nobody is there;
* `BusyOwner`: a BUSY page has one process that fills it or one that evicts it,
  never two;
* `LockOwner`: a LOCKED slot has one process inside `find_slot` on it, and a
  slot that is not FREE has a translation;
* `Decided`: once an evicting process has seen count 0 under BUSY, whoever
  comes to that page can only spin;
* `SlotOwner`: from the moment `find_slot` returns, the slot is translated to
  the process's page, and after the read holds its data;
* `ValidMapping`: a VALID page points to a slot that has it.

The proof covers the double claim of section 6 too: it costs a slot and may
block, but it does not take a slot from a holder.

`WritesAreKept` (`NoLostWrite`) needs `StoreInv`, four parts more, all about
pages that were never claimed for a fill while VALID: a page being filled is
not VALID (`Fresh`), one being used is, and DIRTY if it may be written
(`HeldValid`), it has at most one slot (`Home`), and its writes are in that
slot, and on the disk unless it is DIRTY (`Stored`). `Home` is what makes the
eviction of a slot harmless to a page that has moved elsewhere, and what the
double claim destroys.

### NvmQueueProofs

`IdentifiersDistinct` (`CidsDistinct`). `BusyStep` shows that twelve of the
fourteen thread actions leave identifiers alone and keep the thread busy; what
remains is `get_cid`, which takes an unlocked identifier, and `put_cid`, which
unlocks the thread's own. `CidsDistinct` is inductive with the type of four
variables.

`CommandsKept` (`NoOverwrite`), `CompletionsFound` (`CompletionFound`),
`PollReturnsOwn` (`OwnCompletion`) and `ChannelImplemented` are about two rings
whose counters wrap, at the word and at the ring. The invariant (`QueueInv`)
numbers commands and completions without end and says how the program's
counters are those numbers modulo `Word`. The numbers are not variables of the
model: `SomeQueueInv` says that there are some, and each step's lemma names the
next ones. They are the places from which tail and heads have moved, the number
of commands the device has fetched, the owner of each command and the place of
each thread's own. The parts:

* `HistInv`: who has issued and who owns which command;
* `RingInv`: tail, head and what the device has seen are in this order, not
  more than a ring apart;
* `TicketInv`, `PosInv`, `TurnInv`: a thread with a ticket has one position and
  one turn of it, and `tickets[pos]` says whose turn it is, so that a thread
  writes an entry only when the one before is gone (`NoOverwrite`);
* `FetchInv`: the device has exactly the commands between its two counters;
* `HeadInv`, `EntryInv`: the completion ring, with the phase of each entry from
  the number of the round it was written in (lemma `EntryAtPlace`: by its phase
  a scan tells an entry of this round from one of the last);
* `OwnInv`, `PollInv`: a completed command that is not yet returned lies between
  head and tail of the completion ring, and a scan that has started behind it
  has not passed it.

`CompletionsFound` and `CommandsKept` hold until a scan has placed its entry
behind the head (`lapped`), `PollReturnsOwn` says so in its definition. All
assume `Few`: less than `Word` commands in all. This is not a matter of the
proof: after 2^32 commands the tickets of `get_id` start again and the property
is false (disagreement 7). `ChannelImplemented` is the safety part of
`ImplementsChannel`: as long as nothing was placed behind the head, every step
is one of `IOChannel` or leaves its variables alone.

### FeatureStoreProofs

`PinsAreConserved` (`PinsConserved`) from `CountInv`: a warp moves only in a
call of its kind, so that a request left between two calls is at rest (`Busy`);
what a warp has loaded of the window counter is still there when it stores by
it, unless the page is `upset` (`Loaded`); and at most one warp of a page has
set the flag and not yet taken the reference (`OneAtRef`). `CountsAgree`
(`AsyncCanEvict`) needs only this and the steps of `synced`.

`StoresAreKept` (`StoredNotLost`) and `ReadsReturnStored` (`ReadsStored`) from
`DataInv`: a slot in use and a VALID page name each other (`Placed`); a warp
that has a slot has that of its page (`HoldsIt`), which rests on `NoHolder`: a
page whose count is 0 has no holder, by `PinsConserved`, so `find_slot` and
`Flush` take no page from anybody; copies in CPU memory are true unless
outdated (`CopiesTrue`); nothing has been copied out while rows are stored
(`Unread`).

### AsyncReadProofs

`PinsAreTheRequests` (`PinsAreRequests`) holds for any instance. Its `PinInv`
ties the host to the rows: the queue is the last requests asked for (`Queued`),
only their rows are live, only those of the last one submit and only those of
the first one wait (`Placed`).

The other theorems assume one SSD (`OneSsd`) and no page twice in a batch
(`DistinctRows`, as when a batch names a node once and a row fills a page).
Without them the invariant, and some of the properties, fail: disagreements 8
and 4 below. `PollersNeverStray` says that with them the exception the
properties make for followers (`strayed`) never applies; `HitsHaveData` is
proved together with `HitsHavePages`, which has no exception. From
`ReadInv` follow `HitsHaveData` (`HitMeansData`), `DmaStaysInSlot`
(`DmaLandsInOwnSlot`), `LookupsFindOwners` (`LookupFindsOwner`) and
`PagesAreReadOnce` (`OneReadPerPage`). The argument:

* a BUSY page has exactly one row that reads it, from the `fetch_or` to the
  completion (`Readers`), and that row has the page's slot and an identifier of
  its own (`Sent`);
* a row that has come past the submission finds its page VALID or BUSY
  (`Covered`), and BUSY because of a row of its own or an earlier request
  (`Earlier`). Rows that poll are those of the first request, so a row that
  polls is itself the reader, and polls for its own command (`Pollers`, lemma
  `PollerReads`);
* a command, and then a completion, has a row that waits for its identifier,
  with the command's slot and page (`Commands`, `Entries`), and the table has
  that row unless the submit kernel still runs (`Lookups`). Therefore both ways
  to finish a command, the table of the service kernels and the context of the
  blocking poll, make the same page valid in the same slot (lemma `Finished`);
* pins keep `find_slot` away from every slot a live row has (lemma `Pinned`,
  from `PinInv`).

`StreamImplemented`: `Get` delivers the request at the front, whose rows are all
there (`AllThere`, `HasData`), so every step is one of `FeatureStream` or leaves
`asked` and `got` alone. Its liveness stays with TLC.

### AdminQueueProofs

`TypeCorrect` (`TypeOK`), `RingIsAccounted` (`RingAccounting`),
`ExportsAreLive` (`ExportIsLive`) from `QueueInv`; its main parts: whoever is
between enqueue and completion holds the lock (`Exclusive`); the controller
takes only entries that were written (`Written`), without which not even the
types hold; the distance from head to tail is the number of expired waits and
of the one that goes on (`Uses`); clients and callbacks reach only the
interrupt that is listed or about to be (`Exports`); without a queue pair
nobody uses it (`Unbound`). The lemma `SqUsedIsUsed` is where the ring size
must divide 65536: the two remainders of `nvm_sq_enqueue` are then the distance.

`CompletionsAreOwn` (`OwnCompletion`) from `OwnInv`. Completions are taken by
position, so the question is what the rings contain: as long as no wait has
expired, at most one command is in the submission ring, the controller and the
completion ring together, the one of the process that holds the lock
(`OneInFlight`, with the phase bits in `Tags`). For a client on another node
there is a second way to get an old answer, a reply left in its inbox:
`ClientAlone` says that a client that is not `stale` has at most one request
between its call and its inbox, and that it is that of its present call.

`DescriptorsAreTrue` (`DescriptorsTrue`) from `DescInv`: until the completion
is there, the controller has what the descriptor says; from then until the
thread returns, it has that with the command done, if the completion says so
(`Described`).

### DmaStackProofs: DmaMap

`MappingsCountHandles` (`CountsHandles`), `ControllersCountHolders`
(`RefsCounted`), `DeviceOutlivesMappings` (`MappedWhileOpen`),
`ErrorPathsGiveBack` (`NothingLeft`) from one `IndInv`: a live descriptor has
its controller's reference and only live ones have handles (`Live`); what a
descriptor without a range has left (`Remains`); a mapping with a range has all
that its call acquired (`Complete`); the controller's count is that of its
holders and it is open exactly while that is not 0 (`RefsExact`,
`OpenIffCounted`). The lemmas on `Path`, `Got` and `Undone` go through the nine
ways of mapping and every prefix at which one can fail.

`SharingImplemented` (`ImplementsSharing`): with the handles of a mapping as
`holders` and "has a range and all its resources" as `mapped`, every step is
one of `SharedMapping` or leaves both alone. `SharedMapping` has no fairness, so
this is the whole refinement.

### DmaStackProofs: DmaStack

`NumbersStayValid` (`NumbersValid`), `GpuMappingsBalanced` (`P2PBalanced`),
`MappingsStayInKernel` (`MappedInKernel`), `EntriesAreUsed` (`NoStaleEntries`),
and `StackRunsDmaMap`: the stack's behaviours are behaviours of `DmaMap`, so
that its theorems hold in the composition. The invariant `StackInv` adds four
parts to that of `DmaMap`:

* `ListInv`: a device that is being probed is in the list and an ignored one is
  not, so `ctrl_put` shortens the list exactly when the count goes down for a
  good reason;
* `P2PInv`: identities are distinct and no entry has more GPU mappings than the
  list has controllers, so that releasing along the present list gets all of
  them; removing a controller is what breaks this (`unplugged`);
* `BufInv`: a buffer is of one mapping; an entry for GPU memory is the only one
  of its buffer, and that buffer is still allocated;
* `EntryInv`: what has a range has an entry, unless it is host memory at the
  start of a block that was `crowded`; and until something was excused, or a
  block crowded, no two entries of both lists are of one buffer, which leaves
  none behind when the mapping goes (`NoStaleEntries`).

The search by task and address (`map_find`, host list first, first entry that
matches) does not always find the entry of the address. The proof needs that it
removes either that entry or one at the start of the address's 64 KiB block, that
both are host memory then, because GPU buffers share no block with anything
(`AddressAssumption`: CUDA has addresses of its own, and `getDeviceMemory`
allocates 64 KiB more than the blocks it maps), and that the second of two such
buffers was mapped while the first was (`crowded`). The theorems state these
cases as exceptions; TLC finds them when an exception is left out.

That the module cannot be unloaded under a mapping comes from the invariant of `DmaMap`: the
mapping's own reference keeps the device file open (`OpenWhileMapped`).

### LoaderLemmas, LoaderProofs

`QueuesInStep` (`InStep`), `OwnBatchesReturned` (`ReturnsOwn`),
`DrawnBatchesKept` (`NoBatchLost`), `EpochsComplete` (`EpochComplete`),
`BudgetRespected` (`BudgetKept`) and `RaisesJustified` (`RaisesOnlyOversize`),
for every depth, budget, split and number of epochs and for batches of any size,
all from one inductive invariant, `LoaderInv` (`LoaderInductive`):

* a call in progress is a suffix of its list of steps. `WarmTodo`, `PreTodo` and
  `PostTodo` are those suffixes, for each iterator: in the constructor, before
  and after the batch is taken off `prefetch_queue`. `PrefetchPhase`,
  `PipelinePhase` and `SyncPhase` say what a call relies on where it is (before
  the get of the default iterator the front was polled, before a micro-batch
  is materialised its request is at the front and ready). The lemmas `...Steps`
  say what comes after the head of each such list;
* `Numbering`: the identifiers in the stack are consecutive; `Order`: they
  ascend along the items. Hence a request that is not fetched is found at a
  place that its identifier gives (`Link`: with its batch and its rows), and the
  stack has no other, unless an abandoned iterator left them (`Cover`);
* `Items`: of the parts of an item a prefix was submitted, of that a prefix
  fetched, of that a prefix used, and what was fetched is in its place;
  `Complete1`: only the last item can be incomplete;
* `Ios`: `outstanding_io_count` is the number of rows submitted and not
  fetched. Its steps are the lemmas on the cardinality of `PendingRows`;
* `BatchesDue`, `DueOf`, `SyncDue`: the batches drawn and not returned are those
  in hand, in the queues, pending, with the sampler, in the window, in this order;
* `Exhausted`, `Sampler`: `exhausted` is set when the sampler has no more, and
  the sentinel is the last that the thread puts.

`ReturnsOwn` is in the invariant because a call that returned leaves nothing
else from which it could be concluded. `SumStep` shows that `SumUpTo`, a
cardinality, is the sum; `Parts` that the parts of a batch add up to it.

### Only model-checked

* Liveness under fairness and ENABLED, out of the prover's reach:
  `AcquireReturns`, `NextReturns`, and the refinements `ImplementsChannel` and
  `ImplementsStream`, whose abstract specifications have fairness
  (`ChannelImplemented` and `StreamImplemented` prove their safety parts).
* `AsyncRead` with repeated pages in a batch (`async_safety`),
  except for the pins.

## 5. What is not modelled

The status and reason of each part is in `PROJECT.json`. In short:

* not reached by any host call of this build: try-wait polling, `wb_find_slot`
  and `prefetch_count`, `clear_cache_safe` and `clear_range_pages`,
  `page_cache_backup.h`; used by benchmarks only: the TLB;
* clients: benchmarks, the deprecated examples, the training scripts (what they
  do to an iterator is in `Loader`);
* data: element copies, PRP lists, queue memory layout, page arithmetic of
  `get_backing_page_`, timing, statistics, logging; lifetimes of PyTorch
  tensors (`fetch_feature_submit_registered_rowctx`, GIDS.py:1402, hands on a
  pointer into a temporary; so does the accumulator, GIDS.py:1692);
* mixing registered and unregistered requests in one program run
  (`pop_ctxs` would drop the metadata of a registered request,
  bam_iostack.cuh:318); no loader does it.

Assumptions worth knowing: in `async_live` there are slots enough for the pages
of `Depth` requests (with fewer, the submit kernel spins and nothing can free a
slot; in `async_safety` the batches `<<0,2>>` and `<<3,1>>` together do come to
that, which no safety property minds), and in `NvmQueue` a thread polls as soon as it has
submitted (a submit kernel that fills the ring before any poll kernel runs would
wait for ever, nvm_parallel_queue.h:356). The code leaves both to the user's
settings. `AdminQueue` assumes that the ring size divides 65536, which the full
test of `nvm_sq_enqueue` needs. In `HelperDriver` list operations are atomic
and pinning gets all pages or none.

## 6. Disagreements found

Shown by a run:

1. **Double claim** (`page_cache_doubleclaim`). `acquire_page` claims a page
   with `fetch_or(BUSY)` but tests only the old BUSY bit. A process that saw
   "not VALID, not BUSY" and is overtaken by a whole fill claims the page again
   although it is VALID; the final `fetch_xor` then clears VALID. Another
   process misses the page, makes it BUSY, and if every slot is translated to
   that page, refuses each of them as BUSY for ever. `AcquireReturns` and
   `NoLostWrite` hold when this has not happened (`refilled`).
2. **Head of line** (`async_headofline`). The compatible poll of the front
   request waits in `cq_dequeue` behind a completion of a later request that
   only a later kernel would take.
3. **Abandoned iterator** (`loader_abandon`). The get of the default iterator
   takes the earliest request of the stack without asking whose it is. After a
   `break` out of an epoch, requests of the old iterator are still there and
   the new one returns their rows as its own. The registered iterators wait for
   their request identifier at the front instead, and loop for ever.

Reached in the models at other constants, or excepted by name in a property:

4. **Followers poll.** A row that follows another row's read of the same page has
   no command, but polls for identifier 0, that of its zeroed context, when it
   wins `polling_flag`. If a command of another request has that identifier, it
   takes its completion and publishes its page without data. Two rows and two
   outstanding requests are enough (`strayed`, reached in `async_safety`).
   `debug.md` says that asynchronous results equal the synchronous ones.
5. **Wrong mapping unmapped.** `map_find` takes the first entry of the task at
   the page of the address or at the start of its 64 KiB block. With host
   buffers at a block's start B and at B + 4096 (`createDma` aligns to 4096),
   unmapping the second releases the pages of the first and leaves the entry of
   the second (`crowded`, reached in `dma_stack`). `module/map.h` says "Find
   memory mapping from vaddr and current task".
6. **Uninitialized completion.** When the owner's callback
   refuses a relayed command, or the command fails there, the reply carries
   whatever memory `reply.cpl` was made of, and the client's call returns
   success if its status bits are 0. `nvm_rpc.h` says that zero indicates
   success and comes with a corresponding completion.
7. **Tickets wrap.** After 2^32 commands of one queue, `get_id` starts again at
   0 while `tickets[pos]` goes on (`NvmQueue` with `Ops` above `Word`).
8. **Two SSDs.** `ctx.ctrl` is 0 for every page, so the lookup table is filled
   under the first SSD and completions of the second find no context
   (`AsyncRead` with `Ssds = 2`); `README.md:18` describes striped data sets.
9. **Stored rows lost.** `bam_ptr` sets DIRTY on page number `base_master`
   (page_cache.h:3383, 731-743), not on the page it wrote. A stored row that is
   evicted before `flush_cache` is lost (`unmarked`); `README.md:16` says that
   `tensor_write.py` stores the values.
10. **Window counter.** Two warps can take, or give up, the window's reference
    twice (`upset`).
11. **Synchronous after asynchronous.** `release_page` lowers `ref_count`, which
    the synchronous `acquire_page` never raised: after one synchronous access
    the asynchronous `find_slot` never evicts that page again (`synced`).
12. **Late admin completion.** After a timeout the next call takes the old
    completion for its own (`stale`), and each timeout costs a ring entry for
    good (`RingAccounting` says exactly how many). `nvm_rpc.h` promises "a
    corresponding completion".
13. **Disable blocks.** `_nvm_rpc_handle_remove` holds the lock while it waits
    for the interrupt to become idle, and a callback that is running waits for
    that lock.
14. **Second enable.** Enabling an adapter twice fails and clears the export of
    the first; a failing `write_handle_info` leaves its interrupt connected.
15. **Driver.** A mapping is unmapped only by the thread that made it, stays
    after a failed copy of the addresses and after the end of its process
    (`excused`); removing an ignored device lowers `curr_ctrls`
    (`undercount`); GPU mappings are released along the present list of
    controllers (`unplugged`).
16. **Small ones.** `nvm_aq_create` ignores the error of the reset
    (rpc.cpp:488); `mmap` is compared with NULL (linux/device.cpp:147);
    `createDma` leaks the GPU buffer on error (buffer.h:204); `put_map` reads
    `va` after its unlock and can free twice (`corrupt`).

## 7. Plan

Done: all parts that the current build reaches; theorems for the page cache,
the queue pair and its channel, the asynchronous read path and its stream, the
feature store, the loaders, the admin queue, the mappings, their abstract
specification and their composition with the kernel module. Next:

1. `Striping`: `get_backing_ctrl_` and `get_backing_page_` as functions, checked
   against a reference.
2. Two local admin callers, when a coarser controller makes room for them.
