# A verification project for the buffer pool

TLA+ models of the storage engine under `src/` (Rust, about 1400 lines without
tests), model-checked with TLC, with their safety properties and refinements proved by TLAPS.
Paths below are relative to the repository: `src/src/guard.rs:85` is line 85 of
that file. A definition that models code has the name the code uses, and
`PROJECT.json` gives the lines of each.

## 1. The system

```
  BTree ──check_read_page / check_write_page / new_page──► BufferPoolManager
  client threads ──data, data_mut, flush, drop──► page guards      │   │
                                   │ pin_count, is_dirty, RwLock    │   │ record_access, evict, remove
                                   └──► FrameHeader ◄───────────────┘   ▼
                                        set_evictable (drop) ──────► ArcReplacer (mutex)
  BufferPoolManager and guards ──DiskRequest + reply channel──► DiskScheduler (one worker)
                                                                        ▼
                                                                DiskManager ──► main.db
```

| component | source | state | operations |
|---|---|---|---|
| Disk manager | `disk_manager.rs` | map from page id to offset, stack of free offsets, page capacity, the file | `new`, `read_page`, `write_page`, `delete_page` |
| Disk scheduler | `disk_scheduler.rs` | queue of requests, one worker thread | `schedule`, the worker's loop, `drop` |
| Frame | `frame_header.rs` | bytes behind an `RwLock`, atomic `pin_count` and `is_dirty` | `reset` |
| ARC replacer | `arc_replacer.rs` | lists `mru`, `mfu`, their ghost lists, `mru_target_size`, `evictable_pages`, `curr_size` | `record_access`, `set_evictable`, `evict`, `remove` |
| Page guards | `guard.rs` | the page and frame they pin | `new`, `data`, `data_mut`, `flush`, `drop` |
| Buffer pool manager | `buffer_pool.rs` | `next_page_id`, `page_table`, `free_frames`, the frames, the latch | `new_page`, `check_read_page`, `check_write_page`, `delete_page`, `flush_page`, `flush_all_pages` |
| B+tree | `b_plus_tree.rs` | nodes and header page, as pages of the pool | `find`, `insert`, `scan` |
| Program entry | `main.rs` | none | five fixed calls of the pool |

**How they interact.** A method of the pool holds the latch to its end, so one
runs at a time. A guard is `Send`, outlives the call that made it and takes no
latch: pin counts, dirty flags, frame locks and the replacer change while a pool
call is under way. Everything that touches the disk sends a request and blocks on
its own reply channel. The worker executes requests in the order they arrive.

**What is hard.** The steps of guards between those of the pool, and of each
other: `drop` is `fetch_sub`, a load and `set_evictable`; `flush` is a copy, a
disk write and a store to `is_dirty`; `data_mut` marks the page before it has the
lock. Panics with a lock held, and disk requests whose failure is not looked at.
Slot numbers that are counts. The bookkeeping of the replacer over long sequences
of calls. Requests of several threads in one queue, and its shutdown. In the
B+tree, splits that are several page writes, the stack of guards an insert keeps
for them, and asking the pool for more pages while some of these are locked.
Section 7 gives what is not modelled.

**What makes each component correct.**

* Disk manager: it is a dictionary of pages; no two pages share a slot; every slot
  in use is inside the file, also when the file could not be made longer.
* Replacer: the frames listed are the frames that hold a page; the lists stay
  within their sizes; a ghost hit moves the target the right way; a frame nobody
  uses can be evicted and one in use cannot.
* Pool and guards: each frame is in one place; pin counts are the guards; a
  guard's frame holds its page; no update is lost; no request for a page waits for a guard.
* Scheduler: every request takes effect once and is answered once, also when it
  fails and at shutdown.
* B+tree: sorted, balanced, linked leaves; the stack of an insert has every node a
  split needs; each record inserted is stored once, found and scanned.

## 2. The modules

| module | what it is |
|---|---|
| `PageStore` | abstract specification: a dictionary from page ids to contents |
| `DiskManager` | the disk manager, a step per method |
| `DiskManagerProps` | its properties and the refinement mapping to `PageStore` |
| `DiskManagerProofs` | its theorems |
| `CallStore` | abstract specification: a page store that several threads call |
| `DiskScheduler` | clients, queue and worker of the scheduler |
| `DiskSchedulerProps` | its properties and the refinement mapping to `CallStore` |
| `DiskSchedulerProofs` | its theorems |
| `ArcReplacer` | the replacer's methods, as actions over its variables |
| `ArcClient` | abstract client: the replacer as the pool uses it, with its properties |
| `ArcCounting` | `ArcClient` with the counter `curr_size`, a `u32` that wraps |
| `ArcReplacerProofs` | lemmas about the replacer's lists and methods |
| `ArcClientProofs` | the theorems about the replacer and its counter |
| `BufferPool` | pool, guards and frames over `ArcReplacer` and a page store |
| `BufferPoolProps` | their properties, and the refinement to `ArcClient` |
| `BufferPoolProofs` | the theorems about where frames are, types, pins, guards, contents and the use of the replacer |
| `KeyStore` | abstract specification: a collection of records, searched by key |
| `BTree` | the B+tree over pages; an insert in steps |
| `BTreeProps` | its properties and the refinement mapping to `KeyStore` |
| `BTreeProofs` | the theorems about the path of an insert |
| `BTreeShapeProofs` | the theorems about the tree that inserts build, and about their loops |
| `BTreeChainProofs` | the theorems about the chain of leaves, scans, and the records in the tree |
| `BTreeOnPool` | `BTree`'s inserts composed with `BufferPool` |
| `MCDiskManager`, `MCDiskScheduler`, `MCArc`, `MCBufferPool`, `MCBTree`, `MCBTreeOnPool` | the instances TLC runs |

**`DiskManager`.** `pages`, `free_slots`, `page_capacity` are the fields of that
name, with offsets divided by `PAGE_SIZE`; `file` is the content of each slot;
`reply` is the answer to the last call. `SlotFor`, `FillsUp` and `Locate` are the
block with which both `read_page` and `write_page` begin: note that a read of a
page without a slot takes one off the free list. The length of the file is
separate from the capacity: the code drops the result of `set_len`, so `GrownFiles` may
be the file as it was, and the length with which it is opened is one of `FileLengths`.
A write past the end extends the file, a read there returns what the caller has
passed, and an offset behind the end is the panic of `read_page`. `write_page_err` is
the `?` after `seek` or `write_all`, `read_page_err` an error of `metadata`, `seek`
or `read_exact`. `Spec` has the calls the pool makes when clients ask for
pages they created, which may fail when the page has a slot; `SpecAny` has
every call, and every failure, those of first writes included.

**`DiskScheduler`.** `queue` is the channel to the worker, `worker` what the thread is
at (`recv`, `run`, `send`, `stopped`), `client[c]` a thread that holds an `Arc` of the
scheduler, with the channel of its own request as `promise`, and `owners` those
that have not dropped theirs. `schedule` is followed by `recv_reply`, as in every
caller. Reads and writes may fail, at any time, and are then answered `None`;
`delete_page` has no error. `drop` of the last `Arc` sends `None` and joins. `CallStore` says what
threads rely on: a call is made, takes effect once, and returns what it found.

**`ArcReplacer`, `ArcClient`.** Each method runs under the replacer's mutex, and so
is one action. `record_access` is the disjunction of its return paths. Arithmetic
on `u32` is modulo `U32`; with `OverflowChecks` an operation that would wrap is
a panic (debug build), which poisons the mutex. `ArcCounting` adds `curr_size`, with the history variable
`count_wrapped` for an increment that has gone past 2^32 - 1. `ArcClient` adds `page_of`, what the pool knows
of a frame, and when the pool calls what. `BufferPool` uses the same actions of
`ArcReplacer`, and run `pool_replacer` shows that it uses them as `ArcClient` says, so that
neither model of the client is taken on trust.

**`BufferPool`.** `op` is the pool call in progress, `idle` between calls, and its
`pc` names what the call does next; `guard[g]` is a client's guard in the same way.
Steps are cut where another thread can see or change something: at atomics, locks,
the replacer's mutex and disk requests. `check_hit`, `check_free`, `check_evict`
and `check_no_victim` are the ways a page request begins; `copy_out`,
`write_back`, `reset_victim`, `load`, `pin` and `record` follow. `flush_page`
makes a guard inside the pool, flushes and drops it: that guard is `Flusher`. Writers
and readers of a frame's `RwLock` are the guards at `write` and `read`. When a call
panics the latch is poisoned and no pool call follows, but guards go on, as they take no
latch: they use their bytes, flush and drop, and stop only at the lock the panic has
poisoned, which is a frame's (`LockPoisoned`) or the replacer's (`ReplacerPoisoned`,
`record_panics`). `disk` is a
page store; that `DiskManager` is one is what its `StoreSpec` says, and that several
threads may take `DiskScheduler` for one is what `CallStoreSpec` says. Requests that
fail are `write_back_err`, `load_err` and `flush_store_err` (`SpecFaulty`). Two history
variables serve properties only: `latest`, the content last given to each page,
and `stolen`, true once a frame has been evicted under a guard (see finding 1).

**`BTree`.** `pages` are the nodes, numbered as `new_page` numbers them; `header_root`
is the root's id in the header page, from which `find` and `scan` start, and
`root_page_id` the field, from which `insert` starts. Methods take `&mut self`, so
`call` is the one that runs. `insert` goes through the actions `insert_first`, or
`insert_at_root`, `descend`, `insert_leaf`, `split_leaf`, then `propagate`,
`split_internal` or `grow_root`, one for each pass of its loops; `path` is
`path_stack`. `scan` holds the borrow of the tree and delivers a leaf per step. Nodes
are decoded and encoded as they are; byte offsets are left out. `sort_unstable_by_key`
leaves records of one key in any order.

**`BTreeOnPool`.** One step of `BTree` puts into `todo` the calls of the pool and the
guards it makes, in the order of the code (`OnLeaf`, `OnSplitLeaf`, ...), and each is
then carried out by the steps of `BufferPool`, replacer included. A guard bears the
number of its page.

## 3. What the runs check

| run | question | states | answer |
|---|---|---|---|
| `disk_manager` | is it a dictionary with a partition of slots, as the capacity doubles twice, when calls and `set_len` fail? | 4 pages, 2 contents, capacity 2; 162k | holds |
| `disk_any` | with any calls and failures, are slots inside the file and other pages left alone? | 3 pages, 2 contents, capacity 1; 60k | holds |
| `disk_slot_shared` | with any calls and failing first writes, can two pages share a slot? | 4 pages, 1 content, capacity 2 | yes, finding 5 |
| `disk_scheduler` | is every request answered once, do the threads see a page store, does the shutdown end? | 2 pages, 2 contents, 3 threads; 125k | holds |
| `arc` | do lists, frames, sizes, counter and target agree over any sequence of calls without deletes? | 2 frames, 5 pages, release arithmetic; 2.4M | holds |
| `arc_ghost_hit` | is every ghost hit served in a debug build? | 2 frames, 5 pages | no, finding 2 |
| `pool` | frames, pins, contents, evictability and waiting, with interleaved guards, deletes and failing requests? | 1 frame, 2 pages, 2 guards and the flusher; 3.0M | holds while no frame is stolen |
| `pool_replacer` | the same for frames, and does the pool use the replacer as `ArcClient` says? | 2 frames, 3 pages, 1 guard and the flusher; 1.3M | holds |
| `pool_pinned` | can a pinned frame be evicted? | 1 frame, 2 pages, 2 guards and the flusher | yes, finding 1 |
| `pool_victim` | does a request fail while a frame is unused? | 1 frame, 4 pages | yes, finding 3 |
| `btree` | shape, stack, loops, chain, searches, scans and contents for any seven inserts? | 4 keys, nodes of 2 entries; 175k | holds |
| `btree_on_pool` | can an insert wait for a lock of its own? | 10 frames, nodes of 3 entries, up to 64 ascending keys | yes, finding 4 |

Each property of a passing run is paired in `PROJECT.json` with a mutation of the
code model that breaks it (operators commented "Mutation of ...").

What the central properties say:

* `SlotPartition`: mapped slots and free slots are disjoint, without repetition and
  together exactly the numbers handed out so far. It is why the count of mapped
  pages is a fresh slot number when the free list is empty.
* `SlotsInFile`: the capacity doubles also when `set_len` fails, and then says more than the
  file has. A slot is recorded only after a write to it, which extends the file,
  and a fresh slot is at most one behind the last; so no slot in use
  is outside the file and no read panics, whichever calls failed before.
* `StoreSpec`: every step of the disk manager is a step of `PageStore`.
* `OthersUntouched`: a call, a failing first write and a read of a page nobody created
  included, leaves the content of other pages alone as long as no slot has been lost.
* `ListsMatchFrames`, `GhostsAreNotLoaded`, `SizesBounded`: what `evict` and
  `record_access` rely on and nowhere state. They hold as long as nothing is deleted,
  and so does that the last case of `record_access`, which tracks nothing, is unreachable
  (finding 3 is what happens after a delete).
* `CountCoversEvictable`: frames are counted again at each release, so the count is no less than
  the evictable frames and the subtraction of `evict` finds it above 0, until the
  increment itself has gone past 2^32 - 1.
* `FramePartition`: it makes `expect("evicted frame must have a page id")` true.
* `NoUpdateLost`: the content last given to a page is in its frame, on its way to
  disk, or on disk. It holds although `flush` may leave changed pages marked clean
  (section 4), and although a `flush` whose write has failed marks the page clean,
  because eviction writes the victim back whether it is dirty or not. The
  repository's README (`src/README.md:72`) says "flush it if dirty"; were the code
  changed to do that, updates would be lost, which is the mutation used. A write
  back that fails does lose the page (`buffer_pool.rs:172` ignores the answer):
  `latest` is then `Absent` and nothing is claimed of that page.
* `UnusedFramesAreEvictable`: a frame nobody uses is in `evictable_pages`. It may still be in no
  list of the replacer, which is finding 3. Whichever of several concurrent drops comes last
  reports the frame; a frame pinned again between `fetch_sub` and the load is
  reported by the later drop.
* `RequestsWaitForNobody`: a request for a page, or a delete, takes the lock of its frame with the latch
  held, and finds it free, whatever bytes are borrowed, as long as no frame has been
  evicted under a guard; finding 4 is what happens when one has. `flush_page` and
  `flush_all_pages` do wait for writers.
* `ReplacerSpec`: refinement of `ArcClient`. A page counts as loaded from the
  `record_access` of its first guard to its eviction, or its removal.
* `OneAnswerEach`, `ShutsDownLast`: a request is queued, or run, or answered, never
  two of these, so that the worker never sends to a channel nobody reads; once
  `None` is queued nothing is behind it and nobody waits.
* `CallStoreSpec`: each request takes effect at one moment between its call and its
  return, namely when the worker runs it.
* `SeparatorsBound`, checked in the middle of splits too, says why a binary search
  leads to the leaf; `PathReachesRoot` why clearing `path_stack` below a node with
  room is right; `Balanced` that no split leaves a node under half full;
  `LeavesChained` that a scan passes through each leaf once.
* `ParentHasLeft`: when a separator goes up, the page that was split is in the node on top
  of `path_stack`, in one slot, so `position(..).unwrap()` finds it. `InsertsAdvance`: each
  step of an insert lowers `StepsLeft`, which is `2h + 4` at most in a tree of `h` levels
  above the leaves. Whether the pool answers each call a step makes is another matter
  (finding 4).
* `ScanIsComplete`: a scan from key `k` delivers all records above `k` and at least one
  of `k`, in order. It may miss records of `k` itself: a split can leave duplicates
  on both sides of their key, and the search goes to the right.
* `StoreSpec` of the tree: each insert stores its record once, at one moment, and
  `find` returns a record of the key exactly if there is one. The abstract collection
  counts the records of all leaves, however they are reached, so this says that the
  leaf `find` descends to is the right one.

## 4. Findings

1. **A pinned frame is evicted** (`pool_pinned`). `drop` puts the frame in
   `evictable_pages`; making a new guard (`record_access`, `arc_replacer.rs:54`)
   does not take it out. The next eviction resets the frame under the guard. All
   pool properties about guards are therefore stated for behaviours in which this
   has not happened (`~stolen`); they say what would hold once it is repaired.
2. **A ghost hit panics** in a debug build (`arc_ghost_hit`): `arc_replacer.rs:83`
   computes `mru_target_size - 1` before it compares, and the target starts at 0.
   The replacer's mutex is poisoned, hence every later call fails. In a release
   build the target becomes 2^32 - 1 (run `arc` includes that).
3. **Requests fail after a delete** (`pool_victim`): `remove` returns early for an
   evictable frame, which the frame of a deleted page usually is. The stale entry that
   one delete leaves is enough, with one frame: two evictions later `mru` and its ghosts are past
   the number of frames, `record_access` tracks nothing and `evict().unwrap()` panics
   with every frame unused.
4. **An insert waits for itself** (`btree_on_pool`). `insert` holds the write lock of
   an internal node that splits (`b_plus_tree.rs:479`) while it asks for the new right
   node (`:501`). The pool may choose the frame of the node itself as its victim
   (finding 1) and then waits for its lock (`buffer_pool.rs:163`), in the thread that
   holds it and with the latch held. With the node sizes of the tests it happens at the
   64th ascending key.
5. **Two pages share a slot** (`disk_slot_shared`) after a read of a page without
   a slot, or a failed write, has taken a slot off the free list.

Smaller, and without a run:

* A page changed between the copy and the last store of `flush` is marked clean
  (`guard.rs:47-60`), and later calls of `flush_page` leave it. Eviction writes it back.
* `find` and `scan` on an empty tree panic (`find_in_empty`): the root's id in the
  header page is 0 then, which is the header page, an internal node without entries,
  and `find_child_index` subtracts 1 from 0. `src/README.md:101` says `find` returns
  "`Some((key, RecordId))` or `None`". In the nodes of a tree with records there
  always is a child index, which `SearchesAgree` says.
* `set_evictable` counts a frame again that is in the set already, so `curr_size` is
  an upper bound of the evictable frames (`CountCoversEvictable`) and not their number,
  as `arc_replacer.rs:23` says. It falls by evictions only and rises each time the last guard of a page is
  dropped, so a page used again and again brings it to 2^32, where `+= 1` panics in a debug build, with the replacer's
  mutex held, and wraps in a release build, where nothing reads it.
* `delete_page` of a page that is not resident changes nothing, so its slot is
  never freed.

## 5. Bounds and fairness

* **Disk manager.** Capacity 2 (16 in the code) and four pages: the capacity doubles
  at the first and at the third page, and every order of deleting and reusing
  slots among four pages occurs. `disk_any` has capacity 1 and three pages, so that it doubles
  at the first and at the second. `FileLengths` has the length `set_len` gives at the start, one
  without the slot more, and in `disk_any` a longer one; a shorter file makes `new` panic, which its
  assumption says. The theorems have no bounds.
* **Replacer.** Two frames is the least number with a choice of victim and with
  both lists occupied. Five pages fill the four entries two frames
  allow and leave one page that is in no list. `U32 = 9` exceeds four times the
  frames, so that lengths do not wrap, as in the code; the target wraps where the code's would, below 0, and so
  does `curr_size` at the top, after nine releases. `TypeOK` and the other
  properties are checked past that.
* **Pool.** One frame makes every load an eviction and every guard contend for
  the same frame: two guards and the flusher are three pins with every race
  of `drop`, `flush` and `data_mut`, also with a pool call. Two frames and three
  pages add the replacer's choice. Two contents distinguish a lost update.
  `USize = 4` exceeds the three pins by one. Page ids end at the bound: `new_page`
  is disabled after it; once every id is used and deleted nothing is left to
  call, so runs with deletes do not check for deadlock; `pool_pinned` does.
  The pool runs have the arithmetic of a debug build, where a wrap is a panic of the replacer
  and a step of its own in the pool; that of a release build makes the replacer's lists and target
  range further, as in `arc`, and the theorems about the pool hold for both.
  A failing write leaves any content of the page on disk.
* **Scheduler.** Two pages, so that a request can be for another page than the one
  being run, and three threads, of which two only write: the queue holds up to three
  requests, and the last owner is any of them. `CHECK_DEADLOCK FALSE`, because the
  system ends when the last `Arc` is dropped.
* **B+tree.** Nodes of two entries split at every third; with seven records, in every
  order of four keys with duplicates, the tree grows to five levels above its
  leaves, and the splits of leaves go up through split internal nodes to a new root,
  or stop at nodes with room. One record id: ids are only carried along. Key 0
  stands for `i64::MIN`, which is a key as any other. In `btree_on_pool` the frames are
  those of `BTree::new` and the node sizes those of the tests; the page ids suffice for
  64 inserts.
* **Symmetry** permutes guards in the safety runs only, which never distinguish them.
* **Fairness** is assumed of the scheduler only (`FairSpec`). The worker and each waiting client are
  weakly fair: a thread that can go on does, as `recv` and `join` block until there is
  something to receive and the worker has nothing else to wait for. Nobody has to make a
  request or to drop its `Arc`.
* **No liveness of pool and tree.** That every call of the pool ends is not true of the code:
  in finding 4 the thread that waits for a frame's lock is the one that holds it, and no
  fairness helps. `RequestsWaitForNobody` says what does hold, without fairness. Neither does every insert of the
  tree return, for the same reason; `InsertsAdvance` says that its own loops end.

## 6. What is proved

For every value of the constants that meets the named assumptions:

* `DiskManagerProofs`. With any calls and failures (`SpecAny`) slots get lost and the partition
  fails. The invariant `AnyInv` is `TypeOK`, `SlotsInFile` and `SlotsFit`, that the slots in use
  number at most the page capacity and at most the length of the file. `TypeOK` has that slots
  are below the capacity, which is why a `set_len` that works after others have failed cuts off no slot. None is
  inductive alone: where a fresh slot is in the file, or at its end, needs the count. Lemmas on popping, pushing,
  page tables and files come first; `Located` is what the common block of `read_page` and
  `write_page` does. Theorems: `TypeCorrect`, `SlotsStayInFile` and `CallsLeaveOthersAlone`, all
  over `SpecAny`. Over `Spec`, `IInv` adds `SlotPartition`: `SlotsStayPartitioned`, and `ImplementsPageStore` (each
  action maps to the abstract action of the same name; stuttering to stuttering).
* `DiskSchedulerProofs`. The invariant `IInv` is `TypeOK`, `OneAnswerEach`, `ShutsDownLast` and
  `Latched`, that only the pool's thread has a read or a delete under way. `OneAnswerEach`
  is about positions in the queue, so the lemmas say what appending and taking the
  head do to them. `ShutsDownLast` needs it: that nobody waits when the last owner
  drops the scheduler, and so that the queue is empty. `Latched` makes the page of a queued read still present
  when the worker comes to it, so that what it answers is a page's content, as `TypeOK` says of
  answers. (`CallStore` itself allows a read of any page.) Theorems: `TypeCorrect`, `RequestsHaveOneAnswer`,
  `ShutdownCutsNobodyOff`, `ImplementsCallStore` (scheduling is the abstract call, running it the
  abstract effect, receiving the reply the return; passing messages on stutters).
* `BufferPoolProofs`. The invariant `IInv` is `PoolShape` (types of the page
  table and the free list, and what some `pc` of `op` fix: during an eviction the
  free list is not empty, and the page to load is not resident until it is
  entered) and `FramePartition`. Guards leave these variables alone; each step of
  a pool call that moves a frame has a lemma. `VictimIsMapped` is the lemma that the frame the replacer
  names, whichever it is, holds a page, because at that point nothing is free and
  nothing in hand: the proof needs nothing of the replacer but that it returns a
  frame. So the second `expect` of an eviction cannot fail.
  Theorem: `FramesStayPartitioned`, with deletes and requests that fail.
* `BufferPoolProofs`, second part. Pin counts, the pages under guards and their contents depend on
  each other, so one invariant `GInv` has them all: `IInv` of the first part, `TypeOK`,
  `PinCountIsGuards`, `GuardsOnTheirPage`, `NoUpdateLost`, `UnusedFramesAreEvictable`, and what
  these need. That a deleted page has no guard is the pin count; that a load takes no frame
  from a guard is the pin count too, and that the frame loaded is in nobody's hand, the
  partition. `OpOrder` says what the running call has established at each step (the
  victim is alone on the free list, the page to load is on disk, the pages to flush stay
  resident); `OnlyMade` that pages not yet made are nowhere, so that `new_page` overwrites
  nothing; `DeletedIsForgotten` that nothing is claimed of the content of a page while it is deleted.
  As in the runs, the properties of pins, guards, contents and waiting are for behaviours in which no frame has been stolen
  from a guard (finding 1); `PoolTypeCorrect` and the refinements are for all. Constants: `USize` is
  larger than the guards that can pin a frame. Theorems, with deletes and
  failing requests: `PoolTypeCorrect`, `PinCountsAreExact`, `GuardsKeepTheirPage`, `UpdatesAreKept`,
  `UnusedFramesAreReported`, `RequestsNeverWait` (the frame a call copies, resets or loads is
  no page's by the partition, hence nobody's by the pin count) and `ReplacerIsUsedAsClient`, the refinement of `ArcClient`: `record` is
  an access or a load, an eviction an eviction, `drop_report` a release, `delete_remove` a
  delete, and all else leaves replacer and view alone. `ReplacerIsUsedWithoutRemoval`: a pool
  whose clients delete nothing implements `ArcClient` without deletes.
* `ArcReplacerProofs`, `ArcClientProofs`. The lemmas say what `retain` keeps of a list and what
  each method does to the lists, their entries and their lengths. The invariant `IInv` is
  `TypeOK`, `ListsMatchFrames`, `GhostsAreNotLoaded`, `SizesBounded` and that a page is in one frame
  at most. The sizes need the match of lists and frames: a miss drops a ghost, and that there is one to
  drop follows because the frame that is loaded is not listed. Theorems: `ListsStayMatched`,
  `GhostsStayUnloaded`, `SizesStayBounded` and `TargetIsSteered`, without deletes, because
  after one they are false (finding 3); `TypeCorrect`, with deletes. By `ReplacerIsUsedWithoutRemoval`
  they are about the replacer inside the pool as well. For the counter, `CountInv` adds to `CountCoversEvictable`
  that the evictable frames are frames, a finite set: a release adds at most one frame and counts one, and the
  victim of an eviction is in the set and leaves it. Theorems: `CountWrapsUpFirst`, with deletes,
  and `CountedCallsAreCalls`, that in a release build the counter changes nothing else.
* `BTreeProofs`. For any keys, any number of records and any node sizes (a leaf of one entry and
  an internal node of two at least). The invariant `IInv` adds to `PathReachesRoot` the `Shape` of nodes and of `call`,
  and that some assignment of levels to pages makes them a tree (`Leveled`): every node is one
  level above its children, and a path goes down one level with every page. Levels are what
  separates the page that is split from the pages above it on the path, so that the split leaves these
  as they are, full or not; they are an existential witness in the invariant, which every step but a
  split keeps, and a split extends by the page it adds. `NodesChanged` does the
  tree once for all steps; `VisitKeepsPath` is the way down, `SplitKeepsPath` the way up.
  Theorems: `SplitsFindTheirParents`, `NodesAlwaysFit`.
* `BTreeShapeProofs`. The invariant `TInv` adds to the previous one what the tree is, each part
  with the witness that makes it local to a node. `HasRanks`: a number for each page, 0 at
  leaves, one more than its children's elsewhere, largest at the root; ranks are the
  heights, and with `HalvesKept` and `Forked` give `Balanced`. `OneParent`: a page is the child
  of one entry, and the new half of a split not yet of any, so that a changed node changes the tree in one
  place. `HasOrder`: a range of keys for each page, which the entries of a node divide among its
  children; the entry being inserted is in the range of the page it has reached, and the
  separator on its way up in that of the page it goes to. Ranges are what an insert can keep:
  `SeparatorsBound`, which is about the records below a page, follows from them. `LowestKept`, in
  `HasOrder`, is what duplicates leave of a strict order: where the range of a leaf begins that another one
  links to, there is a record in it. `Rooted`,
  `Linked`, `CallShape` and `Answered` are the root, the links of leaves, and what a call
  has in hand. Each step is first shown to be one of a few changes of pages
  (`StepKinds`), and each part of `TInv` is shown for each kind.
  For the loops of `insert`, `OneParent` gives the one slot of `ParentHasLeft`, and a split keeps the
  ranks of the pages there were (`RanksKept`), so that `StepsLeft`, written with ranks, falls.
  Theorems: `TreeAlways` (`TInv`), `TypeCorrect`, `TreeStaysBalanced`, `SearchesStayRight`,
  `SeparatorsStayBounds`, `ParentsHaveLeft`, `InsertsGoOn`.
* `BTreeChainProofs`. The invariant `CInv` adds to `TInv` three parts. `Reached`: every page but the root
  is a child, or the page the separator leads to. `HasChain`: for each page its first leaf and the
  link that leads past its last leaf, with which the chain can be stated node by node, and a split
  changes it in one place, as it does ranks and ranges. `ScanOn`: what a scan has delivered is,
  record for record, what the leaves from `LeafFor` of its key up to its next page hold.
  From the first two follows `IsChain`, that `LeavesUnder` the root has each leaf once with its link to
  the next; the ranges of neighbours in it touch (`NextInOrder`), hence `LeavesChained`. `CoverHasKey`: if any leaf has
  a key, the leaf whose range covers the key has it, by `LowestKept`; this is what `find` and the begin of
  a scan rely on. Counts of equal records are compared by bijections between positions
  (`CountsMatch`, `Match`). For the refinement, `EntryStored` gives the bijection between the records after a leaf has
  taken an entry, split or not, and those before with the new one, through the permutation that is the sort.
  The mapping: `insert` is `Call`; `insert_first`, `split_leaf`, and `insert_leaf` if there is room, are `Store`;
  `propagate` and `grow_root` are `Return`; `find` is `Find`; all else stutters (`split_internal`
  and the way down are not seen by a client).
  Theorems: `ChainAlways` (`CInv`), `LeavesStayChained`, `ScansAreComplete`, `ImplementsKeyStore`.

Recursive functions (`Retain`, the binary searches, `LeafFor`, `Height`, the leaves below a page) are
dealt with in two steps, as the library's induction theorems cannot be used: a lemma that
a function with the defining equation exists, and a property of its values, each by taking the least
argument, or number, for which it would fail (`Least`, `LeastNumber`, from `WFMin`).

Assumptions are those named in the modules: the constants have their types, `U32` and `USize` exceed
what is counted with them, markers such as `NoPage` are not pages, a leaf holds one entry and an
internal node two at least, `None` is not an insert that is under way. TLC evaluates all of them.

Model-checked only: the liveness of the scheduler (`RequestsAnswered`, `DropReturns`), which with
fairness and `ENABLED` is out of the prover's reach; and the findings. Every invariant, action property and refinement
that a passing run checks is the statement of a theorem. The witnesses in the invariants
(`HasRanks`, `HasOrder`, `HasChain`) are functions whose existence TLC cannot enumerate; what the
runs check are the properties that follow from them.

## 7. Not modelled, and why

* `num_writes`, `num_deletes`, `timestamp_access`, `dirty_pages`: written, and read by tests only or never.
* A first write that fails in `new_page` of the pool: the id it returns has no slot
  (`buffer_pool.rs:67`). What follows for slots is in `DiskManager` (`write_page_err`,
  finding 5); the pool would read a page of unspecified content.
* A worker that panics on a request with less than a page of data, which no
  caller sends, and one that panics because the disk manager's mutex is poisoned,
  which needs such a panic before.
* A file that `new` finds shorter than the capacity after a failing `set_len`: it panics before
  there is a disk manager. `file.flush()` at the end of `write_page`, which does nothing for a `File`.
* A restart: the code forgets the slot of every page when it starts
  (`disk_manager.rs:52`), has no recovery and promises nothing.
* One guard's bytes borrowed twice at a time: the borrow checker allows several
  `data()` at a time of one guard, which are all readers of the same lock.
* `next_page_id` wrapping after 2^32 pages, and `curr_size` inside the pool: it is in `ArcCounting`, and
  `BufferPool` does not have the panic of its increment after 2^32 releases.
* The bytes of nodes and pages: `BTree` keeps nodes as decoded, and `BTreeOnPool` asks
  about locks only, so that what an evicted frame loses of a tree is not shown; that
  frames in use are evicted is finding 1.
* The tree has no `delete`. `main.rs` makes five calls that the pool's runs contain.

## 8. Plan

Order, most important first; all are done.

1. `PageStore`, `DiskManager`, with refinement. *Done, proved, with every call and failure, of `set_len` too.*
2. `ArcReplacer`, `ArcClient`, `ArcCounting`. *Done.*
3. `BufferPool` over `ArcReplacer`, refinement of `ArcClient`. *Done.*
4. `FramePartition` for every size. *Done.*
5. `BTree`, refinement of `KeyStore`. *Done.*
6. `DiskScheduler`, refinement of `CallStore`, liveness; failing requests in
   `BufferPool`. *Done, the safety part proved.*
7. `BTreeOnPool`. *Done.*
8. Proofs. *Done*: the safety properties and refinements of disk manager, scheduler, replacer, pool and
   guards, and tree. Left: liveness of the scheduler, if a prover for `ENABLED` is at hand.
