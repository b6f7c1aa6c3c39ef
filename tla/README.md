# Specifications of uestc-postgraduate

TLA+ models of the programs in this repository, checked with TLC, and theorems
about them, checked with TLAPS. The repository collects independent course
projects; each is a system of its own here. Paths below are relative to `src/`.

## 1. The systems of the repository

| system | state | operations | what is hard |
|---|---|---|---|
| `heap-allocator` (C++, a small tcmalloc) | thread caches, central cache, page cache, radix tree, spans and their blocks | `MyMalloc`, `MyFree` from any thread | three levels of mutexes, a lookup without one, memory that is unmapped and mapped again, size arithmetic |
| `geekGFS` (Go, a small GFS) | the master's files and chunks, the chunk servers' files, backups on disk | create, list, write, read, append, delete | handlers without a lock, clients that drive three replicas, dropped errors, a backup that lacks data |
| `linux-advanced-programing/final` (C++) | menu and stock of two ordering servers, the copy each keeps of the other's | edit the menu, order, send, receive, take over | four threads without a lock, a byte stream without messages, fail-over |
| `os-lab/code/lab4-tiny-driver` (C) | what the kernel has registered, a buffer per open file | load, unload, open, read, write, release | undoing half an initialisation |
| `linux-advanced-programing/code1..4`, other labs | next to none | | nothing: straight-line exercises around one library call |

Vendored and generated code (jsoncpp, googletest, protobuf output, Linux files)
is left aside. `PROJECT.json` lists every component with its files and whether
it is modelled.

What makes each of them correct:

* **heap-allocator.** No two blocks that callers hold overlap; each is as long
  as was asked for; what is freed becomes available again; every span is in
  one place and goes back when its last block does; the unlocked lookup finds
  the right span for every block; a mutex is given back by the call that took
  it, and calls return.
* **GeekGFS.** What a client wrote is what a later read returns; no file's data
  gets into another; the master survives every request; its handlers, which
  share maps without a lock, do not spoil each other's files; every command
  ends.
* **ordering servers.** The last menu saved is, in the end, the one the other
  server keeps; when one server fails the other opens a shop under its name,
  and with the last menu it was sent; no customer is shown the wrong dishes;
  menus, orders and prices come in turn. (The last
  menu is not always the one that is kept, nor the one that the second shop
  opens with: section 6.)
* **driver.** After a failed load or an unload nothing stays registered.

## 2. Plan

The allocator comes first: it is the largest program, it is concurrent, and
its correctness rests on invariants that no test of the repository looks at.
Then the two distributed programs.

| stage | modules | state |
|---|---|---|
| 1 | `AllocatorSizes`, `SizeLaws`, `SizeProofs`, `SizeLawProofs`: the arithmetic | done, proved |
| 1 | `SpanPool` (abstract), `PageCache`, `PageCacheProofs` | done, proved |
| 1 | `MemoryService` (abstract), `HeapAllocator`, `HeapProperties`, `MCHeap` | done |
| 2 | `GfsMetadata`, `GeekGFS`, `GfsProperties`, `GfsCommands`, `MCGeekGFS`: clients, master and chunk servers together | done |
| 2 | `FileService` (abstract), `GfsRefinement`, `MCGfsRefinement`, `GfsServiceProofs`: files are atomic | done, proved |
| 2 | `GfsIsolation`, `GfsIsolationProofs`: files stay apart | done, proved |
| 2 | `GfsMasterTable` (abstract), `GfsMasterRaces`, `GfsMasterProperties`, `GfsMasterProofs`, `MCGfsMaster`: the master's handlers without a lock, and the backup | done, proved |
| 2 | `OrderServers`, `OrderProperties`, `MCOrders`: both servers and their customers | done |
| 2 | `OrderDishes`, `OrderProofs` | done, proved |
| 3 | `HeapBlocks`, `HeapSafety`: the composed allocator, its block invariants, that everything is given back and that it implements `MemoryService` | done, proved |
| 3 | the single writes of `RadixTree::Insert` against `GetValue`; `ChunkList` as nodes and pointers | open |

## 3. The allocator: modules and code

```
 SizeLaws ──> AllocatorSizes <── HeapAllocator ──> PageCache ──> SpanPool (promise)
    ^               ^                ^                 ^
 SizeLawProofs ─> SizeProofs         │                 │
                    ^                │                 │
 MemoryService (promise) <── HeapProperties            │
                    │                ^                 │
              MCHeap ──────────> HeapBlocks            │
                    │                ^                 │
                    └────────── HeapSafety ──> PageCacheProofs
```

**`AllocatorSizes`** (`util/util.cpp`, `util/util.h` and the arithmetic inside
`heap-allocator.cpp`, `thread-cache.cpp`, `central-cache.cpp`): `CeilMemSize`,
`Size2Slot`, the two dispatches (`MallocRoute`, `FreeRoute`), the page counts
of the three branches and how `Span::Split` cuts a span. The page count of the
third branch is an `int` (`ToInt`, `kIntMax`), which huge requests overflow:
`IntAssumption` keeps the composed allocator below that (section 6 says what
lies above). Every number of `util.h` is a constant, so `SizeLaws` checks the
operators on the real values and `HeapAllocator` uses the same operators on
small ones.

**`PageCache`** (`page-cache.cpp`). A span is named by its first page. State:

| TLA+ | code |
|---|---|
| `pc_span_lists_`, `list_latch` | `pc_span_lists_[n]` and the mutex of each `SpanList` |
| `latch_` | `PageCache::latch_` |
| `radix_tree_` | the map that `RadixTree` implements |
| `page_num_` | `Span::page_num_` in the header; 0 where no header is |
| `mapped`, `foreign` | what the kernel has mapped for spans, and for others |
| `lent` | which spans callers have (known to no variable of the code) |
| `call` | the program counter and the locals of each thread's call |

A call is cut where another thread can come between: at each `lock` and
`unlock`, at each insertion into the radix tree, and between the test of a
list's length and the insertion that relies on it (`ListHasRoom`, `PutBack`),
so that it is the mutex, and no step of the model, that keeps the bound.

| action | code in `page-cache.cpp` |
|---|---|
| `DistributeSpan`, `LockListToDistribute` | 13-18 |
| `ListIsEmpty`, `TakeSpan` | 20-22, 23-25 |
| `LockToMap`, `MapSpan`, `MapFails`, `Register` | 35-48 |
| `TakeBackSpan`, `LockListToTakeBack` | 55-57 |
| `ListHasRoom`, `PutBack` | 59, 60 |
| `LockToUnmap`, `UnmapSpan`, `EndTakeBack` | 61-65, 72-78 |
| `ForeignStep` | `mmap` and `munmap` by the rest of the process |

**`HeapAllocator`** (`heap-allocator.cpp`, `thread-cache.cpp`,
`central-cache.cpp`, class `Span`) extends `PageCache` and calls its actions:
`FetchSpanFromPageCache` contains `DistributeSpan`, then the page cache's own
steps run (`Inside`), then `SpanFetched` contains `Return` and everything the
thread cache does before it touches shared state again. `op` is the program
counter of `MyMalloc` and `MyFree`. Memory is `NPages` pages of `kPageSize`
addresses; a block is its address. `MyFree` reads the radix tree in the step in
which the caller gives the block up, and the header in the next one
(`FoundSpan`), because no lock protects either.

What the C++ standard leaves undefined is not explored: a call that would
follow a null pointer or use memory that is no span as one goes to `undefined`
and the model stops; `NothingUndefined` says whether that happens. Likewise
`killed` where the result of `mmap` is not tested and memory has run out.

**`SpanPool`** and **`MemoryService`** are what callers rely on: a pool that
lends disjoint spans of the asked length, and `malloc`/`free` over a range of
addresses. `PageCache` and `HeapAllocator` are checked, and proved, to implement
them (`ImplementsSpanPool`, `ImplementsMemoryService`).

**`HeapBlocks`** states why: the inductive invariant `HeapInv`, in parts that
say what spans, lists, held blocks and calls under way know of each other, and
`ReturnInv`, why everything is given back in the end. It also names what callers
must keep to (`CallersAssumption`): no size that is
given back to another place than it came from, and no thread that frees another
thread's block of a thread cache; and `IntAssumption`, that the pages of each
request fit into an `int`. Section 6 shows what happens to those who do
not.

**`SizeLaws`** instantiates the operators with the numbers of `util.h`; its
state is one request, a step asks for one byte more. `SizeLawProofs` proves the
same of every request.

Abstractions: lists of spans and of blocks are sets, so every order is
explored that the code's lists could be in, and more; the radix tree is a map
plus the question whether a last node exists (`HasNode`); the memory of the
thread cache objects, which is never unmapped, is not among the pages; `float`
in `central-cache.cpp:30` is exact for the sizes that reach it.

## 4. GeekGFS: modules and code

```
                         GfsMetadata
                     ^                ^
   MCGeekGFS      GeekGFS       GfsMasterRaces ──> GfsMasterTable (promise)
       │          ^      ^            ^
       ├──> GfsProperties │    GfsMasterProperties <── MCGfsMaster
       │          ^       │           ^
       └──> ...   │       │    GfsMasterProofs
                  │       └── GfsIsolation <── GfsIsolationProofs
           GfsRefinement ──> FileService (promise)
                  ^
           GfsServiceProofs
```

**`GfsMetadata`** (`metadata.go`, `file.go`, `chunk.go`): the operations on one
`File` object. A Go map is a function, a nil pointer is a key that is not in
its domain, a generated uuid is a natural number never used before.

**`GeekGFS`** (`client.go`, `masterserver.go`, `chunkserver.go`).

| TLA+ | code |
|---|---|
| `files` | `MetaData.Files` of the master |
| `masterUp` | whether the master's process runs |
| `disk[s][h]` | the file that chunk server `s` keeps for handle `h` |
| `proc[c]` | a client process: its command, the calls it still makes (`todo`), what it has read (`got`) |

| action | code |
|---|---|
| `Start`, `Return` | a user runs one command of `client.go`; its end |
| `GiveUp`, `Leave` | a call fails or exceeds the second of its context: the client drops the error, uses the nil reply and dies; the call may be served later or never |
| `CreateFile`, `ListFiles`, `WriteFile`, `ReadFile`, `AppendFile`, `CreateChunk`, `DeleteFile` | the handlers of the master, each with its nil pointers (`Panic`) and with what the client does with the answer |
| `Create`, `Write`, `AppendTo`, `Read`, `GetChunkSpace` | the handlers of a chunk server, and what the client does with the answer |
| `RestartMaster` | the master starts with an empty table: nothing reads a backup |

A handler is one step here. What the code does beside its comments is kept:
`CreateChunk` enters the chunk under the handle of the caller, `Write` does not
truncate, a read takes a server's error message for data, a chunk that a write
adds at the master is created nowhere. The messages join their fields with
`'|'`, and `strings.Split` ends a field at the next one (`UpToBar`): of data with
a `'|'` the master counts, and a chunk server stores, what is before it. Data
may contain it. Paths may not (`PathAssumption`): the code would take a write to
`p|q` for one to `p`, and bytes would cross files, so that `FilesStayApart` is
false of such paths.

**`GfsMasterRaces`** cuts the master's handlers at each access to what they
share (the maps, the handle slices, the pointers found earlier) and runs the
backup (`Storage`, `json.Marshal`) beside them. An assignment to
`file.ChunkHandleSet` is a load (`LoadHandles`) and a store (`Cut`, `ListHandle`),
between which others may store theirs. `Fatal` is the end of the process that
Go's runtime brings about when it sees two accesses to one map; it may see them
or not. It also stands for a slice that is read while it is assigned, pointer
and length of which may then not fit. Beyond this a slice is a value, its
handles: that two appends to one array may write to the same place of it, which
depends on its capacity, is left out, and so is what a map is after two writes
that the runtime has missed.

**`FileService`**, **`GfsMasterTable`**: what users expect of the file system
(one file each, commands that work at most once and atomically), and what
`GeekGFS` assumes of the master (a request works on one file at one moment).
Both are checked and proved, the first for `GeekGFS`, the second for
`GfsMasterRaces`, so that the two levels of detail are connected. Both are promises
with limits, which are part of what they say: `FileService` holds where writes replace whole
chunks and appends fit, and excuses commands that meet a deletion;
`GfsMasterTable` holds for the files that one request works on at a time.

Abstractions: a byte is one of a few letters; errors of the disk are left out;
the logs and the generated RPC code are left out (a call is served once,
late, or never).

## 5. The ordering servers: modules and code

**`OrderServers`** (`server.cpp`, `worker.h`, `main_server.cpp` of both
servers, `main_client.cpp`).

| TLA+ | code |
|---|---|
| `server[p]` | what the threads of a process share (`flag_`, `flag2`, the text to send) and its files (`file` is `data.json`, `copy` is `another-server.json`), its console's and its sender's progress |
| `wire[p]` | menus on their way to `recvData` of `p` |
| `shop[s]` | a `Server` object as customers meet it: its menu, the order thread, the queue of connections; port `backup` is the one that opens when the other server is gone |
| `customer[c]` | a client process |

| action | code |
|---|---|
| `Choose`, `Change`, `Announce`, `Assign` | the console: delete, add, update or show, then `saveData` and `writeJsonFile`, cut between `flag_` and the text |
| `Connect`, `TakeFlag`, `SendMenu` | `sendData` |
| `ReceiveMenu`, `HangUp` | `recvData`: everything that has come is read at once |
| `OpenBackup` | `start` |
| `Accept`, `ShowMenu`, `TakeOrder`, `CloseConnection` | the order thread of a shop; a number that was sent is taken, though its customer may be gone |
| `Visit`, `ReadMenu`, `Order`, `ReadPrice`, `Leave` | the client |
| `EndVisit`, `GoOn` | the end of its connection: `recv` returns 0, and it ends; or -1, which is no `size_t` below 1, and it goes on with what its buffer holds |
| `Crash` | the end of a process at any moment, from outside or by its own doing |

`NoMenu` stands for bytes that are no menu: nothing yet, or a string read
while another thread assigns it. A menu read or counted down while the console
changes it gives any of: the old menu, bytes that are no menu, a decrement that
is lost, the end of the process (`Crash`). `ReceiveMenu` takes all menus that have
come and keeps the first, as the code writes its buffer up to the first NUL.

Abstractions: a dish has its name and stock; prices and the customer's money
are left out. Both servers begin with each other's file. Operators enter
indexes that exist and customers numbers that they were shown. A message is
not torn. A process that has ended is not started again, ports can be bound.

## 6. What the runs check

| run | instance | distinct states | what it shows |
|---|---|---|---|
| `sizes` | the numbers of `util.h`, requests -200 .. 530000 | 530201 | blocks fit, every index is in its array, a central span holds one block, thread spans two or more; exactly which requests are given back to another place, and for which the assertion fails |
| `page_cache` | 2 threads, 4 pages, spans of 1, 2 and (refused) 4 pages, lists of 1 span, 1 page of others | 244707 | spans are in one place and partition the mapped pages, lists are bounded, mutexes match calls, lent spans are stable, calls return, `SpanPool` is implemented |
| `heap` | 2 threads, 4 pages of 12 bytes, requests of 5 and 12 bytes, 3 blocks | 52220 | spans of one length pass between the thread caches and the central cache |
| `heap_mixed` | 2 threads, 4 pages of 15 bytes, requests of 6, 15 and 27 bytes, 3 blocks, freed by any thread | 606564 | pages come back in spans of another length and in blocks of the system; everything is given back |
| `gfs` | 2 clients, 4 commands of `MixedCommands`, 2 files, chunks of 2 bytes, 2 servers, 2 replicas | 252381 | no bytes get from one file into another, every command ends, through nil pointers and restarts of the master |
| `gfs_service` | 2 clients, 4 commands of `FittingCommands`, chunks of 3 bytes, calls fail, arrive late or never | 611847 | `GeekGFS` implements `FileService` |
| `gfs_master` | 2 handlers, 4 requests or backups, writes of up to 2 chunks; two requests at a time on `p`, one on `q` | 1561894 | what stays true without a lock: no handle is listed twice, files with one request at a time are atomic; the backup has the files that were left alone |
| `orders` | both servers, 2 changes of a menu, 1 customer, 1 order, one dish each | 978998 | the second shop opens, nobody is shown the other server's dishes, and menus and prices come when the client waits for them |

The numbers of the `heap` runs are the code's, scaled down so that each branch
is reached with four pages; `AllocatorSizes!SizesAssumption` states what both
sets of numbers satisfy. Two threads and lists of one span suffice for each
hazard of `page-cache.cpp`: a full list, a list emptied between test and use, a
span unmapped while another is mapped, pages that come back in a span of
another length. Three blocks let one span hold blocks of two owners while a
second span is in flight. Four commands on a file are a creation, an append
that spills or a write that grows, a deletion or a shorter write, and a read
that meets what they left; two clients let any of them stand between two calls
of another. Replicas and servers matter only as "the first" and "another". Two
handlers are the least that race; a third adds no access that two do not make.
Two changes let one menu overtake another, on the wire or between flag and
text. The alphabet of `gfs` has the `'|'`. In `heap_mixed`, `gfs_master` and
`gfs_service`, which check no liveness, threads, handlers or clients are
interchangeable (`SYMMETRY`).

`NPages`, `MaxLent`, `MaxBlocks`, `MaxForeign`, `MaxCommands`, `MaxRequests`,
`MaxChunks`, `MaxChanges` and `MaxOrders` are bounds of the models; when pages
run out the model takes the code's path (`MapFails`). `CHECK_DEADLOCK FALSE`
stands where these bounds end a behaviour.

**Fairness.** *Allocator*: weak, per thread, over the steps of a call under
way, because a running thread is scheduled; no call has to begin. `std::mutex`
is not fair, so no thread is promised a mutex that others keep taking;
`PageCallsReturn` and `CallsReturn` therefore say that once no more calls
begin, all return. *GeekGFS*: weak, per client, over the steps of its command,
because every call ends after the second of its context with an answer or an
error, and the client's loops end with their calls; users need start nothing
and nobody need restart the master (a call to a dead master fails).
*Ordering servers*: weak for `recvData` and for `start`, two threads that run
whatever the others do; nothing is assumed of the console, the sender, the
order threads or of people. Safety, and everything that is proved, needs no
fairness.

**Runs that end in a violation** show where the code departs from what its
comments or messages say (`findings` in `PROJECT.json`):

| run | what happens |
|---|---|
| `free_stale` | a block of the system lies on pages that a span had: the lookup finds the span that is gone |
| `gfs_grow` | a write of more than a chunk loses what is behind the first chunk |
| `gfs_panic` | an append that spills, a shorter write, a read: the master ends |
| `order_copies` | the sender takes the old menu and clears the flag of the new one, which is never sent |

Further departures, met while modelling and not runs of their own:

* *The page count of a huge request overflows its `int`* (`heap-allocator.cpp:51`):
  from 2^32 pages on `MyMalloc` returns a block that is shorter than the request.
  With `kIntMax = 127` (an `int` of 8 bits, as TLC has no numbers of 2^43) and
  `MaxRequest = 1060000` in `SizeLaws.cfg`, `SystemBlockIsLong` fails.
* *What is behind a `'|'` in written data is lost*, and the chunk server reports
  success (`chunkserver.go:135`, `:167`). With `Command <- BarredWrites` and
  `GFSChunkSize = 3` in `GfsGrow.cfg`, where the data fits into a chunk,
  `WriteReadsBack` still fails.
* *An update of a handle list is lost* (`masterserver.go:186`, `:212`): a creation
  loads the list, a shorter write cuts it, the creation stores what it loaded,
  and a handle without a chunk is listed; the next read follows a nil pointer.
  With `Path = {"p"}`, `Ops <- CreateAndWrite`, `MaxRequests = 3` and
  `MaxChunks = 1` in `GfsMaster.cfg`, `ListedChunksExist` fails.
* *The newer of two menus is lost* when one `recv` returns both (`worker.h:201`),
  and the second shop opens with the older. `order_copies` ends in a shorter
  race, but `CopiesAgree` fails through this alone once the flag is set after
  the text and the text is read whole; it holds if, in addition, `ReceiveMenu`
  keeps the last of the menus.

A request of 65473 .. 65535 or 524161 .. 524223 bytes is given back to another
place than the one it came from, and the assertion of `central-cache.cpp:17` fails for
65536: `MisroutedWindows` and `AssertionFailsAtThreshold` say that it is
exactly these. With `CrossThreadFree = TRUE` in `Heap.cfg` (and module
`HeapProperties`, which does not assume otherwise) a block freed by another
thread puts its span in two thread caches (`BlocksInOnePlace`); with
`kNodePages = 1` in `FreeStale.cfg` the lookup follows a missing node
(`NothingUndefined`). After a shorter write the tail of the old data stays, two
appends at once overfill a chunk, and a failed call leaves replicas that
differ: `GfsRefinement` leaves the first two out by `FittingAssumption`, and asks
the first replica. The backup of the master lacks the locations and is never
read (geekGFS's README excludes metadata locks, replication and master
fail-over from the exercise, so none of this is listed as a bug). A client
whose `recv` returns price and menu together waits for ever, and so does the
shop (`ReadPrice`). Orders change the stock in memory only: no copy is sent
until the console saves.

The `heap` runs that pass avoid exactly the departures above: `Requests` has no
misrouted size, every page has a last node, and threads free each other's
blocks only in the central cache and of the system (`heap_mixed`). There the
lookup can find a span that is gone; the model stops there, and the run is
about all executions in which that never happens.

## 7. What is proved

Every theorem holds for all values of the constants that satisfy the named
assumptions, and uses no fairness.

### The page cache

For every number of threads, pages, lists and spans, from
`PageCacheAssumption` (the bounds are natural numbers, no caller asks for a
span of 0 or of `kPCSpanListNum` pages, `nobody` and `null` are not a thread and
not a page).

| theorem | module | says |
|---|---|---|
| `TypeCorrect` | `PageCacheProofs` | `PCSpec => []PCTypeOK` |
| `InductiveInvariant` | | `PCSpec => []IInv`, from which the next six follow |
| `MutexesCorrect` | | a mutex is held exactly by the call between its lock and its unlock |
| `PlacesCorrect` | | every span is in exactly one place |
| `PartitionCorrect` | | the spans divide the mapped pages among them |
| `LookupCorrect` | | the unlocked lookup finds the span of every page that is lent or cached |
| `BoundCorrect` | | the lists are bounded |
| `LentSpansStable` | | no other call touches a lent span (an action property) |
| `ImplementsPool` | | `PCSpec => Pool!Spec` |

*The type invariant* is not inductive by itself: that `TakeSpan` keeps
`pc_span_lists_` a function needs that the length in a call under way indexes a
list, and that `PutBack` does needs the same of the length in a header.
`TypeInv` adds both.

*The rest* is one invariant, `IInv`, because none of its parts is inductive
alone:

* `EndTakeBack` gives the mutex back under the length the call has read
  (`page-cache.cpp:56-64`), which is the right one only if nobody has changed
  the header since: that needs that no other call works on the span
  (`SpanInOnePlace`).
* `MapSpan` must not take a first page that is a span's: that needs that the
  spans' pages are mapped (`SpansPartitionMapped`), and this in turn that
  `UnmapSpan` takes away no page of another span.
* `Register` overwrites the entry of one page: no lent span loses it because
  spans do not overlap; and when the last entry is written the others must be
  there (`CallKnows`: what a call has registered so far).
* A cached span has a length (`pc_span_lists_[0] = {}`), so that its page is
  not free for another.

TLC finds no violation of `IInv` either, on the instance of `page_cache` (with
`INVARIANT IInv` and module `PageCacheProofs`). The proof
handles the ten steps that move no span with one lemma (`QuietStep`) and has
one lemma for each of the other six.

*The refinement* adds nothing to the invariant: `DistributeSpan` is `Ask`,
`TakeSpan` and the last `Register` are `Lend` (`LendStep`: the span is disjoint
from all lent ones by the partition), `TakeBackSpan` is `GiveBack`.

### The whole allocator

For every number of threads, pages and blocks and any requests, from
`PageCacheAssumption`, `SizesAssumption`, `HeapAssumption`, `PagesAssumption`
(the page cache has a list for every length that the two caches ask for, which
`IndexesInArrays` proves of the real numbers), `SpansAssumption` (a span of a
thread cache holds two blocks or more: `ThreadSpansHoldBlocks`),
`CallersAssumption` and `IntAssumption` (requests below 8 TB: without it
`ImplementsService` is false).

| theorem | module | says |
|---|---|---|
| `HeapInvariant` | `HeapSafety` | `Spec => [](IInv /\ HeapInv)`, from which all others follow |
| `HeapTypes` | | `[]HeapTypeOK` |
| `EachBlockInOnePlace` | | each block is free, held or being freed, and only one of these |
| `LookupIsRight` | | the unlocked lookup finds the span of every held block |
| `SpansAreListedOnce` | | a span with a free block is in one list, that of its size |
| `CutExactlyWhileLent` | | what is in the page cache is whole |
| `CentralMutexes` | | the mutex of a central list is with the call between its lock and its unlock |
| `HeadersStable` | | the header of a held block's span does not change (an action property) |
| `CachesNeverUndefined` | | no call uses a null pointer or other memory as a span, if no request goes to the system |
| `PageCacheInsideIsPool` | | the page cache is a `SpanPool` inside the allocator, too |
| `EverythingIsGivenBack` | | when no block is held and no call under way, every span is in the page cache, whole, and no page is mapped for anybody else |
| `ImplementsService` | | `Spec => Service!Spec`: returned blocks lie in memory, are long enough and overlap none that is held |

*The page cache first.* The proofs about `PageCache` are about `AnyStep`: its
own steps, and steps in which others map or unmap pages that are not its own.
`PageStep` shows that every step of the allocator is one of these or leaves the
page cache alone; it needs that a call asks for a length the page cache has
(`SizeKnown`) and that the pages of the third branch are not those of spans. So
`IInv` holds of the whole allocator.

*Then `HeapInv`*, the parts of which need each other:

* A block that is given out must be in nobody's hands. It comes from the free
  list of a cut span (`SpansCut`: the list is part of the blocks) or from a span
  that has just come, of which nobody has a block, because held blocks are in
  cut spans or in pages of the system (`HeldBlocks`, `SystemBlocks`) and a
  lent span that is not cut is in the hands of one call (`FetchedWhole`).
* A block that goes back was cut from the span that `MyFree` found
  (`FreedBlock`), although the lookup took no lock and the header is read a step
  later: the caller held the block, and while it is held or being freed its span
  cannot be full, so that nobody gives the span back.
* `IsFree` counts. That the count is reached only when all blocks are back needs
  that the list has no block twice and none of another span, and that blocks of
  one span have different addresses (`AllFree`).
* A thread cache changes its lists without a lock. That this is safe is
  `SpanListed`: a span of a thread cache has one owner, all blocks of it are in
  the hands of that thread (`OnlyIn`), and it is listed exactly while it has a
  free block. This is where `CallersAssumption` is needed.
* A span is found in the list under the size in its header, which is the size
  that was asked for (`BlockSizes`), and the route back is the route out.

*`ImplementsService`* needs, beside the invariant, that a block of a span ends
before the next one begins and within the pages of the span (`BlocksApart`,
`SpanHasRoom`), that the header in front of a block of the system is among the
pages that were mapped for it (`SystemHasRoom`), and that lent spans and pages
of the system are disjoint. `calls` of the service is a function of `op`; a step
that returns a block is `MallocReturns`, the steps inside a call stutter.

*`EverythingIsGivenBack`* needs an invariant of its own, `ReturnInv`, on top of
`HeapInv`: a span that is cut has a block in somebody's hands. A span is given
back with its last block, so what could go wrong is that this is missed.
`TakeBackMem` of the thread cache looks whether the list is full only where the
list was not empty before; the first block that comes back is put into the
empty list without looking. So a span of one block would stay for ever, and the
invariant must say that a thread cache's span has two (`SpansOut`); when it is
cut this follows from its length, which is why `ReturnInv` also says that a span
on its way to a thread cache has the length it asked for (`FetchedLength`). Of
the third branch it says that each page that is mapped for others belongs to a
block of the system and that somebody has that block (`SystemOut`).

TLC finds no violation of `HeapInv` and of `ReturnInv`, either, on the instances
of `heap` and `heap_mixed`.

### The sizes

For every request of any length, from the numbers of `util.h` (which satisfy
`SizesAssumption`, `PageFitsAssumption` and `FetchAssumption`; only these, and
no number, are used).

| theorem | module | says |
|---|---|---|
| `BlocksFit` | `SizeLawProofs` | the block is long enough for the request and for the links of a free block; rounding its size again changes nothing |
| `IndexesInArrays` | | every list that the code indexes by a size or a page count exists |
| `CentralSpansHoldOneBlock` | | a span of the central cache holds one block |
| `ThreadSpansHoldBlocks` | | a span of a thread cache holds two blocks or more |
| `OnlyTheWindowsAreMisrouted` | | the requests that are given back elsewhere are exactly those that rounding lifts over a threshold |
| `AssertionFailsOnlyAtThreshold` | | the assertion of `central-cache.cpp:17` fails for the threshold and for nothing else |
| `SlotsSeparate` | | a longer request has the same slot exactly when it has the same block size (an action property) |

`SizeProofs` says what a block size is (`IsBlockSize`: a multiple of the small
alignment below `kAlign`, of `kAlign` above) and that `CeilMemSize` returns the
least one that is no less than the request. The slot is a quotient by the same
alignment, so that it tells block sizes apart; both thresholds are block sizes
themselves, so that rounding crosses them only from the last interval below.
Division needs care: Z3 knows nothing of `a \div b` for a constant `b`, so the
lemmas bound it by products (`DivBounds`, `NextMultiple`) and use only these.

### GeekGFS

| theorem | module | says |
|---|---|---|
| `IsolationInvariant` | `GfsIsolationProofs` | `Spec => []Isolation`: every handle belongs for good to one file |
| `FilesStayApart` | | `Spec => []ReadsOwnData`: a read returns bytes of its own file, or a server's message |
| `ImplementsFiles` | `GfsServiceProofs` | `SpecR => ImplementsFileService`: each command works at most once and at one moment |

For every number of clients, servers, replicas, files and commands, any chunk
size, and calls that fail or do not, from `GfsAssumption`, `ClientAssumption` and
`PathAssumption`: no path contains the `'|'` that stands between the fields of a
message.

*`FilesStayApart`* also uses `AlphabetAssumption`, which says what the bytes of
each file are. `ReadsOwnData` is not inductive: what a read finds depends on the handles of
the table, on those in calls made long ago and perhaps served late, and on
what is on the disks under them. `Isolation` says that there is a function
from handles to files such that each table entry, call and disk file agrees
with it, and bounds the handles in use by `nextHandle`. Two kinds of step make
handles (`CreateFile`, `WriteFile` when it grows) and extend the function; all
others must agree with the old one. This covers `CreateChunk`, which takes its
caller's word for the handle: the word came from the same file, though that
file may since have been deleted and created again.

*`ImplementsFiles`* also uses `FittingAssumption`: the writes of a file have one
length, of a chunk at most, and it is not appended to as well; or all appends
that the bound on commands allows fit into a chunk; and no data contains a
`'|'` (`UpToBar(cmd.data) = cmd.data`). The code keeps none of
this; without it the promise fails, and `gfs_grow` and `gfs_panic` show two ways
(section 6). What is needed beside the types is in `ServiceInv`:

* Where a command is in its calls (`Staged`): it asks the master, or it has made
  the calls to the first `k` servers of its chunk (`AtChunk`), and has worked
  exactly if it has made the first one. `FileService` changes with that one call;
  the calls to the other replicas stutter, as nobody reads there.
* A call that is late carries a handle that the master may have dropped
  since. It must not work on another file: a handle is that of one path for good,
  in the table and in calls alike (`OneFile`).
* Who need not have worked when it ends: a data command is excused if its file
  had no chunk when it began or was deleted since. Who is not excused has a file
  with its chunk (`Excusable`), so that its call finds the chunk, and that chunk
  is the file's.
* What a write leaves is what it wrote only if what was there is no longer, since
  `Write` does not truncate; an append may not outgrow the chunk, or its client
  goes back to the master for another. `ChunksFit` counts for this: what is in a
  chunk and a chunk's share for each append that may still reach its server
  (`Pending`) stay below the number of commands so far. It holds for every server,
  since which one is asked for its space is up to the table.

TLC finds no violation of `ServiceInv` either, on the instance of `gfs_service`.

### The master's handlers

For every number of handlers, files, servers and requests, from `GfsAssumption`
and `RacesAssumption`.

| theorem | module | says |
|---|---|---|
| `RacesAreTyped` | `GfsMasterProofs` | `Spec => []RacesTypeOK` |
| `BackupsHoldStableFiles` | | a backup holds every file that no request touched since it began, with all its handles and chunks (an action property) |
| `ChunksAreListedOnce` | | no handle is listed twice, by one file or by two, however the loads and stores of handle lists interleave (without `CreateChunk`) |
| `HandlersAreAtomic` | | `Spec => HandlersOfFilesAreAtomic`: where one request works on a file at a time, it looks as if it worked at one moment |

*`RacesAreTyped`*: a handler keeps a pointer into the table across steps, and a
handle that it has made. That both stay good needs what each label implies of the
locals (`Control`, `HasPointer`, `HasHandle`), in `MasterInv`; objects are never
taken away, since a file that is deleted stays where a pointer leads.

*`BackupsHoldStableFiles`* follows `Storage` and `json.Marshal` from object to
object: what has been copied of a file that stayed as it is agrees with the
file (`BackupKept`), and the files still to come are in `todo` under the object
they had.

*`ChunksAreListedOnce`*: a store may bring back a list from before other
stores. So `ListsKept` speaks of the lists that handlers have loaded, too:
wherever a handle stands, in a list or in a loaded one, it stands at the same
place of the same file (`OnePlace`), and one that is about to be listed stands
nowhere and is in no other handler's hands (`Unlisted`). That each listed handle
has a chunk (`ListedChunksExist`) does not follow, and is false (section 6).

*`HandlersAreAtomic`* is a refinement: the abstract table sees a file as its
handler found it until the handler returns; then the whole change happens.
Needed is what each handler has done so far to the file it works on alone
(`ChunksOfOwner`, `SoFarAlone`): its steps put together are one of the effects
of a whole handler (`Created`, `Deleted`, `Kept`, `Listed`, `Grown` in
`GfsMasterTable`), as the handlers of `GeekGFS` have them.

### The ordering servers

| theorem | module | says |
|---|---|---|
| `DishesStayApart` | `OrderProofs` | `Spec => []CustomersSeeTheirDishes`: nobody is shown the other server's dishes |
| `MessagesInTurn` | | `Spec => []MessagesComeInTurn`: a client that waits for a menu is sent no price, nor the other way round |

For every number of customers, changes and orders, any menus and stocks, from
`OrderAssumption`.

Both need `DishesStay` (module `OrderDishes`). That each menu in
a process, on the wire, in a file or in a shop is its own server's is not
enough: it must reach a client that asked for that server, and as a menu. So
the invariant also says that an open shop is that of a running process, that a
connection is in its queue once and only while it waits, that a client's
messages are what it waits for, and that the order thread and its customer
agree whose turn it is (`Agree`). TLC finds no violation of `DishesStay`
either, with two customers.

### What is only model-checked

Liveness (`PageCallsReturn`, `CallsReturn`, `CommandsEnd`,
`FailureLeadsToTakeover`): out of the prover's reach. `SpanFoundIsTheBlocks`,
`WriteReadsBack`, `MasterKeepsRunning` and `CopiesAgree` fail (section 6). Every
other property of every run is a theorem.

## 8. Not modelled

* In the allocator: the end of a thread (its cache is lost, and no code gives
  it back), the pointers inside `ChunkList`, the single writes of
  `RadixTree::Insert`, the timing test in `main.cpp`.
* In GeekGFS: generated RPC code, errors of the disk, paths with a `'|'`, the
  arrays that slices of one file may share.
* In the ordering servers: binding of ports, the start before both servers have
  each other's file, torn messages, money.
* The character driver: straight-line code under the kernel's own locks, each
  call of which would be an assumption. The one doubtful line (the result of
  `device_create` is not tested) is in the list of hazards.
* `linux-advanced-programing/code1` to `code4` and the other kernel labs: a few
  straight lines around one library call each.
* Vendored, generated and copied files: googletest, jsoncpp, protobuf output,
  files of Linux 4.10, build output. They are by far the most of the 45234 lines
  of implementation in the repository. The authors' own programs are about 3600
  lines (`heap-allocator/src` 934, `geekGFS/src` without generated code about
  1440, `final/src` 1257), and of these the second server is a copy of the
  first: no model of what the authors wrote can stand for more than a small
  share of the repository's lines.
