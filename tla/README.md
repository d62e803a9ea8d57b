# RMP: a verification of the remote memory pool

RMP (remote memory pooling) gives a C++ program regions of memory that live on another
machine. `rmp_alloc` returns an ordinary address; a load or a store of a page that is not
mapped is trapped by `userfaultfd`, and a handler thread fetches the page from, or later
saves it to, a server over TCP. This directory holds TLA+ modules of the parts of the
system that carry its logic, TLC configurations for small instances of them, and proofs
that TLAPS checks for every instance.

`PROJECT.json` has the machine-readable side: the components, the runs, the lines of code
each definition models, the hazards, the findings and the theorems.

## 1. Inventory

| component | state | operations | interacts with |
|---|---|---|---|
| userfaultfd manager, `uffdman/uffdman.cpp` | statics `msg`, `page`, mutex `fault_handler_cr`, maps region/fd/thread, `uffd_prev_resolved_addr` and `_op`; one handler thread per region | `uffdman_init`, `uffdman_register_region`, `fault_handler_thread`, `invalidate_prev_resolved_page`, `uffdman_unregister_region` | kernel (userfaultfd, madvise), client library through `page_resolver` |
| client library, `client/rmp_client.cpp` | one socket, `connected`, maps address to handle and to size | `rmp_init`, `rmp_alloc`, `rmp_pagefault_resovler`, `rmp_read_page`, `rmp_write_page`, `rmp_free` (empty) | server (packets), userfaultfd manager |
| server, page pool, `server/rmp_server.cpp`, `include/rmp_server.hpp` | `handle_count`, `addr_map`, `hndl_n_pages`, a mutex for each, mapped memory | `alloc`, `read`, `write`, `free`, dispatch in `handle` | connection threads |
| server, connections, `server/server.cpp` | listening socket, the connection being served, descriptors that are never closed | accept loop, `connection_handler`, `pthread_join` | clients, page pool |
| application, `client/client.cpp` | its data | stores to and loads from regions | client library, kernel |
| preloadlib, `preloadlib/preloadlib.cpp` | `rmp_fd`, `do_local_allocation`, `mainthread_id`, hooks into the C library; the manager's mutex | interposed `malloc`, `free` (does nothing) | client library, server through it |
| wire protocol, `client/rmp_client.cpp`, `server/server.cpp` | two byte streams | `send` and `recv` of one packet each | client library, connection threads |
| tests and benchmarks | - | - | server class, client library |

What is hard here:

- **Threads.** Every region has a handler thread, all of them share the message, the
  bounce buffer and the socket, and only the second half of a handler's loop body is under
  the mutex. The application runs on between `UFFDIO_COPY` and the update of the maps.
- **Laziness.** "Off-by-one invalidation" saves a page only when the *next* fault of the
  region comes, decides by the kind of an *old* fault whether it is dirty, and fetches
  nothing for a store.
- **Separate critical sections** in the server: each map has its own mutex, `memcpy` and
  `munmap` have none.
- **Failure:** clients that die between request and answer, `mmap` or
  `uffdman_register_region` that fail, results nobody looks at.
- **One socket** for all threads of a client, with nothing in a packet that says which
  request it answers; `recv` may return part of a packet and nobody looks at its result.
- **Re-entrance:** the interposed `malloc` is called again by the library it calls, and by
  every other thread, with one global flag to tell the cases apart.
- **Numbers:** sizes and offsets are products of two `u32`; `malloc` computes pages in
  `float`.
- **Limits:** the server closes no socket, and its loop takes the -1 of a failing `accept`
  for a connection.

What makes each part correct: the manager never has more than one page of a region mapped,
resolves each fault by its own region's handler, loses no store when it drops a page, and
wakes every thread; the client library and the manager together look like memory; the
server behaves like an atomic pool of pages, keeps its maps and its memory in step, and
serves whoever waits; on the wire every answer goes to who asked, and nobody waits forever;
`malloc` returns, and never to wait for itself.

## 2. Modules

| module | what it is |
|---|---|
| `UffdMan` | the client process: application threads, kernel faults, handler threads, page resolver |
| `UffdRegions` | `UffdMan` with programs that unregister regions, step by step beside the handlers |
| `WholePage` | `UffdMan` composed with a program that accesses regions the way `client.cpp` does |
| `Memory` | abstract specification: what "just like a variable access in C" means |
| `RmpServer` | the server: clients, accept loop, connection threads, page pool |
| `PagePool` | abstract specification: an atomic pool of pages |
| `RmpClient` | the client library's exchanges over its one TCP connection, and the connection thread at the other end |
| `Preload` | `RmpClient` composed with the interposed `malloc` |
| `MCUffdMan`, `MCUffdRegions`, `MCWholePage`, `MCRmpServer`, `MCRmpClient`, `MCPreload` | workloads and symmetry sets for TLC |
| `UffdManProofs` | type correctness; the mutex and the shared buffer, any number of threads |
| `OneThreadProofs` | one application thread |
| `UffdRegionsProofs` | programs that unregister regions, with any number of threads and with one |
| `WholePageProofs` | one thread and whole-page programs; refinement of `Memory` |
| `RmpServerProofs` | the server's invariant: threads that are joined, maps and memory in step |
| `RmpPoolProofs` | the server implements `PagePool` |
| `RmpClientProofs` | the exchanges on the one socket, any number of threads |
| `PreloadProofs` | the interposed `malloc`, any number of threads |

### UffdMan

A page address is a pair of a region and a page; a region stands for its start address, its
userfaultfd and its handle on the server. A page is a function from words to values, so
that losing half a page is visible. `remote` is the server's memory, reached by
`rmp_read_page` and `rmp_write_page` as one step each, since both happen under the mutex.
`mem` is a history variable: what the program stored last.

A step of a handler is what it does between two points where another thread can see or
change something it uses: `CheckPage` and `MapPage` (the prologue), `ReadMsg` (poll and
read), `ReadAddr` and `ReadOp` (the two loads from the shared message), `Lock`,
`SavePrev` / `PrevIsClean` / `NoPrev` and `DropPrev` (the invalidation), `ResolveLoad` /
`SkipStore`, `UffdioCopy` / `UffdioCopyFails`, `Record` (the maps and the end of the
guard's scope). The kernel and the instructions of the application (`Issue`, `Load`,
`Store`, `PageFault`, `Sleepers`) are modelled from how the code relies on them: a store to
a mapped page does not fault, a fault queues one message on its region's descriptor,
`UFFDIO_COPY` fails on a mapped page and otherwise wakes the threads that wait for it.
A handler locks, reads and maps on behalf of the region whose descriptor it has, whatever
address the shared message gave it: an address of another region is outside the handle, the
server refuses it, and the client copies the packet's uninitialised bytes.

`rmp_alloc` is one step, because nobody has the region's address before it returns. Two
assumptions are explicit in it. Its exchange with the server is not under the mutex, so a
thread allocates only while no access is in progress. And `PromptStart` says that a new
handler thread runs its few prologue instructions before the next `rmp_alloc`, which sleeps
for two milliseconds, creates another one. Without it (`PromptStart = FALSE`) TLC violates
`FetchedPageIsCurrent`: two handler threads that start together both find the static `page`
unset, and the second replaces a buffer the first has already fetched into
(uffdman.cpp:173). `RegisterOutcomes` are the ways `uffdman_register_region` can end; with
`"orphan"`, a `pthread_create` that fails after `UFFDIO_REGISTER`, TLC violates
`AccessesComplete`, because `rmp_alloc` ignores the result and hands out a region whose
faults nobody reads (rmp_client.cpp:254). The passing runs leave these two out, so they say
nothing of either.

Most properties of the manager are for one application thread, because with two the code does
not have them. Two faults at once share `msg` (run `uffd_shared_msg`). And a page is saved
(uffdman.cpp:146) and then dropped (149) while it stays writable: what another thread stores
in between is neither on the server nor on the client. With `Threads = {t1, t2}` and
`Regions = {A}` in MCUffdRegions.cfg TLC finds that store, and `DroppedStoresAreSaved` is
violated.

Abstracted: printing, `fault_cnt`, the events that `features = 0` never delivers, a failing
`mmap` of the bounce buffer. A server that refuses an allocation or dies is in `RmpClient`.

### UffdRegions

`uffdman_unregister_region` is a call with steps of its own, `unreg`: `Look` (the lookups of
`invalidate_prev_resolved_page`), `Save` (`rmp_write_page`), `Drop` (`madvise`) and `Erase`
(the maps and `pthread_cancel`, after which the handler dies when it is next in `poll`,
`Cancelled`). The function takes no lock and looks at no handler, and nor does the model: it
begins whenever the program is between two accesses, also after `UFFDIO_COPY` has woken the
program and before the handler has recorded the page. Three things come of that.

- The call sees the entry of an older page or none, and the page just stored to stays mapped
  and unsaved, against the comment at uffdman.cpp:251: TLC violates
  `\A a \in resident : a[1] \notin gone` in the instance of `uffd_regions`.
  `LeftOnlyIfOvertaken` says that this window is the only reason for it; `overtook` is the
  history of the calls that fell into it.
- The handler may have dropped the older page already. Then `rmp_write_page`, which reads the
  page before it sends anything, faults like any load (`ReadMissing`), and the call goes on
  when the handler has brought the page back. `UnregisterReturns` says that it does.
- The call searches and erases in the `unordered_map`s while a handler, of any region, may be
  inserting. That is a data race: when both are at it (`pc[r] = "record"` and the call in
  `Look` or `Erase`), the behaviour may end there (`DataRace`, `up = FALSE`) and nothing is
  claimed of it; or the accesses happen one after the other.

Two things are asked of the program, which the repository does not contain: no thread is in
an access, or starts anything, while another is in the call, since its exchange with the
server is not under the mutex (the same as for `rmp_alloc`); and nobody touches a region that
was given back (the kernel still traps it, and nobody reads the fault).
`addr_tid_map->erase(tid)` uses the wrong key and erases nothing, which has no effect on later
calls since they look in `start_addr_uffd_map` first. `poll` is the only point where a handler
can be cancelled: without `DEBUG_PRINTS` nothing is printed before it, and the exchanges of a
handler that has read a fault end before the call can have begun, or the caller waits for them.

### RmpClient

A packet is `PacketLen` units, each named by its request and position, the first being the
header with the handle. `c2s` and `s2c` are what is under way; a `recv` takes between one
unit and a packet of what has arrived, and `MaxTorn` bounds how often it takes less than it
could. The server receives into one buffer per connection, so that after a short `recv` the
end of the last packet is still there, and answers with the whole buffer. What is exchanged
comes from the callers: `rmp_alloc` makes one exchange without the mutex, a handler one or
two under it (`FaultPlans`). `my` is the id of a thread's request, which the code has no
counterpart for: it is what lets the properties say whose answer it got.

`AllocAlone` is the assumption that `UffdMan` makes as well: the program accesses no region
while a thread is in `rmp_alloc`. Without it TLC violates `WholeAnswersOwn`
(rmp_client.cpp:249). `ServerFaults` are a server whose `mmap` fails (the answer's handle
is then the uninitialised one of the request, and `rmp_alloc` stores it: with this fault
alone TLC violates `HandlesGranted`), and one that dies: `send` then succeeds once or
raises `SIGPIPE`, which ends the client, and `recv` returns at once.

The accept loop joins each thread before it accepts the next connection and the client
never closes one, so only a client's first connection is served (`Served`).

### Preload

`stack[t]` holds the steps at which the nested `malloc` calls of thread t are, the innermost
first: `new rmp::Client` and the nodes of the maps are calls from inside the library. A step
is what a thread does between two accesses to the shared flags, the mutex or the socket.
Unlocking sets the mutex free whoever holds it: that is what `unlock` of another thread's
`std::mutex` does in the build, although it is undefined.

Any thread may be the first to call `malloc`, and any may try again after a connect that
failed. So two threads may both find `rmp_fd` to be -1 and both run `rmp_conn_init`: the
second replaces socket, maps and main thread (preloadlib.cpp:116). What follows is in the
model, and `LocalIsHooked` survives it. `MallocReturns` does not, and says so: its hypothesis
is that no two threads are in `rmp_conn_init` at once (`Contended`), in any state of the
behaviour. Without it TLC finds the first thread clearing the flag, after it has given up the
mutex (preloadlib.cpp:195 to 197), under the second, whose nested `malloc` then waits for the
mutex its own thread holds; and with `MaxConns = 2` a connection that the server never
accepts.

The program touches a region only when the `malloc` that allocated it has returned (`handed`,
`Touch`). After a second `rmp_init` the new `addr_hndl_map` does not know the old regions: the
resolver's `at()` throws in the handler thread and the process ends, and so it does when
`rmp_alloc` sends on a socket that replaced the connected one without connecting.

The number of pages, `ceil((float)size / (float)PAGE_SIZE)`, is abstracted: a size of 0 is one
of the ways in which `rmp_alloc` fails. Above 2^24 the conversion may round down and the
region be a page short; nothing here speaks of that.

Abstracted: printing, `realloc` and `calloc` (not interposed), mallocs of the handler
threads, which are neither the main thread nor nested and so are local.

### WholePage and Memory

`Memory` is loads and stores of words, a load returning what was stored last. `UffdMan`
does not implement it for every program (see the findings). `WholePage` adds the program's
position `cur` in each region, with the words of it still to be overwritten, `stale`: a
page entered with a store is overwritten entirely before the program loads an unwritten
word of it or moves on, and a page entered with a load is not stored to during that visit.
The loops of `client.cpp` are such a program; the module allows every order of pages,
words, regions and passes. Programs that give regions back are in
`UffdRegions` only: there a call that overtakes the handler loses the page.

`Memory` is implemented through a mapping, `memBar`: a word is in the mapped page, unless the
program has yet to overwrite it there, and else on the server. `IsMemory` then says what
`LoadsSeeStores` does not, that no step of the paging, a save, a drop, a fetch, a mapping or
the handler's bookkeeping, changes any word of that memory, and that a store changes only its
own; the history variable `mem` has no part in it.

### RmpServer and PagePool

`backlog`, `serving` and `hpc` are the accept loop and the connection threads; a step of a
thread is one critical section, one system call or one `memcpy`. `addr_map` and
`hndl_n_pages` are functions whose domain is the keys present, and `operator[]` inserts a
default, as in C++. `mapped` and `bytes` are the memory `mmap` handed out; `Reached` is the
page an address really hits, which is any mapped page or a crash when the address lies
outside its region. Sizes and offsets are computed modulo `U32`. Clients connect, send
whole packets, and leave at any moment, also while a request is unread or in progress.

`PagePool` lets each request act at one instant between its arrival and its answer. The
refinement mapping takes a handle as live once both maps have it and until `munmap`, and a
request as done when its thread has published the handle, copied, unmapped or found an
error.

`connection_handler` ends without `close`, so each accepted connection keeps a descriptor
(`fds`) for good. `accept` may fail at any time; its -1 counts as a connection, `main` starts a
thread on it, whose `recv` fails, joins it and goes on (`AcceptFails`, `JoinFailed`). With
`MaxFds` descriptors taken nothing else happens any more: the server spins and nobody who
waits is served. `Served` says that this is all that keeps a client out.

Abstracted: failures of `socket`, `bind` and `listen`, which end the process; a
`pthread_create` that fails: it returns a positive number, which the test `< 0` at line 160
does not catch, and `main` joins a thread id that was never set, which is undefined; the limit
of the kernel's backlog; packets in pieces.

## 3. Runs

| run | instance | shows |
|---|---|---|
| `uffd_regions` | 1 thread, 2 regions of 2 pages that may be unregistered at any time, all loads and stores of one value to one page of each, registration may fail before the region is trapped, with fairness; 99 000 states | `TypeOK`, `OneResident`, `OwnFaults`, `LeftOnlyIfOvertaken`, `DroppedStoresAreSaved`, `AccessesComplete`, `UnregisterReturns` |
| `uffd_threads` | 2 threads, 2 regions of 2 pages, loads of all pages and stores to one; 3.9 million states | `FetchedPageIsCurrent` |
| `whole_page` | 1 thread, 2 regions of 2 pages of 2 words, whole-page programs; 89 000 states | `LoadsSeeStores`, `ServerBehindByOne`, `IsMemory` |
| `server` | 2 clients, 2 regions, up to 2 allocations of 1 or 2 pages, `mmap` and `accept` that fail at any time, 2 descriptors, an offset in range of one and not of the other, with fairness; 417 000 states | `TypeOK`, `Backed`, `NoLeak`, `CopyInBounds`, `FreedStaysFreed`, `Linearizable`, `Served` |
| `wire` | 2 threads, 2 regions, packets of 2 units, up to 4 of them, one torn, a server that refuses or dies, with fairness; 235 000 states | `WholeAnswersOwn`, `InStep`, `ExchangesComplete` |
| `preload` | 2 threads, either of which may connect, 2 connections, 2 regions, connects and local allocations that fail, up to 2 requests, faults at the same time, with fairness; 629 000 states | `LocalIsHooked`, `MallocReturns` |

and, each refuting a statement of the repository's documents, comments or tests:

| run | refutes | because |
|---|---|---|
| `uffd_lost_update` | "just like a variable access in C" | a store to a page that a load brought in is dropped with it (uffdman.cpp:142) |
| `uffd_partial_page` | "behind by one memory address" | a store fault maps the buffer's old contents, later saved to the server (uffdman.cpp:236) |
| `uffd_shared_msg` | "caught by the appropriate fault handler thread" | the message is shared and read outside the mutex (uffdman.cpp:198) |
| `server_huge_alloc` | `test_alloc_a_lot_of_pages` expects `ALLOC_FAILED` | the byte count wraps in `u32` (rmp_server.cpp:96) |
| `wire_torn` | "returns a mapped handle", "Client stores the handle" | the rest of a torn answer is taken for the next answer (rmp_client.cpp:249) |
| `preload_unlock` | a fault is "resolved by requesting the server" | `malloc` unlocks the mutex twice, the second time under a handler, and two threads use the socket at once (preloadlib.cpp:195) |

**Bounds.** Two regions are the least that share the message, the buffer and the mutex; two
pages the least that evict each other; two words the least that make a page partly
written; two values tell a lost store from a kept one. In `uffd_regions` and `whole_page`
stores write one value, not the initial one; the theorems cover the others. Threads and
regions are symmetric in the two-thread run, regions and pages in `whole_page`; the runs
that check liveness use no symmetry. For the server two clients are the least that could interleave, two allocations the least that could be confused, and
with `U32 = 8` and `PageSize = 2` the product wraps at four pages, which only
`server_huge_alloc` reaches. `uffd_threads` does not check deadlock: an application whose
fault was resolved at another region's address sleeps forever, which is the shared message
again. In `uffd_regions` a program that has given back all its regions may stop, as may one
that a data race struck; in `wire` and `preload` one that has used up `MaxRequests`, and in
`preload` one that SIGPIPE or an exception ended; in `uffd_regions`, `wire` and `preload`
liveness stands in for the deadlock check. Two descriptors let a client come back, or the other
one be served after it, and then run out. Clients of `server` name the two handles that can be
given out, which are also the invalid ones before they are and after they were freed, and write
the one value that fresh memory has not.
A packet of two units is the least that can be torn, and one torn packet puts client and
server out of step for all that follow; four requests let both regions be allocated and
fault at once, or one thread go through a fault that saves and fetches. The `preload` runs need
no torn packets and have units of a whole packet. Two connections are the least with which two
threads can both be in `rmp_conn_init`; two requests, one more than the first `rmp_alloc` needs,
let the other thread's `malloc` or a handler meet it at the mutex. With one connection and three
requests, the least with which two threads swap answers (`preload_unlock`), `MallocReturns`
holds as well (270 000 states), and so does `LocalIsHooked` with a server that refuses
(1.3 million states).

**Fairness.** In `uffd_regions` an application thread that has started an instruction is
scheduled until it retires, and a handler thread that can take a step takes it: both are
what the kernel's scheduler gives threads that are ready to run. Allocations and new
accesses are not forced. With one application thread the mutex is never contended for long,
so weak fairness is enough. `wire` and `preload` assume the same of the threads of the
client and of the server's connection thread, and so that TCP delivers while the server
lives; nothing is assumed of the program or of a dying server, and the bound on requests
ends all contention for the mutex. `server` assumes the same of the connection
threads and of the accept loop, and strong fairness of `accept`: it may fail any number of
times, but while there are descriptors not for ever. It assumes nothing of the clients: the
property itself says "if every client is gone infinitely often", because a client that stays
connected does keep all others out.

**Mutants.** Each property of a passing run is broken by a small change of the code's
model, defined next to the original and marked "Bug": a handler that does not wait for the
mutex, a save from the wrong buffer, a wake-up forgotten, a thread detached instead of
joined, an offset check off by one, and so on.

## 4. Proofs

All theorems hold for any sets of regions, pages, words, values, threads and clients. They
rest on the assumption about the constants in the module that declares them
(`UffdManAssumption`, `UffdRegionsAssumption`, `RmpServerAssumption`, `RmpClientAssumption`),
which TLC evaluates in the runs. These give the constants their types and say that `None`,
`Null` and `Junk` are no other value; that the page size divides 2^32 (`U32`), that fewer
allocations are made than there are handles (the wrap of `handle_count`, section 5), and
that a client may open at least one connection. Whatever else a theorem needs is a
hypothesis of the theorem.

`UffdManProofs`, any number of threads:

- `TypeCorrect`: `TypeOK` is not inductive, since a step uses what an earlier one set.
  `TypeInv` adds that a thread which is not idle has an access, that the buffer is mapped
  once a handler has left its prologue, that the message is filled before a handler looks
  at it, that address and operation are set from `ReadAddr` and `ReadOp` on, and that only
  a recorded page is dropped.
- `FetchedCurrent`, with `PromptStart`: `BufferInv` adds that the mutex is held by exactly
  the handler inside the guard's scope, that one handler at a time is in its prologue, and
  that the one about to map the buffer is the first of all. So whoever writes the buffer or
  a page of the server while a handler is between fetch and `UFFDIO_COPY` would hold the
  mutex twice or be first after another.

`OneThreadProofs`, `Threads = {T}`: `OneThreadInv` says that a busy handler has the very
fault on which T sleeps, in its own region; that T sleeps only on a missing page; and that
the one mapped page of a watched region is the page its handler recorded last, or between
`UFFDIO_COPY` and `Record` the page of the fault at hand. From it follow
`AtMostOneResident` and `FaultsStayOwn`. It also shows that
`UFFDIO_COPY` never fails there (`CopySucceeds` in `WholePageProofs`).

`UffdRegionsProofs` adds unregistration, with the call's steps interleaved with the handlers'.
For any number of threads `CallInv` is `TypeInv` with the type of the call, that a busy handler
has a thread that sleeps on its region, and that nobody but the caller is in an access while
the call runs; with `PromptStart` it gives `RegionsFetchCurrent`. The rest is for
`Threads = {T}`: `RegionInv` adds `OneThreadInv` for the regions still in use, and `Flushed`,
which follows a call: the entry it works on is of its own region; while the call sleeps on a
page it is that page its handler brings back; once saved, a page is on the server as it is
here until the call drops it; a region given back has at most one page mapped, and that only
if the call overtook the handler. The last conjunct is `LeftOnlyIfOvertaken` itself, which is
not inductive alone: a handler that the call overtook records its page later, a second fault,
the caller's own, may evict that page again, and only `Flushed` says what the call then still
has in hand. From it follow `LeftPagesWereOvertaken`, the earlier invariants for programs that
unregister (`RegionsKeepPromises`), and the action property `DroppedPagesAreSaved`, for which
no order of start-up is assumed.

`WholePageProofs`, one thread, `PromptStart`, whole-page programs: every behaviour of `WPSpec`
is one of `Spec`, so the invariants of the first two modules hold; `WholeInv` adds that the
server holds every page that is not mapped, that a mapped page differs from memory only in
words the program must still overwrite, that a page a load brought in is clean, and that the
handler remembers how the program entered the page it is on. From it follow
`LoadsReturnStores`, `BehindByOne` and the refinement `PagingIsMemory`: under `WholeInv` the
mapping `memBar` is what the program stored last, before and after each step.

`RmpServerProofs`, any number of clients: a counter and two maps with a mutex each are safe only
because `main` joins each thread before it accepts again. `ServerInv` says so (`Joined`),
and then follows one thread through its request: a client has one request under way
(`OneRequest`), an allocating thread's region is its own, zero and nobody's in the maps
(`Allocating`), what a thread has read from the maps still holds when it uses it (`Found`),
and the two maps differ at most in the handle being added or removed (`SameHandles`).

- `ServerTypeCorrect`, `NothingLeaks` and `HandlesStayApart` have no hypothesis: they hold
  even when sizes wrap. The last is what is left of `Backed` then: regions have fewer pages
  than their handle promises, but no two handles have the same one, and `munmap` is given
  what `mmap` was.
- `FreedHandlesStayFreed`, without hypothesis as well: only the thread that has a handle from
  `get_new_handle` makes it usable, `get_new_handle` gives out a handle that is larger than
  all before, and by `Found` no `operator[]` inserts anything. The assumption that fewer
  allocations are made than there are handles is what keeps the counter from going back.
- `MapsDescribeMemory` and `CopiesStayInside` assume `NoWrap`, that no request asks for as
  many pages as make the byte count wrap. It is needed: `server_huge_alloc` shows a wrapped
  allocation that succeeds, and then `hndl_n_pages` promises pages that are not mapped.

`RmpPoolProofs`, with `NoWrap`: `ServerIsPool` is the refinement of `PagePool`, one lemma per
group of steps. `Publish`, `Memcpy`, `Munmap` and the refusals are the steps where a request
acts; receiving and looking up stutter; a request and its answer map to themselves.

`RmpClientProofs`, with `AllocAlone`: `WireInv` says that one thread at a time is between
`send` and the use of its answer, by the mutex among handlers and by `AllocAlone` for
`rmp_alloc`; and that, until a packet is torn or the server dies, the one request under way
is in exactly one of three places, whole. From it follow `AnswersAreOwn` and `StaysInStep`, for packets of
any length and with torn packets and server faults allowed. `HandlesAreGranted` assumes in
addition `MaxTorn = 0` and `ServerFaults = {}`: then the property that `wire_torn` refutes
holds, so those faults are the whole reason. Its invariant `GrantInv` follows an allocation
from its request, through the grant, to the stored handle.

`PreloadProofs`: `LocalAllocationsAreHooked` has no hypothesis; `HookInv` says that some
call being past the first lines of `check_conn` means that the hooks are set, however many
threads are in there at once.

The inductive invariants (`TypeInv`, `BufferInv`, `OneThreadInv`, `RegionInv`, `WholeInv`,
`ServerInv`, `WireInv`, `GrantInv`, `HookInv`) were also checked with TLC, on the
instances of the runs and, for `GrantInv`, on that of `wire` without faults.

Only model-checked are the liveness properties `AccessesComplete`, `UnregisterReturns`,
`Served`, `ExchangesComplete` and `MallocReturns`, since fairness and `ENABLED` are beyond the prover.
Every other property of a passing run has its theorem.

## 5. Not modelled

- What a data race on the manager's maps does (see `UffdRegions`); `uffdman_destroy`,
  `uffdman_unregister_page_resolver` and `handle_unmap_event`, which nothing calls.
- `rmp_free` of the client, which is empty, and `rmp_read` and `rmp_write`, which are the
  exchanges of the page resolver under another name.
- `readn` and `writen`: only commented-out code calls them.
- A `pthread_create` that fails in the server (see `RmpServer`).
- How many pages `malloc` asks for (see `Preload`).
- The wrap of `handle_count`, which takes 2^32 allocations of one server process.
- What the server's pool does with a packet that begins in the middle of another one: in
  `RmpClient` it is answered and grants nobody a handle.
- Benchmarks and tests, which have no logic of their own.

## 6. Plan

Done, in this order because the paging protocol is the heart of the system: `UffdMan`, its
properties and proofs; `Memory` and `WholePage` with the refinement proof; `RmpServer` and
`PagePool`; `RmpClient`, `Preload` and `UffdRegions`; the proofs of all their safety
properties; the boundaries of the hypotheses: programs that unregister regions at any time,
and what a wrapped size leaves intact; the limits of the server's descriptors.

Left:

1. Shorter proofs of `RmpServerProofs` and `RmpPoolProofs`, where lemmas about the threads
   that do not move are repeated from step to step.
2. A run of the shared message with programs of two threads that never fault at once, the
   widest class for which the one-thread properties might hold.
