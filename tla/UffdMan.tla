------------------------------- MODULE UffdMan -------------------------------
(***************************************************************************)
(* The client process of RMP as the application sees it: regions of remote *)
(* memory allocated by rmp_alloc, the userfaultfd manager (uffdman.cpp)    *)
(* with its "off-by-one invalidation", one fault handler thread per        *)
(* region, and the page resolver of rmp_client.cpp through which a handler *)
(* saves a page to the server and fetches one from it.                     *)
(*                                                                         *)
(* A page address is a pair <<region, page>>; a region stands for its      *)
(* start address, for its userfaultfd and for its server handle, which     *)
(* rmp_alloc and uffdman_register_region put in bijection.  A page is a    *)
(* function from words to values.  Application threads issue loads and     *)
(* stores of words.                                                        *)
(***************************************************************************)

CONSTANTS
    Threads,          \* application threads
    Regions,          \* regions the application may allocate
    Pages,            \* page offsets inside a region
    Words,            \* words of a page
    Values,           \* values of a word
    Zero,             \* what anonymous memory holds at first
    Accesses,         \* the loads and stores the application may issue
    RegisterOutcomes, \* how uffdman_register_region may end
    PromptStart,      \* a started handler thread runs its prologue before
                      \* the next rmp_alloc returns
    None              \* no value, an unset pointer, a mutex nobody holds

Addr == Regions \X Pages
Ops == {"load", "store"}
Content == [Words -> Values]
ZeroPage == [w \in Words |-> Zero]
Access == [op : Ops, addr : Addr, word : Words, val : Values]

\* A UFFD_EVENT_PAGEFAULT message, and an entry of the uffd_prev_resolved maps.
Fault == [addr : Addr, op : Ops]

(***************************************************************************)
(* How uffdman_register_region may leave a region: watched by a handler    *)
(* thread; plain, when userfaultfd, UFFDIO_API or UFFDIO_REGISTER fails    *)
(* and the region stays ordinary local memory; orphan, when pthread_create *)
(* fails after UFFDIO_REGISTER: the kernel traps its faults and nobody     *)
(* reads them.  rmp_alloc looks at the returned value in none of them.     *)
(***************************************************************************)
Outcomes == {"watched", "plain", "orphan"}

ASSUME UffdManAssumption ==
    /\ Zero \in Values
    /\ Accesses \subseteq Access
    /\ RegisterOutcomes \subseteq Outcomes
    /\ PromptStart \in BOOLEAN
    /\ None \notin Access
    /\ None \notin Fault
    /\ None \notin Content
    /\ None \notin Regions
    /\ None \notin Addr
    /\ None \notin Ops

VARIABLES
    \* the application and the kernel
    reg,            \* [Regions -> Outcomes or "none"]: state of a region
    resident,       \* set of addresses whose page is mapped locally
    local,          \* contents of the resident pages
    acc,            \* the access a thread is executing, or None
    tstate,         \* "idle", "run", "pending" (its fault is unread) or "asleep"
    got,            \* register that receives what a thread loads
    \* the statics of uffdman.cpp
    msg,            \* static struct uffd_msg shared by all handler threads
    page,           \* the page the static pointer refers to, None while NULL
    fault_handler_cr, \* holder of the mutex
    prev,           \* uffd_prev_resolved_addr and _op, which change together
    \* locals of fault_handler_thread
    pc, faulting_addr, faulting_op,
    \* the server's memory, and what the application stored last
    remote, mem

appVars == <<reg, acc, tstate, got>>
pageVars == <<resident, local>>
locals == <<faulting_addr, faulting_op>>
statics == <<msg, page, fault_handler_cr, prev>>
vars == <<appVars, pageVars, statics, locals, pc, remote, mem>>

\* Handler steps before a message is read, up to UFFDIO_COPY, and under the lock.
Prologue == {"start", "mapping"}
Busy == {"addr", "op", "lock", "inval", "drop", "fetch", "copy"}
Locked == {"inval", "drop", "fetch", "copy", "record"}
PC == {"off", "poll", "record", "dead"} \cup Prologue \cup Busy

Init ==
    /\ reg = [r \in Regions |-> "none"]
    /\ resident = {}
    /\ local = [a \in Addr |-> ZeroPage]
    /\ acc = [t \in Threads |-> None]
    /\ tstate = [t \in Threads |-> "idle"]
    /\ got = [t \in Threads |-> Zero]
    /\ msg = None
    /\ page = None
    /\ fault_handler_cr = None
    /\ prev = [r \in Regions |-> None]
    /\ pc = [r \in Regions |-> "off"]
    /\ faulting_addr = [r \in Regions |-> None]
    /\ faulting_op = [r \in Regions |-> None]
    /\ remote = [a \in Addr |-> ZeroPage]
    /\ mem = [a \in Addr |-> ZeroPage]

-----------------------------------------------------------------------------
(***************************************************************************)
(* The application.                                                        *)
(***************************************************************************)

(***************************************************************************)
(* rmp_alloc and the uffdman_register_region it calls.  Nobody has the     *)
(* region's address before rmp_alloc returns, so its steps are one.  Its   *)
(* exchange with the server and its inserts into the maps are not under    *)
(* fault_handler_cr: as in the programs of the repository, no thread is in *)
(* the middle of an access while another allocates.  The two usleep(1000)  *)
(* between the creation of one handler thread and of the next are what     *)
(* PromptStart stands for.  Calls that return early change nothing.        *)
(***************************************************************************)
rmp_alloc(t, r, outcome) ==
    /\ \A u \in Threads : tstate[u] = "idle"
    /\ reg[r] = "none"
    /\ PromptStart => \A s \in Regions : pc[s] \notin Prologue
    /\ reg' = [reg EXCEPT ![r] = outcome]
    /\ resident' = IF outcome = "plain" THEN resident \cup ({r} \X Pages) ELSE resident
    /\ pc' = [pc EXCEPT ![r] = IF outcome = "watched" THEN "start" ELSE "off"]
    /\ UNCHANGED <<local, acc, tstate, got, statics, locals, remote, mem>>

\* A thread starts to execute a load or a store of a region it allocated.
Issue(t, a) ==
    /\ tstate[t] = "idle"
    /\ reg[a.addr[1]] # "none"
    /\ acc' = [acc EXCEPT ![t] = a]
    /\ tstate' = [tstate EXCEPT ![t] = "run"]
    /\ UNCHANGED <<reg, got, pageVars, statics, locals, pc, remote, mem>>

\* The access finds its page mapped and retires.
Load(t) ==
    /\ tstate[t] = "run"
    /\ acc[t].op = "load"
    /\ acc[t].addr \in resident
    /\ got' = [got EXCEPT ![t] = local[acc[t].addr][acc[t].word]]
    /\ acc' = [acc EXCEPT ![t] = None]
    /\ tstate' = [tstate EXCEPT ![t] = "idle"]
    /\ UNCHANGED <<reg, pageVars, statics, locals, pc, remote, mem>>

\* UFFDIO_COPY maps pages writable: a store to a mapped page never faults.
Store(t) ==
    /\ tstate[t] = "run"
    /\ acc[t].op = "store"
    /\ acc[t].addr \in resident
    /\ local' = [local EXCEPT ![acc[t].addr][acc[t].word] = acc[t].val]
    /\ mem' = [mem EXCEPT ![acc[t].addr][acc[t].word] = acc[t].val]
    /\ acc' = [acc EXCEPT ![t] = None]
    /\ tstate' = [tstate EXCEPT ![t] = "idle"]
    /\ UNCHANGED <<reg, got, resident, statics, locals, pc, remote>>

\* The page is missing: the kernel queues a message and puts the thread to sleep.
PageFault(t) ==
    /\ tstate[t] = "run"
    /\ acc[t].addr \notin resident
    /\ tstate' = [tstate EXCEPT ![t] = "pending"]
    /\ UNCHANGED <<reg, acc, got, pageVars, statics, locals, pc, remote, mem>>

-----------------------------------------------------------------------------
(***************************************************************************)
(* fault_handler_thread of region r: its prologue, then its loop.          *)
(***************************************************************************)

\* Reads the fault message of thread t and leaves t in the kernel.
Deliver(r, t) ==
    /\ pc[r] = "poll"
    /\ tstate[t] = "pending"
    /\ msg' = [addr |-> acc[t].addr, op |-> acc[t].op]
    /\ tstate' = [tstate EXCEPT ![t] = "asleep"]
    /\ pc' = [pc EXCEPT ![r] = "addr"]
    /\ UNCHANGED <<reg, acc, got, pageVars, page, fault_handler_cr, prev, locals, remote, mem>>

\* Steps of a handler that move its pc and nothing else.
Goto(r, from, to) ==
    /\ pc[r] = from
    /\ pc' = [pc EXCEPT ![r] = to]
    /\ UNCHANGED <<appVars, pageVars, statics, locals, remote, mem>>

\* Bug: the buffer is taken for mapped.
CheckPageSkipped(r) == Goto(r, "start", "poll")

\* if (page == NULL), the test of the shared static.
CheckPage(r) == Goto(r, "start", IF page = None THEN "mapping" ELSE "poll")

\* page = mmap(...): the static now refers to a new page of zeros.
MapPage(r) ==
    /\ pc[r] = "mapping"
    /\ page' = ZeroPage
    /\ pc' = [pc EXCEPT ![r] = "poll"]
    /\ UNCHANGED <<appVars, pageVars, msg, fault_handler_cr, prev, locals, remote, mem>>

\* Bug: the thread polls whatever descriptor was registered last.
ReadMsgOfAnyRegion(r) == \E t \in Threads : Deliver(r, t)

\* poll(), then read(uffd, &msg): the kernel hands out an unread fault of r.
ReadMsg(r) == \E t \in Threads : tstate[t] = "pending" /\ acc[t].addr[1] = r /\ Deliver(r, t)

\* The two loads from the shared msg, which other handlers may overwrite.
ReadAddr(r) ==
    /\ pc[r] = "addr"
    /\ faulting_addr' = [faulting_addr EXCEPT ![r] = msg.addr]
    /\ pc' = [pc EXCEPT ![r] = "op"]
    /\ UNCHANGED <<appVars, pageVars, statics, faulting_op, remote, mem>>

ReadOp(r) ==
    /\ pc[r] = "op"
    /\ faulting_op' = [faulting_op EXCEPT ![r] = msg.op]
    /\ pc' = [pc EXCEPT ![r] = "lock"]
    /\ UNCHANGED <<appVars, pageVars, statics, faulting_addr, remote, mem>>

Enter(r) ==
    /\ pc[r] = "lock"
    /\ fault_handler_cr' = r
    /\ pc' = [pc EXCEPT ![r] = "inval"]
    /\ UNCHANGED <<appVars, pageVars, msg, page, prev, locals, remote, mem>>

\* Bug: the handler does not wait for the mutex.
LockWithoutWaiting(r) == Enter(r)

\* lock_guard guard(fault_handler_cr)
Lock(r) == fault_handler_cr = None /\ Enter(r)

-----------------------------------------------------------------------------
(***************************************************************************)
(* invalidate_prev_resolved_page.  A page that was resolved for a store is *)
(* first saved through page_resolver, that is rmp_write_page: the server   *)
(* accepts offsets inside the handle of r only and refuses any other.      *)
(* Reading a page that is not mapped would put the handler to sleep in the *)
(* kernel while it holds the mutex, hence the guard on resident.           *)
(***************************************************************************)
SaveTo(r, content) ==
    /\ pc[r] = "inval"
    /\ prev[r] # None
    /\ prev[r].op = "store"
    /\ prev[r].addr \in resident
    /\ remote' = IF prev[r].addr[1] = r THEN [remote EXCEPT ![prev[r].addr] = content] ELSE remote
    /\ pc' = [pc EXCEPT ![r] = "drop"]
    /\ UNCHANGED <<appVars, pageVars, statics, locals, mem>>

\* Bug: the bounce buffer is passed where prev_page belongs.
SavePrevFromBuffer(r) == SaveTo(r, page)

SavePrev(r) == SaveTo(r, local[prev[r].addr])

\* A page resolved for a load is taken for clean.
PrevIsClean(r) == prev[r] # None /\ prev[r].op = "load" /\ Goto(r, "inval", "drop")

NoPrev(r) == prev[r] = None /\ Goto(r, "inval", "fetch")

Discard(r, gone) ==
    /\ pc[r] = "drop"
    /\ resident' = resident \ gone
    /\ local' = [a \in Addr |-> IF a \in gone THEN ZeroPage ELSE local[a]]
    /\ pc' = [pc EXCEPT ![r] = "fetch"]
    /\ UNCHANGED <<appVars, statics, locals, remote, mem>>

\* Bug: clean pages are left mapped.
DropDirtyPrevOnly(r) == Discard(r, IF prev[r].op = "store" THEN {prev[r].addr} ELSE {})

\* madvise(MADV_DONTNEED)
DropPrev(r) == Discard(r, {prev[r].addr})

-----------------------------------------------------------------------------
(***************************************************************************)
(* Resolving the fault itself.                                             *)
(***************************************************************************)

\* Bug: the answer is not copied into the buffer.
ResolveLoadIgnored(r) == faulting_op[r] = "load" /\ Goto(r, "fetch", "copy")

(***************************************************************************)
(* page_resolver for a load, that is rmp_read_page into the shared buffer. *)
(* For an address of another region the offset is outside the handle of r: *)
(* the server answers READ_FAILED and echoes the uninitialised data of the *)
(* request, which rmp_read_page copies all the same.                       *)
(***************************************************************************)
ResolveLoad(r) ==
    /\ pc[r] = "fetch"
    /\ faulting_op[r] = "load"
    /\ IF faulting_addr[r][1] = r
       THEN page' = remote[faulting_addr[r]]
       ELSE page' \in Content
    /\ pc' = [pc EXCEPT ![r] = "copy"]
    /\ UNCHANGED <<appVars, pageVars, msg, fault_handler_cr, prev, locals, remote, mem>>

\* A store fault fetches nothing: the buffer keeps what it held.
SkipStore(r) == faulting_op[r] = "store" /\ Goto(r, "fetch", "copy")

\* The threads that sleep on a fault of the userfaultfd of r at address a.
Sleepers(r, a) ==
    {t \in Threads : tstate[t] \in {"pending", "asleep"} /\ acc[t].addr = a /\ a[1] = r}

Install(r, woken) ==
    /\ pc[r] = "copy"
    /\ faulting_addr[r] \notin resident
    /\ resident' = resident \cup {faulting_addr[r]}
    /\ local' = [local EXCEPT ![faulting_addr[r]] = page]
    /\ tstate' = [t \in Threads |-> IF t \in woken THEN "run" ELSE tstate[t]]
    /\ pc' = [pc EXCEPT ![r] = "record"]
    /\ UNCHANGED <<reg, acc, got, statics, locals, remote, mem>>

\* Bug: UFFDIO_COPY_MODE_DONTWAKE.
UffdioCopyWithoutWake(r) == Install(r, {})

\* UFFDIO_COPY maps a copy of the buffer and wakes who waits for it on this uffd.
UffdioCopy(r) == Install(r, Sleepers(r, faulting_addr[r]))

\* UFFDIO_COPY fails with EEXIST; the thread leaves its loop and ends.
UffdioCopyFails(r) ==
    /\ pc[r] = "copy"
    /\ faulting_addr[r] \in resident
    /\ fault_handler_cr' = None
    /\ pc' = [pc EXCEPT ![r] = "dead"]
    /\ faulting_addr' = [faulting_addr EXCEPT ![r] = None]
    /\ faulting_op' = [faulting_op EXCEPT ![r] = None]
    /\ UNCHANGED <<appVars, pageVars, msg, page, prev, remote, mem>>

Remember(r, entry) ==
    /\ pc[r] = "record"
    /\ prev' = [prev EXCEPT ![r] = entry]
    /\ fault_handler_cr' = None
    /\ pc' = [pc EXCEPT ![r] = "poll"]
    /\ faulting_addr' = [faulting_addr EXCEPT ![r] = None]
    /\ faulting_op' = [faulting_op EXCEPT ![r] = None]
    /\ UNCHANGED <<appVars, pageVars, msg, page, remote, mem>>

\* Bug: the entry that is there keeps its operation.
RecordKeepsOp(r) ==
    Remember(r, [addr |-> faulting_addr[r],
                 op |-> IF prev[r] = None THEN faulting_op[r] ELSE prev[r].op])

\* Updates the uffd_prev_resolved maps; the guard's scope and the locals' end.
Record(r) == Remember(r, [addr |-> faulting_addr[r], op |-> faulting_op[r]])

-----------------------------------------------------------------------------
Handler(r) ==
    \/ CheckPage(r) \/ MapPage(r)
    \/ ReadMsg(r) \/ ReadAddr(r) \/ ReadOp(r)
    \/ Lock(r)
    \/ SavePrev(r) \/ PrevIsClean(r) \/ NoPrev(r) \/ DropPrev(r)
    \/ ResolveLoad(r) \/ SkipStore(r)
    \/ UffdioCopy(r) \/ UffdioCopyFails(r) \/ Record(r)

Execute(t) == Load(t) \/ Store(t) \/ PageFault(t)

Next ==
    \/ \E t \in Threads :
          \/ \E r \in Regions, outcome \in RegisterOutcomes : rmp_alloc(t, r, outcome)
          \/ \E a \in Accesses : Issue(t, a)
          \/ Execute(t)
    \/ \E r \in Regions : Handler(r)

Spec == Init /\ [][Next]_vars

(***************************************************************************)
(* Every thread that can run is eventually scheduled: an application       *)
(* thread retires or retries the instruction it started, and a handler     *)
(* thread takes its next step.  The application need not allocate or issue *)
(* anything.  Only one handler at a time can be past its fault in the runs *)
(* that use this, so weak fairness is enough for the mutex.                *)
(***************************************************************************)
Fairness ==
    /\ \A t \in Threads : WF_vars(Execute(t))
    /\ \A r \in Regions : WF_vars(Handler(r))

FairSpec == Spec /\ Fairness

-----------------------------------------------------------------------------
(***************************************************************************)
(* Properties.                                                             *)
(***************************************************************************)

(***************************************************************************)
(* Every variable has its type; in particular the buffer is mapped before  *)
(* a handler copies it into the application's memory.                      *)
(***************************************************************************)
TypeOK ==
    /\ reg \in [Regions -> Outcomes \cup {"none"}]
    /\ resident \subseteq Addr
    /\ local \in [Addr -> Content]
    /\ acc \in [Threads -> Access \cup {None}]
    /\ tstate \in [Threads -> {"idle", "run", "pending", "asleep"}]
    /\ got \in [Threads -> Values]
    /\ msg \in Fault \cup {None}
    /\ page \in Content \cup {None}
    /\ fault_handler_cr \in Regions \cup {None}
    /\ prev \in [Regions -> Fault \cup {None}]
    /\ pc \in [Regions -> PC]
    /\ faulting_addr \in [Regions -> Addr \cup {None}]
    /\ faulting_op \in [Regions -> Ops \cup {None}]
    /\ remote \in [Addr -> Content]
    /\ mem \in [Addr -> Content]

Watched(a) == reg[a[1]] = "watched"

(***************************************************************************)
(* "Atmost two pages of memory is required" (uffdman.cpp): beside the      *)
(* bounce buffer, a region never has more than one page mapped, although   *)
(* the page it drops is the one that its previous loop iteration recorded  *)
(* after the application was already running again.                        *)
(***************************************************************************)
OneResident ==
    \A a, b \in resident : Watched(a) /\ a[1] = b[1] => a = b

(***************************************************************************)
(* A fault "will be caught by the appropriate fault handler thread"        *)
(* (README.md): from the moment a handler has read a fault until it maps   *)
(* the page, it works on the address and the operation of a thread that    *)
(* sleeps on a fault in its own region.                                    *)
(***************************************************************************)
OwnFaults ==
    \A r \in Regions : pc[r] \in Busy \ {"addr", "op"} =>
        \E t \in Threads :
            /\ tstate[t] = "asleep"
            /\ acc[t].addr = faulting_addr[r]
            /\ acc[t].op = faulting_op[r]
            /\ acc[t].addr[1] = r

(***************************************************************************)
(* When a handler maps the buffer to resolve a load of its own region, the *)
(* buffer holds what the server holds for that page: no other handler      *)
(* thread changed the shared buffer, or the server's page, in between.     *)
(***************************************************************************)
FetchedPageIsCurrent ==
    \A r \in Regions :
        pc[r] = "copy" /\ faulting_op[r] = "load" /\ faulting_addr[r][1] = r
            => page = remote[faulting_addr[r]]

(***************************************************************************)
(* "Reading and writing is done just like a variable access in C"          *)
(* (README.md): a load that is about to retire returns what the            *)
(* application stored last in that word.                                   *)
(***************************************************************************)
LoadsSeeStores ==
    \A t \in Threads :
        tstate[t] = "run" /\ acc[t].op = "load" /\ acc[t].addr \in resident
            => local[acc[t].addr][acc[t].word] = mem[acc[t].addr][acc[t].word]

(***************************************************************************)
(* "The memory of entity which is resoving pages will be behind by one     *)
(* memory address in terms of consistency" (uffdman.cpp): of a watched     *)
(* region the server lacks at most what is in the page still mapped here.  *)
(***************************************************************************)
ServerBehindByOne ==
    \A a \in Addr : Watched(a) /\ a \notin resident => remote[a] = mem[a]

(***************************************************************************)
(* Every access that a thread starts eventually retires: its fault is      *)
(* read, resolved and its thread woken, however often that takes.          *)
(***************************************************************************)
AccessesComplete ==
    \A t \in Threads : tstate[t] # "idle" ~> tstate[t] = "idle"
=============================================================================
