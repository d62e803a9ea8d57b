------------------------------ MODULE RmpServer ------------------------------
(***************************************************************************)
(* The RMP server: the accept loop and the connection threads of           *)
(* server.cpp, and class rmp::Server with its handle counter, its two maps *)
(* and the memory it maps for its clients.  A step is what a thread does   *)
(* between two acquisitions of one of the three mutexes or between two     *)
(* system calls.  A recv here returns a whole packet.                      *)
(***************************************************************************)
EXTENDS Naturals, Sequences

CONSTANTS
    Clients,    \* client processes
    Bases,      \* addresses mmap may return
    Data,       \* contents of a page
    Zero,       \* the contents of a page that mmap returns
    U32,        \* 2^32: u32 arithmetic is modulo U32
    PageSize,   \* packet.size, which every client sets to PAGE_SIZE
    Capacity,   \* pages one mmap call can return
    AllocSizes, \* values of packet.npages in requests
    Offsets,    \* values of packet.offset in requests
    Named,      \* values of packet.hndl in requests
    Writes,     \* values of packet.data in requests
    MaxAllocs,  \* bound: successful allocations in one behaviour
    MaxFds,     \* sockets the process may have open beside the listening one
    Null,       \* the pointer an operator[] on a missing key inserts
    None

MaxPages == U32 \div PageSize
Handles == 0 .. MaxAllocs

Errors == {"ALLOC_FAILED", "READ_FAILED", "WRITE_FAILED", "FREE_FAILED",
           "UNKNOWN_ACTION", "INVALID_HANDLE"}
Actions == {"map", "get", "put", "free", "other"}

Packet == [action : Actions, hndl : Nat, npages : Nat, offset : Nat,
           data : Data, error : Errors \cup {"0"}]

Blank == [action |-> "other", hndl |-> 0, npages |-> 0, offset |-> 0,
          data |-> Zero, error |-> "0"]

\* The requests clients and tests send.  Fields a request does not use are blank;
\* so is error, which the server sets on a failure and otherwise sends back.
MapRequest(n) == [Blank EXCEPT !.action = "map", !.npages = n]
GetRequest(h, o) == [Blank EXCEPT !.action = "get", !.hndl = h, !.offset = o]
PutRequest(h, o, d) == [Blank EXCEPT !.action = "put", !.hndl = h, !.offset = o, !.data = d]
FreeRequest(h) == [Blank EXCEPT !.action = "free", !.hndl = h]

Requests ==
    {Blank}
    \cup {MapRequest(n) : n \in AllocSizes}
    \cup {GetRequest(h, o) : h \in Named, o \in Offsets}
    \cup {PutRequest(h, o, d) : h \in Named, o \in Offsets, d \in Writes}
    \cup {FreeRequest(h) : h \in Named}

ASSUME RmpServerAssumption ==
    /\ PageSize \in Nat \ {0} /\ U32 \in Nat \ {0} /\ U32 % PageSize = 0
    /\ MaxAllocs \in Nat /\ MaxAllocs < U32
    /\ MaxFds \in Nat
    /\ Capacity \in Nat
    /\ AllocSizes \subseteq 0 .. U32 - 1
    /\ Offsets \subseteq 0 .. U32 - 1
    /\ Named \subseteq Handles
    /\ Writes \subseteq Data
    /\ Zero \in Data
    /\ Null \notin Bases
    /\ None \notin Clients
    /\ None \notin Bases \X (0 .. MaxPages - 1)

VARIABLES
    \* the clients and their sockets
    cst,          \* "off", "ready" or "waiting" for an answer
    inbox,        \* a request lies unread in the server's socket
    \* main() of server.cpp
    backlog,      \* connections the kernel holds for accept, oldest first
    serving,      \* the connection whose thread main waits for, or None
    fds,          \* sockets that accept returned, none of which is ever closed
    spinning,     \* main waits for a thread it started on client_sock = -1
    \* the connection threads
    hpc,          \* next step of connection_handler
    pkt,          \* *req
    loc,          \* locals of alloc, read, write and free
    \* rmp::Server
    handle_count, addr_map, hndl_n_pages,
    \* the memory of the process
    mapped,       \* pages mapped at a base, 0 when none are
    bytes,        \* their contents, Zero where nothing is mapped
    up            \* the process has not been killed

ZeroPages == [i \in 0 .. MaxPages - 1 |-> Zero]
NoLocals == [addr |-> Null, npages |-> 0, hndl |-> 0]

fdVars == <<fds, spinning>>
netVars == <<cst, inbox, backlog, serving, fdVars>>
srvVars == <<handle_count, addr_map, hndl_n_pages>>
memVars == <<mapped, bytes, up>>
vars == <<netVars, hpc, pkt, loc, srvVars, memVars>>

Init ==
    /\ cst = [c \in Clients |-> "off"]
    /\ inbox = [c \in Clients |-> FALSE]
    /\ backlog = <<>>
    /\ serving = None
    /\ fds = 0
    /\ spinning = FALSE
    /\ hpc = [c \in Clients |-> "none"]
    /\ pkt = [c \in Clients |-> Blank]
    /\ loc = [c \in Clients |-> NoLocals]
    /\ handle_count = 0
    /\ addr_map = [h \in {} |-> Null]
    /\ hndl_n_pages = [h \in {} |-> 0]
    /\ mapped = [b \in Bases |-> 0]
    /\ bytes = [b \in Bases |-> ZeroPages]
    /\ up = TRUE

\* f[k] = v and f.erase(k) of an unordered_map
Insert(f, k, v) == [x \in DOMAIN f \cup {k} |-> IF x = k THEN v ELSE f[x]]
Erase(f, k) == [x \in DOMAIN f \ {k} |-> f[x]]

-----------------------------------------------------------------------------
(***************************************************************************)
(* Clients connect, send one request at a time and wait for its answer,    *)
(* and end or die at any time.                                             *)
(***************************************************************************)
Connect(c) ==
    /\ cst[c] = "off"
    /\ hpc[c] = "none"
    /\ cst' = [cst EXCEPT ![c] = "ready"]
    /\ hpc' = [hpc EXCEPT ![c] = "backlog"]
    /\ backlog' = Append(backlog, c)
    /\ UNCHANGED <<inbox, serving, fdVars, pkt, loc, srvVars, memVars>>

Request(c, request) ==
    /\ cst[c] = "ready"
    /\ cst' = [cst EXCEPT ![c] = "waiting"]
    /\ inbox' = [inbox EXCEPT ![c] = TRUE]
    /\ pkt' = [pkt EXCEPT ![c] = request]
    /\ UNCHANGED <<backlog, serving, fdVars, hpc, loc, srvVars, memVars>>

Close(c) ==
    /\ cst[c] # "off"
    /\ cst' = [cst EXCEPT ![c] = "off"]
    /\ UNCHANGED <<inbox, backlog, serving, fdVars, hpc, pkt, loc, srvVars, memVars>>

-----------------------------------------------------------------------------
(***************************************************************************)
(* main(): accept, pthread_create, pthread_join.  No thread closes its     *)
(* socket, so each accept takes a descriptor for good.                     *)
(***************************************************************************)
Spawn ==
    /\ up
    /\ ~spinning
    /\ backlog # <<>>
    /\ fds < MaxFds
    /\ fds' = fds + 1
    /\ serving' = Head(backlog)
    /\ hpc' = [hpc EXCEPT ![Head(backlog)] = "recv"]
    /\ backlog' = Tail(backlog)
    /\ UNCHANGED <<cst, inbox, spinning, pkt, loc, srvVars, memVars>>

\* Bug: a thread is detached instead of joined.
AcceptWithoutJoin == Spawn

Accept == serving = None /\ Spawn

Spin(before, after) ==
    /\ up
    /\ serving = None
    /\ spinning = before
    /\ spinning' = after
    /\ UNCHANGED <<cst, inbox, backlog, serving, fds, hpc, pkt, loc, srvVars, memVars>>

\* accept returns -1, which the loop takes for a connection like any other, whether somebody
\* waits or not: out of descriptors always, and otherwise for reasons that pass.
AcceptFails == Spin(FALSE, TRUE)

\* recv(-1) fails, the thread ends, main joins it and goes round its loop.
JoinFailed == Spin(TRUE, FALSE)

\* pthread_join returns when the thread has ended.
Join(c) ==
    /\ up
    /\ hpc[c] = "done"
    /\ serving = c
    /\ serving' = None
    /\ hpc' = [hpc EXCEPT ![c] = "none"]
    /\ UNCHANGED <<cst, inbox, backlog, fdVars, pkt, loc, srvVars, memVars>>

-----------------------------------------------------------------------------
(***************************************************************************)
(* connection_handler and rmp::Server::handle.                             *)
(***************************************************************************)

\* The thread of c is at step from and goes on at step to.
At(c, from, to) ==
    /\ up
    /\ hpc[c] = from
    /\ hpc' = [hpc EXCEPT ![c] = to]

\* packet->error = error; the answer is ready.
Fail(c, from, error) ==
    /\ At(c, from, "send")
    /\ pkt' = [pkt EXCEPT ![c].error = error]
    /\ UNCHANGED <<netVars, loc, srvVars, memVars>>

\* recv() > 0 and the dispatch on packet->action.
Recv(c) ==
    /\ inbox[c]
    /\ pkt[c].action # "other"
    /\ At(c, "recv", IF pkt[c].action = "map" THEN "mmap" ELSE "has")
    /\ inbox' = [inbox EXCEPT ![c] = FALSE]
    /\ UNCHANGED <<cst, backlog, serving, fdVars, pkt, loc, srvVars, memVars>>

RecvUnknown(c) ==
    /\ inbox[c]
    /\ pkt[c].action = "other"
    /\ At(c, "recv", "send")
    /\ pkt' = [pkt EXCEPT ![c].error = "UNKNOWN_ACTION"]
    /\ inbox' = [inbox EXCEPT ![c] = FALSE]
    /\ UNCHANGED <<cst, backlog, serving, fdVars, loc, srvVars, memVars>>

\* send(): the answer reaches a client that still waits.  The next recv overwrites
\* *req, so what it holds until then is blanked.
Send(c) ==
    /\ At(c, "send", "recv")
    /\ cst' = [cst EXCEPT ![c] = IF @ = "waiting" THEN "ready" ELSE @]
    /\ pkt' = [pkt EXCEPT ![c] = Blank]
    /\ loc' = [loc EXCEPT ![c] = NoLocals]
    /\ UNCHANGED <<inbox, backlog, serving, fdVars, srvVars, memVars>>

\* Bug: the loop goes on when recv returns 0.
DisconnectedIgnored(c) ==
    /\ cst[c] = "off" /\ ~inbox[c]
    /\ At(c, "recv", "recv")
    /\ UNCHANGED <<netVars, pkt, loc, srvVars, memVars>>

\* recv() = 0: the client is gone, the thread ends and leaves its socket open.
Disconnected(c) ==
    /\ cst[c] = "off" /\ ~inbox[c]
    /\ At(c, "recv", "done")
    /\ UNCHANGED <<netVars, pkt, loc, srvVars, memVars>>

-----------------------------------------------------------------------------
(***************************************************************************)
(* alloc                                                                   *)
(***************************************************************************)

\* npages * page_size, a product of two u32
RegionSize(npages) == (npages * PageSize) % U32

\* mmap maps a region of zeros at a base of its choice.
Mmap(c) ==
    LET pages == RegionSize(pkt[c].npages) \div PageSize IN
    /\ At(c, "mmap", "handle")
    /\ pages > 0
    /\ pages <= Capacity
    /\ handle_count < MaxAllocs
    /\ \E b \in Bases :
          /\ mapped[b] = 0
          /\ mapped' = [mapped EXCEPT ![b] = pages]
          /\ bytes' = [bytes EXCEPT ![b] = ZeroPages]
          /\ loc' = [loc EXCEPT ![c].addr = b]
    /\ UNCHANGED <<netVars, pkt, srvVars, up>>

\* MAP_FAILED: a length of 0, or too little memory, at any time.
MmapFails(c) == Fail(c, "mmap", "ALLOC_FAILED")

GiveHandle(c, h) ==
    /\ At(c, "handle", "set_addr")
    /\ loc' = [loc EXCEPT ![c].hndl = h]
    /\ handle_count' = (handle_count + 1) % U32
    /\ UNCHANGED <<netVars, pkt, addr_map, hndl_n_pages, memVars>>

\* Bug: the smallest handle that is not in use is given out.
get_free_handle(c) ==
    GiveHandle(c, CHOOSE h \in Handles \ DOMAIN addr_map :
                      \A k \in Handles \ DOMAIN addr_map : h <= k)

get_new_handle(c) == GiveHandle(c, handle_count)

set_addr_map(c) ==
    /\ At(c, "set_addr", "set_n_pages")
    /\ addr_map' = Insert(addr_map, loc[c].hndl, loc[c].addr)
    /\ UNCHANGED <<netVars, pkt, loc, handle_count, hndl_n_pages, memVars>>

Publish(c, npages) ==
    /\ At(c, "set_n_pages", "send")
    /\ hndl_n_pages' = Insert(hndl_n_pages, loc[c].hndl, npages)
    /\ pkt' = [pkt EXCEPT ![c].hndl = loc[c].hndl]
    /\ UNCHANGED <<netVars, loc, handle_count, addr_map, memVars>>

\* Bug: the size in bytes is recorded.
set_n_pages_in_bytes(c) == Publish(c, pkt[c].npages * PageSize)

\* set_hndl_n_pages; alloc returns and handle_alloc stores the handle.
set_hndl_n_pages(c) == Publish(c, pkt[c].npages)

-----------------------------------------------------------------------------
(***************************************************************************)
(* read, write and free share their first steps.                           *)
(***************************************************************************)

\* contains_key in handle_read, handle_write and handle_free
contains_key(c) ==
    IF pkt[c].hndl \in DOMAIN addr_map
    THEN /\ At(c, "has", IF pkt[c].action = "free" THEN "has_again" ELSE "get_n_pages")
         /\ UNCHANGED <<netVars, pkt, loc, srvVars, memVars>>
    ELSE Fail(c, "has", "INVALID_HANDLE")

\* contains_key once more, in Server::free
contains_key_again(c) ==
    IF pkt[c].hndl \in DOMAIN addr_map
    THEN /\ At(c, "has_again", "get_n_pages")
         /\ UNCHANGED <<netVars, pkt, loc, srvVars, memVars>>
    ELSE Fail(c, "has_again", "FREE_FAILED")

\* operator[] inserts 0 for a handle that is not there.
Value(f, k, default) == IF k \in DOMAIN f THEN f[k] ELSE default

get_hndl_n_pages(c) ==
    LET n == Value(hndl_n_pages, pkt[c].hndl, 0) IN
    /\ hndl_n_pages' = Insert(hndl_n_pages, pkt[c].hndl, n)
    /\ loc' = [loc EXCEPT ![c].npages = n]
    /\ IF pkt[c].action = "free" /\ n = 0
       THEN At(c, "get_n_pages", "send") /\ pkt' = [pkt EXCEPT ![c].error = "FREE_FAILED"]
       ELSE At(c, "get_n_pages", "get_addr") /\ UNCHANGED pkt
    /\ UNCHANGED <<netVars, handle_count, addr_map, memVars>>

OutOfRange(action) == IF action = "get" THEN "READ_FAILED" ELSE "WRITE_FAILED"

\* get_addr_map, then the offset check of read and write.
Locate(c, inRange) ==
    LET b == Value(addr_map, pkt[c].hndl, Null) IN
    /\ addr_map' = Insert(addr_map, pkt[c].hndl, b)
    /\ loc' = [loc EXCEPT ![c].addr = b]
    /\ IF pkt[c].action = "free" \/ inRange
       THEN /\ At(c, "get_addr", IF pkt[c].action = "free" THEN "munmap" ELSE "memcpy")
            /\ UNCHANGED pkt
       ELSE /\ At(c, "get_addr", "send")
            /\ pkt' = [pkt EXCEPT ![c].error = OutOfRange(pkt[c].action)]
    /\ UNCHANGED <<netVars, handle_count, hndl_n_pages, memVars>>

\* Bug: offset > npages is what is refused.
get_addr_map_off_by_one(c) == Locate(c, pkt[c].offset <= loc[c].npages)

get_addr_map(c) == Locate(c, pkt[c].offset < loc[c].npages)

(***************************************************************************)
(* The page that memcpy reaches at addr + size * offset, the product a u32 *)
(* again.  Outside the mapping at addr it may be any page mapped next to   *)
(* it, or none, and then the process is killed: None.                      *)
(***************************************************************************)
Reached(base, offset) ==
    LET i == RegionSize(offset) \div PageSize IN
    IF base # Null /\ i < mapped[base]
    THEN {<<base, i>>}
    ELSE {at \in Bases \X (0 .. MaxPages - 1) : at[2] < mapped[at[1]]} \cup {None}

Memcpy(c) ==
    \E at \in Reached(loc[c].addr, pkt[c].offset) :
        /\ At(c, "memcpy", "send")
        /\ IF at = None
           THEN up' = FALSE /\ UNCHANGED <<pkt, bytes>>
           ELSE /\ UNCHANGED up
                /\ IF pkt[c].action = "get"
                   THEN pkt' = [pkt EXCEPT ![c].data = bytes[at[1]][at[2]]] /\ UNCHANGED bytes
                   ELSE bytes' = [bytes EXCEPT ![at[1]][at[2]] = pkt[c].data] /\ UNCHANGED pkt
        /\ UNCHANGED <<netVars, loc, srvVars, mapped>>

\* Bug: munmap is not called.
MunmapForgotten(c) ==
    /\ RegionSize(loc[c].npages) > 0
    /\ At(c, "munmap", "unset_addr")
    /\ UNCHANGED <<netVars, pkt, loc, srvVars, memVars>>

\* munmap refuses a length of 0 and accepts pages that are not mapped.
Munmap(c) ==
    LET pages == RegionSize(loc[c].npages) \div PageSize IN
    IF pages = 0
    THEN Fail(c, "munmap", "FREE_FAILED")
    ELSE /\ At(c, "munmap", "unset_addr")
         /\ mapped' = [b \in Bases |->
                         IF b # loc[c].addr THEN mapped[b]
                         ELSE IF pages >= mapped[b] THEN 0 ELSE mapped[b] - pages]
         /\ bytes' = [b \in Bases |-> IF b = loc[c].addr THEN ZeroPages ELSE bytes[b]]
         /\ UNCHANGED <<netVars, pkt, loc, srvVars, up>>

unset_addr_map(c) ==
    /\ At(c, "unset_addr", "unset_n_pages")
    /\ addr_map' = Erase(addr_map, pkt[c].hndl)
    /\ UNCHANGED <<netVars, pkt, loc, handle_count, hndl_n_pages, memVars>>

unset_hndl_n_pages(c) ==
    /\ At(c, "unset_n_pages", "send")
    /\ hndl_n_pages' = Erase(hndl_n_pages, pkt[c].hndl)
    /\ UNCHANGED <<netVars, pkt, loc, handle_count, addr_map, memVars>>

-----------------------------------------------------------------------------
Alloc(c) == Mmap(c) \/ MmapFails(c) \/ get_new_handle(c) \/ set_addr_map(c) \/ set_hndl_n_pages(c)

Find(c) == contains_key(c) \/ contains_key_again(c) \/ get_hndl_n_pages(c) \/ get_addr_map(c)

Free(c) == Munmap(c) \/ unset_addr_map(c) \/ unset_hndl_n_pages(c)

connection_handler(c) ==
    \/ Recv(c) \/ RecvUnknown(c) \/ Send(c) \/ Disconnected(c)
    \/ Alloc(c) \/ Find(c) \/ Memcpy(c) \/ Free(c)

Next ==
    \/ \E c \in Clients :
          \/ Connect(c)
          \/ \E request \in Requests : Request(c, request)
          \/ Close(c)
          \/ Join(c)
          \/ connection_handler(c)
    \/ Accept \/ AcceptFails \/ JoinFailed

Spec == Init /\ [][Next]_vars

\* The threads of the server are scheduled, and an accept that could succeed does not fail
\* for ever; a client need not do anything.
Fairness ==
    /\ SF_vars(Accept) /\ WF_vars(JoinFailed)
    /\ \A c \in Clients : WF_vars(Join(c)) /\ WF_vars(connection_handler(c))

FairSpec == Spec /\ Fairness

-----------------------------------------------------------------------------
(***************************************************************************)
(* Properties.                                                             *)
(***************************************************************************)
HandlerSteps ==
    {"none", "backlog", "recv", "send", "done",
     "mmap", "handle", "set_addr", "set_n_pages",
     "has", "has_again", "get_n_pages", "get_addr", "memcpy",
     "munmap", "unset_addr", "unset_n_pages"}

(***************************************************************************)
(* Every variable has its type; in particular no thread left a null base   *)
(* in addr_map, and no packet got a handle that was never given out.       *)
(***************************************************************************)
TypeOK ==
    /\ cst \in [Clients -> {"off", "ready", "waiting"}]
    /\ inbox \in [Clients -> BOOLEAN]
    /\ backlog \in Seq(Clients)
    /\ serving \in Clients \cup {None}
    /\ fds \in 0 .. MaxFds
    /\ spinning \in BOOLEAN
    /\ hpc \in [Clients -> HandlerSteps]
    /\ pkt \in [Clients -> Packet]
    /\ loc \in [Clients -> [addr : Bases \cup {Null}, npages : Nat, hndl : Handles]]
    /\ handle_count \in Handles
    /\ DOMAIN addr_map \subseteq Handles
    /\ \A h \in DOMAIN addr_map : addr_map[h] \in Bases
    /\ DOMAIN hndl_n_pages \subseteq Handles
    /\ \A h \in DOMAIN hndl_n_pages : hndl_n_pages[h] \in Nat
    /\ mapped \in [Bases -> 0 .. MaxPages]
    /\ bytes \in [Bases -> [0 .. MaxPages - 1 -> Data]]
    /\ up \in BOOLEAN

\* The threads between the munmap of a handle and the end of its entries.
Freeing(h) ==
    \E c \in Clients : hpc[c] \in {"unset_addr", "unset_n_pages"} /\ pkt[c].hndl = h

\* The handles a client can use.
Live == {h \in DOMAIN addr_map \cap DOMAIN hndl_n_pages : ~Freeing(h)}

(***************************************************************************)
(* The two maps, which have a mutex each, agree with the memory they       *)
(* describe: a live handle has its own region, mapped, of as many pages as *)
(* hndl_n_pages says.                                                      *)
(***************************************************************************)
Backed ==
    \A h \in Live :
        /\ hndl_n_pages[h] > 0
        /\ mapped[addr_map[h]] = hndl_n_pages[h]
        /\ \A k \in Live : addr_map[k] = addr_map[h] => k = h

(***************************************************************************)
(* What alloc mapped stays reachable until free unmaps it: a mapped region *)
(* is in addr_map or in the hands of a thread that will put it there.      *)
(***************************************************************************)
NoLeak ==
    \A b \in Bases : mapped[b] > 0 =>
        \/ \E h \in DOMAIN addr_map : addr_map[h] = b /\ ~Freeing(h)
        \/ \E c \in Clients : hpc[c] \in {"handle", "set_addr"} /\ loc[c].addr = b

(***************************************************************************)
(* read and write look the handle up under one mutex, its size under       *)
(* another, check the offset, and copy under none: what they copy from or  *)
(* to is still inside the region of the handle.                            *)
(***************************************************************************)
CopyInBounds ==
    \A c \in Clients : hpc[c] = "memcpy" =>
        /\ pkt[c].hndl \in Live
        /\ addr_map[pkt[c].hndl] = loc[c].addr
        /\ pkt[c].offset < mapped[loc[c].addr]

\* A handle that was given out and that no client can use, now or when alloc returns.
Spent(h) ==
    /\ h < handle_count
    /\ h \notin Live
    /\ \A c \in Clients : hpc[c] \in {"set_addr", "set_n_pages"} => loc[c].hndl # h

(***************************************************************************)
(* A handle that was freed stays invalid: neither a later alloc, which     *)
(* may map its old address again, nor an operator[] of a late request for  *)
(* it, which inserts what it does not find, makes it usable once more.  A  *)
(* client that kept it reaches nobody's pages.                             *)
(***************************************************************************)
FreedStaysFreed == [][\A h \in Handles : Spent(h) => Spent(h)']_vars

(***************************************************************************)
(* An allocation of more pages than the machine has is refused             *)
(* (test_alloc_a_lot_of_pages in rmp_test.cpp).                            *)
(***************************************************************************)
HugeAllocFails ==
    \A c \in Clients :
        hpc[c] = "send" /\ pkt[c].action = "map" /\ pkt[c].npages > Capacity
            => pkt[c].error = "ALLOC_FAILED"

-----------------------------------------------------------------------------
(***************************************************************************)
(* The server implements the page pool.  A request takes effect when its   *)
(* thread publishes the handle, copies the page, unmaps the region or      *)
(* finds an error.                                                         *)
(***************************************************************************)
poolBar ==
    [h \in Live |-> [i \in 0 .. hndl_n_pages[h] - 1 |-> bytes[addr_map[h]][i]]]

stBar ==
    [c \in Clients |->
        IF hpc[c] \in {"send", "unset_addr", "unset_n_pages"} THEN "done"
        ELSE IF inbox[c] \/ hpc[c] \notin {"none", "backlog", "recv", "done"} THEN "asked"
        ELSE "idle"]

Pool == INSTANCE PagePool WITH pool <- poolBar, st <- stBar

(***************************************************************************)
(* Every request acts on the allocations at once, exactly once and in      *)
(* isolation, between its arrival and its answer, although alloc, read,    *)
(* write and free each take several critical sections of three mutexes,    *)
(* and whichever client dies meanwhile.                                    *)
(***************************************************************************)
Linearizable == Pool!Spec

(***************************************************************************)
(* main joins a connection's thread before it accepts the next one: if     *)
(* every client leaves again and again, each waiting connection gets its   *)
(* thread, unless the process runs out of descriptors, because each client *)
(* that left has kept one.                                                 *)
(***************************************************************************)
Served ==
    (\A c \in Clients : []<>(cst[c] = "off"))
        => \A c \in Clients : hpc[c] = "backlog" ~> hpc[c] # "backlog" \/ fds = MaxFds
=============================================================================
