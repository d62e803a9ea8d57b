--------------------------- MODULE RmpServerProofs ---------------------------
(***************************************************************************)
(* Theorems about the RMP server, for any number of clients, regions and   *)
(* pages.  The server creates a thread per connection but joins it before  *)
(* it accepts the next, so no two threads are ever between recv and send:  *)
(* that is what the three separate mutexes of rmp::Server rely on.         *)
(***************************************************************************)
EXTENDS RmpServer, TLAPS

\* The pages mmap maps, and munmap unmaps, for a request of npages.
Pages(npages) == RegionSize(npages) \div PageSize

\* main has created the threads that exist one at a time.
Joined == \A c \in Clients : hpc[c] \notin {"none", "backlog"} => serving = c

\* A client has at most one request under way, and none when it connects.
OneRequest ==
    \A c \in Clients :
        /\ hpc[c] \in {"none", "done"} => cst[c] = "off"
        /\ cst[c] = "ready" \/ inbox[c] => hpc[c] \in {"backlog", "recv"}
        /\ cst[c] = "ready" => ~inbox[c]

\* Sizes come from requests.
Asked == \A c \in Clients : pkt[c].action = "map" => pkt[c].npages \in AllocSizes

\* handle() sends each action to its own steps.
Dispatched(c) ==
    /\ hpc[c] \in {"mmap", "handle", "set_addr", "set_n_pages"} => pkt[c].action = "map"
    /\ hpc[c] \in {"has", "get_n_pages", "get_addr"} => pkt[c].action \in {"get", "put", "free"}
    /\ hpc[c] = "memcpy" => pkt[c].action \in {"get", "put"}
    /\ hpc[c] \in {"has_again", "munmap", "unset_addr", "unset_n_pages"} =>
          pkt[c].action = "free"

(***************************************************************************)
(* alloc, between mmap and the two maps: the region is the thread's own,   *)
(* still zero, and the handle is new.                                      *)
(***************************************************************************)
Allocating(c) ==
    /\ hpc[c] = "handle" => handle_count < MaxAllocs
    /\ hpc[c] \in {"handle", "set_addr", "set_n_pages"} =>
          /\ loc[c].addr \in Bases
          /\ mapped[loc[c].addr] = Pages(pkt[c].npages)
          /\ mapped[loc[c].addr] > 0
          /\ bytes[loc[c].addr] = ZeroPages
    /\ hpc[c] \in {"handle", "set_addr"} =>
          \A h \in DOMAIN addr_map : addr_map[h] # loc[c].addr
    /\ hpc[c] = "set_addr" =>
          /\ loc[c].hndl < handle_count
          /\ loc[c].hndl \notin DOMAIN addr_map
    /\ hpc[c] \in {"set_addr", "set_n_pages"} => loc[c].hndl \notin DOMAIN hndl_n_pages
    /\ hpc[c] = "set_n_pages" =>
          /\ loc[c].hndl \in DOMAIN addr_map
          /\ addr_map[loc[c].hndl] = loc[c].addr

(***************************************************************************)
(* read, write and free: what the thread has read from the maps is what    *)
(* they still hold when it uses it.                                        *)
(***************************************************************************)
Found(c) ==
    /\ hpc[c] \in {"has_again", "get_n_pages", "get_addr", "memcpy", "munmap", "unset_addr"} =>
          pkt[c].hndl \in DOMAIN addr_map \cap DOMAIN hndl_n_pages
    /\ hpc[c] \in {"get_addr", "memcpy", "munmap"} =>
          loc[c].npages = hndl_n_pages[pkt[c].hndl]
    /\ hpc[c] \in {"memcpy", "munmap"} => loc[c].addr = addr_map[pkt[c].hndl]
    /\ hpc[c] = "memcpy" => pkt[c].offset < loc[c].npages
    /\ hpc[c] = "unset_addr" => mapped[addr_map[pkt[c].hndl]] = 0
    /\ hpc[c] = "unset_n_pages" => pkt[c].hndl \in DOMAIN hndl_n_pages \ DOMAIN addr_map

\* The two maps have the same handles but for the one being added or removed.
SameHandles ==
    /\ \A h \in DOMAIN addr_map \cup DOMAIN hndl_n_pages : h < handle_count
    /\ \A h \in DOMAIN addr_map :
          \/ h \in DOMAIN hndl_n_pages
          \/ \E c \in Clients : hpc[c] = "set_n_pages" /\ loc[c].hndl = h
    /\ \A h \in DOMAIN hndl_n_pages :
          \/ h \in DOMAIN addr_map
          \/ \E c \in Clients : hpc[c] = "unset_n_pages" /\ pkt[c].hndl = h

\* Every handle has a region of its own, of the size that was asked for.
OwnRegions ==
    /\ \A h, k \in DOMAIN addr_map : addr_map[h] = addr_map[k] => h = k
    /\ \A h \in DOMAIN hndl_n_pages : hndl_n_pages[h] \in AllocSizes
    /\ \A h \in Live :
          /\ mapped[addr_map[h]] = Pages(hndl_n_pages[h])
          /\ mapped[addr_map[h]] > 0

ServerInv ==
    /\ TypeOK
    /\ Joined
    /\ OneRequest
    /\ Asked
    /\ \A c \in Clients : Dispatched(c) /\ Allocating(c) /\ Found(c)
    /\ SameHandles
    /\ OwnRegions
    /\ NoLeak

-----------------------------------------------------------------------------
(***************************************************************************)
(* Arithmetic on sizes: a region has at most as many pages as a u32 of     *)
(* bytes allows, and exactly the pages asked for when the product does not *)
(* wrap.                                                                   *)
(***************************************************************************)
LEMMA PagesFit ==
  ASSUME NEW n \in Nat
  PROVE  /\ RegionSize(n) \in Nat
         /\ Pages(n) \in 0 .. MaxPages
         /\ MaxPages \in Nat
  <1>1. n * PageSize \in Nat
    BY RmpServerAssumption
  <1>2. RegionSize(n) \in Nat /\ RegionSize(n) < U32
    BY <1>1, RmpServerAssumption DEF RegionSize
  <1> QED BY <1>2, RmpServerAssumption DEF Pages, MaxPages

LEMMA PagesExact ==
  ASSUME NEW n \in Nat, n < MaxPages
  PROVE  Pages(n) = n
  <1>1. n * PageSize \in Nat /\ n * PageSize < U32
    BY RmpServerAssumption DEF MaxPages
  <1>2. RegionSize(n) = n * PageSize
    BY <1>1, RmpServerAssumption DEF RegionSize
  <1> QED BY <1>2, RmpServerAssumption DEF Pages

\* Requests are packets, and their sizes are those clients ask for.
LEMMA RequestsArePackets ==
  /\ Requests \subseteq Packet
  /\ \A request \in Requests : request.action = "map" => request.npages \in AllocSizes
  <1>1. Blank \in Packet
    BY RmpServerAssumption DEF Blank, Packet, Actions, Errors
  <1>2. AllocSizes \subseteq Nat /\ Offsets \subseteq Nat /\ Named \subseteq Nat /\ Writes \subseteq Data
    BY RmpServerAssumption DEF Handles
  <1>3. ASSUME NEW request \in Requests
        PROVE  request \in Packet /\ (request.action = "map" => request.npages \in AllocSizes)
    <2>1. CASE request = Blank
      BY <1>1, <2>1 DEF Blank
    <2>2. ASSUME NEW n \in AllocSizes, request = MapRequest(n)
          PROVE  request \in Packet /\ request.npages \in AllocSizes
      BY <1>1, <1>2, <2>2 DEF MapRequest, Packet, Actions, Blank
    <2>3. ASSUME NEW h \in Named, NEW o \in Offsets, request = GetRequest(h, o)
          PROVE  request \in Packet /\ request.action # "map"
      BY <1>1, <1>2, <2>3 DEF GetRequest, Packet, Actions, Blank
    <2>4. ASSUME NEW h \in Named, NEW o \in Offsets, NEW d \in Writes,
                 request = PutRequest(h, o, d)
          PROVE  request \in Packet /\ request.action # "map"
      BY <1>1, <1>2, <2>4 DEF PutRequest, Packet, Actions, Blank
    <2>5. ASSUME NEW h \in Named, request = FreeRequest(h)
          PROVE  request \in Packet /\ request.action # "map"
      BY <1>1, <1>2, <2>5 DEF FreeRequest, Packet, Actions, Blank
    <2> QED BY <2>1, <2>2, <2>3, <2>4, <2>5 DEF Requests
  <1> QED BY <1>3

-----------------------------------------------------------------------------
(***************************************************************************)
(* The thread of c takes a step: every other thread is not yet created or  *)
(* has ended, so what is said of threads has to be shown of c only.        *)
(***************************************************************************)
LEMMA OnlyThread ==
  ASSUME TypeOK, Joined, NEW c \in Clients, NEW from, NEW to,
         At(c, from, to), from \notin {"none", "backlog"}, UNCHANGED serving
  PROVE  /\ hpc[c] = from /\ hpc'[c] = to
         /\ Joined'
         /\ \A d \in Clients \ {c} :
               /\ hpc'[d] = hpc[d] /\ hpc[d] \in {"none", "backlog"}
               /\ Dispatched(d)' /\ Allocating(d)' /\ Found(d)'
         /\ \A h : Freeing(h) <=> from \in {"unset_addr", "unset_n_pages"} /\ pkt[c].hndl = h
         /\ \A h : Freeing(h)' <=> to \in {"unset_addr", "unset_n_pages"} /\ pkt'[c].hndl = h
  <1>1. hpc[c] = from /\ hpc'[c] = to /\ \A d \in Clients \ {c} : hpc'[d] = hpc[d]
    BY DEF At, TypeOK
  <1>2. serving = c /\ \A d \in Clients \ {c} : hpc[d] \in {"none", "backlog"}
    BY <1>1 DEF Joined
  <1>3. Joined'
    BY <1>1, <1>2 DEF Joined
  <1>4. \A d \in Clients \ {c} : Dispatched(d)' /\ Allocating(d)' /\ Found(d)'
    BY <1>1, <1>2 DEF Dispatched, Allocating, Found
  <1>5. \A h : Freeing(h) <=> from \in {"unset_addr", "unset_n_pages"} /\ pkt[c].hndl = h
    BY <1>1, <1>2 DEF Freeing
  <1>6. \A h : Freeing(h)' <=> to \in {"unset_addr", "unset_n_pages"} /\ pkt'[c].hndl = h
    BY <1>1, <1>2 DEF Freeing
  <1> QED BY <1>1, <1>2, <1>3, <1>4, <1>5, <1>6

\* The steps at which a thread holds a region or an entry that the maps do not show.
Holding == {"handle", "set_addr", "set_n_pages", "unset_addr", "unset_n_pages"}

\* Two maps with the same keys and values.
SameMap(f, g) == DOMAIN f = DOMAIN g /\ \A k \in DOMAIN g : f[k] = g[k]

(***************************************************************************)
(* A step that leaves the maps and the memory alone, and that no thread    *)
(* takes from or to a step where it holds something, keeps what is said of *)
(* them.                                                                   *)
(***************************************************************************)
LEMMA MapsUntouched ==
  ASSUME SameHandles, OwnRegions, NoLeak, UNCHANGED <<handle_count, mapped>>,
         SameMap(addr_map', addr_map), SameMap(hndl_n_pages', hndl_n_pages),
         \A d \in Clients :
            \/ hpc'[d] = hpc[d] /\ pkt'[d].hndl = pkt[d].hndl /\ loc'[d] = loc[d]
            \/ hpc[d] \notin Holding /\ hpc'[d] \notin Holding
  PROVE  SameHandles' /\ OwnRegions' /\ NoLeak'
  <1> USE DEF SameMap
  <1>1. \A h : Freeing(h)' <=> Freeing(h)
    BY DEF Freeing, Holding
  <1>2. SameHandles'
    BY DEF SameHandles, Holding
  <1>3. Live' = Live
    BY <1>1 DEF Live
  <1>4. OwnRegions'
    BY <1>3 DEF OwnRegions, Live
  <1>5. NoLeak'
    BY <1>1 DEF NoLeak, Holding
  <1> QED BY <1>2, <1>4, <1>5

(***************************************************************************)
(* While no thread holds anything the two maps have the same handles, all  *)
(* of them live.                                                           *)
(***************************************************************************)
LEMMA Settled ==
  ASSUME SameHandles, \A d \in Clients : hpc[d] \notin Holding
  PROVE  DOMAIN addr_map = Live /\ DOMAIN hndl_n_pages = Live
  BY DEF SameHandles, Holding, Live, Freeing

-----------------------------------------------------------------------------
(***************************************************************************)
(* Initially no thread runs and nothing is mapped.                         *)
(***************************************************************************)
LEMMA ServerInit == Init => ServerInv
  <1> SUFFICES ASSUME Init PROVE ServerInv
    OBVIOUS
  <1> USE DEF Init
  <1>1. Blank \in Packet /\ Blank \in Requests
    BY RequestsArePackets DEF Requests
  <1>2. NoLocals \in [addr : Bases \cup {Null}, npages : Nat, hndl : Handles]
    BY RmpServerAssumption DEF NoLocals, Handles
  <1>3. MaxPages \in Nat
    BY PagesFit
  <1>4. TypeOK
    <2>1. /\ fds \in 0 .. MaxFds /\ handle_count \in Handles
          /\ mapped \in [Bases -> 0 .. MaxPages]
      BY <1>3, RmpServerAssumption DEF Handles
    <2>2. /\ spinning \in BOOLEAN /\ up \in BOOLEAN /\ inbox \in [Clients -> BOOLEAN]
          /\ bytes \in [Bases -> [0 .. MaxPages - 1 -> Data]]
      BY RmpServerAssumption DEF ZeroPages
    <2>3. backlog \in Seq(Clients) /\ loc \in [Clients -> [addr : Bases \cup {Null}, npages : Nat, hndl : Handles]]
      BY <1>2
    <2> QED BY <1>1, <2>1, <2>2, <2>3 DEF TypeOK, HandlerSteps
  <1>5. Joined /\ OneRequest /\ Asked
    BY DEF Joined, OneRequest, Asked, Blank
  <1>6. \A c \in Clients : Dispatched(c) /\ Allocating(c) /\ Found(c)
    BY DEF Dispatched, Allocating, Found
  <1>7. SameHandles /\ OwnRegions /\ NoLeak
    BY DEF SameHandles, OwnRegions, NoLeak, Live
  <1> QED BY <1>4, <1>5, <1>6, <1>7 DEF ServerInv

(***************************************************************************)
(* Clients connect, ask and leave.  A client asks only when it has no      *)
(* request under way, so it never changes a packet that a thread works on. *)
(***************************************************************************)
LEMMA ClientSteps ==
  ASSUME ServerInv, NEW c \in Clients,
         Connect(c) \/ (\E request \in Requests : Request(c, request)) \/ Close(c)
  PROVE  ServerInv'
  <1> USE DEF ServerInv
  <1>1. CASE Connect(c)
    <2> USE <1>1 DEF Connect
    <2>1. TypeOK'
      BY DEF TypeOK, HandlerSteps, fdVars, srvVars, memVars
    <2>2. Joined' /\ OneRequest' /\ Asked'
      BY DEF TypeOK, Joined, OneRequest, Asked
    <2>3. \A d \in Clients : Dispatched(d)' /\ Allocating(d)' /\ Found(d)'
      BY DEF TypeOK, Dispatched, Allocating, Found, srvVars, memVars
    <2>4. SameHandles' /\ OwnRegions' /\ NoLeak'
      BY MapsUntouched DEF TypeOK, Holding, memVars, srvVars, SameMap
    <2> QED BY <2>1, <2>2, <2>3, <2>4
  <1>2. ASSUME NEW request \in Requests, Request(c, request)
        PROVE  ServerInv'
    <2> USE <1>2 DEF Request
    <2>0. hpc[c] \in {"backlog", "recv"}
      BY DEF OneRequest
    <2>1. TypeOK'
      BY RequestsArePackets DEF TypeOK, fdVars, srvVars, memVars
    <2>2. Joined' /\ OneRequest' /\ Asked'
      BY RequestsArePackets DEF TypeOK, Joined, OneRequest, Asked
    <2>3. \A d \in Clients : Dispatched(d)' /\ Allocating(d)' /\ Found(d)'
      BY <2>0 DEF TypeOK, Dispatched, Allocating, Found, srvVars, memVars
    <2>4. SameHandles' /\ OwnRegions' /\ NoLeak'
      BY <2>0, MapsUntouched DEF TypeOK, Holding, memVars, srvVars, SameMap
    <2> QED BY <2>1, <2>2, <2>3, <2>4
  <1>3. CASE Close(c)
    <2> USE <1>3 DEF Close
    <2>1. TypeOK'
      BY DEF TypeOK, fdVars, srvVars, memVars
    <2>2. Joined' /\ OneRequest' /\ Asked'
      BY DEF TypeOK, Joined, OneRequest, Asked
    <2>3. \A d \in Clients : Dispatched(d)' /\ Allocating(d)' /\ Found(d)'
      BY DEF Dispatched, Allocating, Found, srvVars, memVars
    <2>4. SameHandles' /\ OwnRegions' /\ NoLeak'
      BY MapsUntouched DEF memVars, srvVars, SameMap
    <2> QED BY <2>1, <2>2, <2>3, <2>4
  <1> QED BY <1>1, <1>2, <1>3

\* main creates a thread when the last one has ended, and joins it; the thread it starts on
\* a failed accept touches nothing.
LEMMA MainSteps ==
  ASSUME ServerInv, Accept \/ AcceptFails \/ JoinFailed \/ \E c \in Clients : Join(c)
  PROVE  ServerInv'
  <1> USE DEF ServerInv
  <1>1. CASE Accept
    <2> USE <1>1 DEF Accept, Spawn
    <2> DEFINE c == Head(backlog)
    <2>0. c \in Clients /\ backlog' \in Seq(Clients)
      BY DEF TypeOK
    <2>c. fds' \in 0 .. MaxFds /\ spinning' \in BOOLEAN
      BY RmpServerAssumption DEF TypeOK
    <2>a. \A d \in Clients : hpc[d] \in {"none", "backlog"}
      BY RmpServerAssumption DEF Joined
    <2>b. /\ serving' = c /\ hpc' = [hpc EXCEPT ![c] = "recv"]
          /\ UNCHANGED <<cst, inbox, pkt, loc, srvVars, memVars>>
      OBVIOUS
    <2> HIDE DEF c
    <2>1. TypeOK'
      BY <2>0, <2>b, <2>c DEF TypeOK, HandlerSteps, srvVars, memVars
    <2>2. Joined' /\ OneRequest' /\ Asked'
      BY <2>0, <2>a, <2>b DEF TypeOK, Joined, OneRequest, Asked
    <2>3. \A d \in Clients : Dispatched(d)' /\ Allocating(d)' /\ Found(d)'
      BY <2>0, <2>a, <2>b DEF TypeOK, Dispatched, Allocating, Found, srvVars, memVars
    <2>4. SameHandles' /\ OwnRegions' /\ NoLeak'
      BY <2>0, <2>a, <2>b, MapsUntouched DEF TypeOK, Holding, memVars, srvVars, SameMap
    <2> QED BY <2>1, <2>2, <2>3, <2>4
  <1>2. ASSUME NEW c \in Clients, Join(c)
        PROVE  ServerInv'
    <2> USE <1>2 DEF Join
    <2>1. TypeOK'
      BY DEF TypeOK, HandlerSteps, fdVars, srvVars, memVars
    <2>2. Joined' /\ OneRequest' /\ Asked'
      BY DEF TypeOK, Joined, OneRequest, Asked
    <2>3. \A d \in Clients : Dispatched(d)' /\ Allocating(d)' /\ Found(d)'
      BY DEF TypeOK, Dispatched, Allocating, Found, srvVars, memVars
    <2>4. SameHandles' /\ OwnRegions' /\ NoLeak'
      BY MapsUntouched DEF TypeOK, Holding, memVars, srvVars, SameMap
    <2> QED BY <2>1, <2>2, <2>3, <2>4
  <1>3. CASE AcceptFails \/ JoinFailed
    <2>1. /\ UNCHANGED <<cst, inbox, backlog, serving, fds, hpc, pkt, loc, handle_count, addr_map,
                         hndl_n_pages, mapped, bytes, up>>
          /\ spinning' \in BOOLEAN
      BY <1>3 DEF AcceptFails, JoinFailed, Spin, srvVars, memVars
    <2> QED BY <2>1
        DEF TypeOK, Joined, OneRequest, Asked, Dispatched, Allocating, Found,
            SameHandles, OwnRegions, NoLeak, Live, Freeing
  <1> QED BY <1>1, <1>2, <1>3

-----------------------------------------------------------------------------
(***************************************************************************)
(* What a thread writes into its packet: an error, a handle or a page.     *)
(***************************************************************************)
LEMMA PacketEdit ==
  ASSUME TypeOK, NEW c \in Clients,
         \/ \E error \in Errors : pkt' = [pkt EXCEPT ![c].error = error]
         \/ \E data \in Data : pkt' = [pkt EXCEPT ![c].data = data]
  PROVE  /\ pkt' \in [Clients -> Packet]
         /\ \A d \in Clients : /\ pkt'[d].action = pkt[d].action
                               /\ pkt'[d].npages = pkt[d].npages
                               /\ pkt'[d].hndl = pkt[d].hndl
                               /\ pkt'[d].offset = pkt[d].offset
  <1> DEFINE Kept == \A d \in Clients : /\ pkt'[d].action = pkt[d].action
                                        /\ pkt'[d].npages = pkt[d].npages
                                        /\ pkt'[d].hndl = pkt[d].hndl
                                        /\ pkt'[d].offset = pkt[d].offset
  <1>1. ASSUME NEW error \in Errors, pkt' = [pkt EXCEPT ![c].error = error]
        PROVE  pkt' \in [Clients -> Packet] /\ Kept
    <2> DEFINE edited == [pkt[c] EXCEPT !.error = error]
    <2>1. /\ edited \in Packet
          /\ edited.action = pkt[c].action /\ edited.npages = pkt[c].npages
          /\ edited.hndl = pkt[c].hndl /\ edited.offset = pkt[c].offset
      <3>1. pkt[c] \in Packet
        BY DEF TypeOK
      <3> QED BY <3>1 DEF Packet
    <2>2. pkt' = [pkt EXCEPT ![c] = edited]
      BY <1>1
    <2> QED BY <2>1, <2>2 DEF TypeOK
  <1>2. ASSUME NEW data \in Data, pkt' = [pkt EXCEPT ![c].data = data]
        PROVE  pkt' \in [Clients -> Packet] /\ Kept
    <2> DEFINE edited == [pkt[c] EXCEPT !.data = data]
    <2>1. /\ edited \in Packet
          /\ edited.action = pkt[c].action /\ edited.npages = pkt[c].npages
          /\ edited.hndl = pkt[c].hndl /\ edited.offset = pkt[c].offset
      <3>1. pkt[c] \in Packet
        BY DEF TypeOK
      <3> QED BY <3>1 DEF Packet
    <2>2. pkt' = [pkt EXCEPT ![c] = edited]
      BY <1>2
    <2> QED BY <2>1, <2>2 DEF TypeOK
  <1> QED BY <1>1, <1>2

(***************************************************************************)
(* Handler steps that leave the maps and the memory alone.                 *)
(***************************************************************************)
LEMMA FailStep ==
  ASSUME ServerInv, NEW c \in Clients, NEW from, NEW error \in Errors, Fail(c, from, error),
         from \in {"mmap", "has", "has_again", "munmap"}
  PROVE  ServerInv'
  <1> USE DEF ServerInv, Fail
  <1>1. UNCHANGED serving
    BY DEF netVars, fdVars
  <1>2. hpc[c] = from /\ hpc'[c] = "send" /\ Joined'
        /\ \A d \in Clients \ {c} : hpc'[d] = hpc[d] /\ Dispatched(d)' /\ Allocating(d)' /\ Found(d)'
    BY <1>1, OnlyThread
  <1>3. pkt' \in [Clients -> Packet] /\ \A d \in Clients : pkt'[d].action = pkt[d].action
        /\ pkt'[d].npages = pkt[d].npages /\ pkt'[d].hndl = pkt[d].hndl
    BY PacketEdit
  <1>4. TypeOK'
    BY <1>3 DEF TypeOK, At, HandlerSteps, netVars, fdVars, srvVars, memVars
  <1>5. OneRequest' /\ Asked'
    BY <1>2, <1>3 DEF OneRequest, Asked, netVars, fdVars
  <1>6. Dispatched(c)' /\ Allocating(c)' /\ Found(c)'
    BY <1>2 DEF Dispatched, Allocating, Found
  <1>7. SameHandles' /\ OwnRegions' /\ NoLeak'
    <2>1. \A d \in Clients : \/ hpc'[d] = hpc[d] /\ pkt'[d].hndl = pkt[d].hndl /\ loc'[d] = loc[d]
                             \/ hpc[d] \notin Holding /\ hpc'[d] \notin Holding
      BY <1>2, <1>3 DEF Holding
    <2> QED BY <2>1, MapsUntouched DEF memVars, srvVars, SameMap
  <1> QED BY <1>2, <1>4, <1>5, <1>6, <1>7

\* recv and send, and the end of the thread.
LEMMA ExchangeSteps ==
  ASSUME ServerInv, NEW c \in Clients,
         Recv(c) \/ RecvUnknown(c) \/ Send(c) \/ Disconnected(c)
  PROVE  ServerInv'
  <1> USE DEF ServerInv
  <1>1. PICK from \in {"recv", "send"}, to \in {"mmap", "has", "send", "recv", "done"} :
           At(c, from, to)
    BY DEF Recv, RecvUnknown, Send, Disconnected
  <1>2. UNCHANGED <<backlog, serving, fds, spinning, srvVars, memVars>>
    BY DEF Recv, RecvUnknown, Send, Disconnected, netVars, fdVars
  <1>3. hpc[c] = from /\ hpc'[c] = to /\ Joined'
        /\ \A d \in Clients \ {c} : hpc'[d] = hpc[d] /\ Dispatched(d)' /\ Allocating(d)' /\ Found(d)'
    BY <1>1, <1>2, OnlyThread
  <1>4. /\ cst' \in [Clients -> {"off", "ready", "waiting"}]
        /\ inbox' \in [Clients -> BOOLEAN]
        /\ \A d \in Clients \ {c} : UNCHANGED <<cst[d], inbox[d], pkt[d], loc[d]>>
    BY DEF Recv, RecvUnknown, Send, Disconnected, netVars, fdVars, TypeOK
  <1>5. pkt' \in [Clients -> Packet] /\ Asked'
    <2>1. Blank \in Packet /\ Blank.action # "map"
      BY RequestsArePackets DEF Requests, Blank
    <2>2. CASE UNCHANGED pkt
      BY <2>2 DEF TypeOK, Asked
    <2>3. CASE pkt' = [pkt EXCEPT ![c] = Blank]
      BY <2>1, <2>3 DEF TypeOK, Asked
    <2>4. CASE pkt' = [pkt EXCEPT ![c].error = "UNKNOWN_ACTION"]
      BY <2>4, PacketEdit DEF Asked, Errors
    <2> QED BY <2>2, <2>3, <2>4 DEF Recv, RecvUnknown, Send, Disconnected
  <1>6. loc' \in [Clients -> [addr : Bases \cup {Null}, npages : Nat, hndl : Handles]]
    <2>1. NoLocals \in [addr : Bases \cup {Null}, npages : Nat, hndl : Handles]
      BY RmpServerAssumption DEF NoLocals, Handles
    <2> QED BY <2>1 DEF Recv, RecvUnknown, Send, Disconnected, TypeOK
  <1>7. TypeOK'
    BY <1>1, <1>2, <1>4, <1>5, <1>6 DEF TypeOK, At, HandlerSteps, srvVars, memVars
  <1>8. OneRequest'
    <2>1. \A d \in Clients \ {c} : UNCHANGED <<hpc[d], cst[d], inbox[d]>>
      BY <1>3, <1>4
    <2>2. /\ hpc'[c] \in {"none", "done"} => cst'[c] = "off"
          /\ cst'[c] = "ready" \/ inbox'[c] => hpc'[c] \in {"backlog", "recv"}
          /\ cst'[c] = "ready" => ~inbox'[c]
      BY DEF Recv, RecvUnknown, Send, Disconnected, At, netVars, fdVars, TypeOK, OneRequest
    <2> QED BY <2>1, <2>2 DEF OneRequest
  <1>9. Dispatched(c)' /\ Allocating(c)' /\ Found(c)'
    <2>1. CASE Recv(c)
      BY <2>1 DEF Recv, At, TypeOK, Packet, Actions, Dispatched, Allocating, Found
    <2>2. CASE RecvUnknown(c) \/ Send(c) \/ Disconnected(c)
      BY <2>2 DEF RecvUnknown, Send, Disconnected, At, TypeOK, Dispatched, Allocating, Found
    <2> QED BY <2>1, <2>2
  <1>10. SameHandles' /\ OwnRegions' /\ NoLeak'
    <2>1. \A d \in Clients : \/ hpc'[d] = hpc[d] /\ pkt'[d].hndl = pkt[d].hndl /\ loc'[d] = loc[d]
                             \/ hpc[d] \notin Holding /\ hpc'[d] \notin Holding
      BY <1>3, <1>4 DEF Holding
    <2> QED BY <1>2, <2>1, MapsUntouched DEF memVars, srvVars, SameMap
  <1> QED BY <1>3, <1>5, <1>7, <1>8, <1>9, <1>10

(***************************************************************************)
(* contains_key, once in the handler and once more in free: no thread is   *)
(* between the two insertions of an alloc, so a handle that is in addr_map *)
(* is in hndl_n_pages.                                                     *)
(***************************************************************************)
LEMMA ContainsSteps ==
  ASSUME ServerInv, NEW c \in Clients, contains_key(c) \/ contains_key_again(c)
  PROVE  ServerInv'
  <1> USE DEF ServerInv
  <1>1. CASE Fail(c, "has", "INVALID_HANDLE") \/ Fail(c, "has_again", "FREE_FAILED")
    BY <1>1, FailStep DEF Errors
  <1>2. CASE ~(Fail(c, "has", "INVALID_HANDLE") \/ Fail(c, "has_again", "FREE_FAILED"))
    <2>1. /\ pkt[c].hndl \in DOMAIN addr_map
          /\ UNCHANGED <<netVars, pkt, loc, srvVars, memVars>>
      BY <1>2 DEF contains_key, contains_key_again
    <2>2. PICK from \in {"has", "has_again"}, to \in {"has_again", "get_n_pages"} :
             At(c, from, to) /\ (to = "has_again" => pkt[c].action = "free")
      BY <1>2 DEF contains_key, contains_key_again
    <2>3. UNCHANGED <<cst, inbox, backlog, serving, fds, spinning>>
      BY <2>1 DEF netVars, fdVars
    <2>4. hpc[c] = from /\ hpc'[c] = to /\ Joined'
          /\ \A d \in Clients \ {c} : /\ hpc'[d] = hpc[d] /\ hpc[d] \in {"none", "backlog"}
                                      /\ Dispatched(d)' /\ Allocating(d)' /\ Found(d)'
      BY <2>2, <2>3, OnlyThread
    <2>5. TypeOK'
      BY <2>1, <2>2, <2>3 DEF TypeOK, At, HandlerSteps, srvVars, memVars
    <2>6. OneRequest' /\ Asked'
      BY <2>1, <2>3, <2>4 DEF OneRequest, Asked
    <2>7. pkt[c].hndl \in DOMAIN hndl_n_pages
      BY <2>1, <2>4 DEF SameHandles
    <2>8. Dispatched(c)' /\ Allocating(c)' /\ Found(c)'
      BY <2>1, <2>2, <2>4, <2>7 DEF Dispatched, Allocating, Found, srvVars
    <2>9. SameHandles' /\ OwnRegions' /\ NoLeak'
      BY <2>1, <2>4, MapsUntouched DEF Holding, memVars, srvVars, SameMap
    <2> QED BY <2>4, <2>5, <2>6, <2>8, <2>9
  <1> QED BY <1>1, <1>2

-----------------------------------------------------------------------------
(***************************************************************************)
(* alloc: mmap chooses a base at which nothing is mapped, hence one that   *)
(* no handle has.                                                          *)
(***************************************************************************)
LEMMA MmapStep ==
  ASSUME ServerInv, NEW c \in Clients, Mmap(c)
  PROVE  ServerInv'
  <1> USE DEF ServerInv
  <1>1. At(c, "mmap", "handle") /\ handle_count < MaxAllocs
        /\ UNCHANGED <<cst, inbox, backlog, serving, fds, spinning, pkt, handle_count, addr_map, hndl_n_pages, up>>
    BY DEF Mmap, netVars, fdVars, srvVars
  <1>2. PICK b \in Bases : /\ mapped[b] = 0
                           /\ Pages(pkt[c].npages) > 0
                           /\ mapped' = [mapped EXCEPT ![b] = Pages(pkt[c].npages)]
                           /\ bytes' = [bytes EXCEPT ![b] = ZeroPages]
                           /\ loc' = [loc EXCEPT ![c].addr = b]
    BY DEF Mmap, Pages
  <1>3. /\ hpc[c] = "mmap" /\ hpc'[c] = "handle" /\ Joined'
        /\ \A d \in Clients \ {c} : /\ hpc'[d] = hpc[d] /\ hpc[d] \in {"none", "backlog"}
                                    /\ Dispatched(d)' /\ Allocating(d)' /\ Found(d)'
        /\ \A h : ~Freeing(h) /\ ~Freeing(h)'
    BY <1>1, OnlyThread
  <1>4. DOMAIN addr_map = Live /\ DOMAIN hndl_n_pages = Live /\ Live' = Live
    BY <1>1, <1>3, Settled DEF Holding, Live
  <1>5. \A h \in DOMAIN addr_map : addr_map[h] # b
    BY <1>2, <1>4 DEF OwnRegions
  <1>6. mapped'[b] = Pages(pkt[c].npages) /\ bytes'[b] = ZeroPages /\ loc'[c].addr = b
        /\ \A x \in Bases \ {b} : mapped'[x] = mapped[x]
    BY <1>2 DEF TypeOK
  <1>7. TypeOK'
    <2>1. mapped' \in [Bases -> 0 .. MaxPages]
      BY <1>2, PagesFit DEF TypeOK, Packet
    <2>2. bytes' \in [Bases -> [0 .. MaxPages - 1 -> Data]]
      BY <1>2, RmpServerAssumption DEF TypeOK, ZeroPages
    <2>3. loc' \in [Clients -> [addr : Bases \cup {Null}, npages : Nat, hndl : Handles]]
      BY <1>2 DEF TypeOK
    <2> QED BY <1>1, <2>1, <2>2, <2>3 DEF TypeOK, At, HandlerSteps
  <1>8. OneRequest' /\ Asked'
    BY <1>1, <1>3 DEF OneRequest, Asked
  <1>9. Dispatched(c)' /\ Allocating(c)' /\ Found(c)'
    BY <1>1, <1>2, <1>3, <1>5, <1>6 DEF Dispatched, Allocating, Found
  <1>10. SameHandles'
    BY <1>1, <1>3, <1>4 DEF SameHandles, Live
  <1>11. OwnRegions'
    BY <1>1, <1>4, <1>5, <1>6 DEF OwnRegions, TypeOK
  <1>12. NoLeak'
    BY <1>1, <1>3, <1>5, <1>6 DEF NoLeak
  <1> QED BY <1>3, <1>7, <1>8, <1>9, <1>10, <1>11, <1>12

(***************************************************************************)
(* get_new_handle: the counter is below the bound, so it does not wrap,    *)
(* and the handle it returns is larger than every handle in the maps.      *)
(***************************************************************************)
LEMMA HandleStep ==
  ASSUME ServerInv, NEW c \in Clients, get_new_handle(c)
  PROVE  ServerInv'
  <1> USE DEF ServerInv
  <1>1. At(c, "handle", "set_addr")
        /\ UNCHANGED <<cst, inbox, backlog, serving, fds, spinning, pkt, addr_map, hndl_n_pages, mapped, bytes, up>>
    BY DEF get_new_handle, GiveHandle, netVars, fdVars, memVars
  <1>2. loc' = [loc EXCEPT ![c].hndl = handle_count]
    BY DEF get_new_handle, GiveHandle
  <1>3. /\ hpc[c] = "handle" /\ hpc'[c] = "set_addr" /\ Joined'
        /\ \A d \in Clients \ {c} : /\ hpc'[d] = hpc[d] /\ hpc[d] \in {"none", "backlog"}
                                    /\ Dispatched(d)' /\ Allocating(d)' /\ Found(d)'
        /\ \A h : ~Freeing(h) /\ ~Freeing(h)'
    BY <1>1, OnlyThread
  <1>4. handle_count \in 0 .. MaxAllocs - 1 /\ handle_count' = handle_count + 1
    <2>1. handle_count \in 0 .. MaxAllocs /\ handle_count < MaxAllocs
      BY <1>3 DEF Allocating, TypeOK, Handles
    <2>2. handle_count' = (handle_count + 1) % U32
      BY DEF get_new_handle, GiveHandle
    <2> QED BY <2>1, <2>2, RmpServerAssumption
  <1>5. handle_count \notin DOMAIN addr_map \cup DOMAIN hndl_n_pages
    BY <1>4 DEF SameHandles
  <1>6. loc'[c].hndl = handle_count /\ loc'[c].addr = loc[c].addr
        /\ \A d \in Clients \ {c} : loc'[d] = loc[d]
    BY <1>2 DEF TypeOK
  <1>7. TypeOK'
    <2>1. loc' \in [Clients -> [addr : Bases \cup {Null}, npages : Nat, hndl : Handles]]
      BY <1>2 DEF TypeOK
    <2>2. handle_count' \in Handles
      BY <1>4, RmpServerAssumption DEF Handles
    <2> QED BY <1>1, <2>1, <2>2 DEF TypeOK, At, HandlerSteps
  <1>8. OneRequest' /\ Asked'
    BY <1>1, <1>3 DEF OneRequest, Asked
  <1>9. Dispatched(c)' /\ Allocating(c)' /\ Found(c)'
    BY <1>1, <1>3, <1>4, <1>5, <1>6 DEF Dispatched, Allocating, Found
  <1>10. SameHandles'
    <2>1. \A h \in DOMAIN addr_map \cup DOMAIN hndl_n_pages : h < handle_count'
      BY <1>4 DEF SameHandles, TypeOK, Handles
    <2> QED BY <1>1, <1>3, <2>1 DEF SameHandles
  <1>11. OwnRegions'
    BY <1>1, <1>3 DEF OwnRegions, Live
  <1>12. NoLeak'
    BY <1>1, <1>3, <1>6 DEF NoLeak
  <1> QED BY <1>3, <1>7, <1>8, <1>9, <1>10, <1>11, <1>12

\* The region goes from the hands of the thread into addr_map.
LEMMA SetAddrStep ==
  ASSUME ServerInv, NEW c \in Clients, set_addr_map(c)
  PROVE  ServerInv'
  <1> USE DEF ServerInv
  <1> DEFINE hh == loc[c].hndl
  <1>1. At(c, "set_addr", "set_n_pages")
        /\ UNCHANGED <<cst, inbox, backlog, serving, fds, spinning, pkt, loc, handle_count, hndl_n_pages, mapped,
                       bytes, up>>
    BY DEF set_addr_map, netVars, fdVars, memVars
  <1>2. /\ DOMAIN addr_map' = DOMAIN addr_map \cup {hh}
        /\ addr_map'[hh] = loc[c].addr
        /\ \A h \in DOMAIN addr_map \ {hh} : addr_map'[h] = addr_map[h]
    BY DEF set_addr_map, Insert
  <1>3. /\ hpc[c] = "set_addr" /\ hpc'[c] = "set_n_pages" /\ Joined'
        /\ \A d \in Clients \ {c} : /\ hpc'[d] = hpc[d] /\ hpc[d] \in {"none", "backlog"}
                                    /\ Dispatched(d)' /\ Allocating(d)' /\ Found(d)'
        /\ \A h : ~Freeing(h) /\ ~Freeing(h)'
    BY <1>1, OnlyThread
  <1>4. /\ hh \in Handles /\ hh < handle_count
        /\ hh \notin DOMAIN addr_map \cup DOMAIN hndl_n_pages
        /\ loc[c].addr \in Bases
        /\ \A h \in DOMAIN addr_map : addr_map[h] # loc[c].addr
    BY <1>3 DEF Allocating, TypeOK
  <1> HIDE DEF hh
  <1>7. TypeOK'
    BY <1>1, <1>2, <1>4 DEF TypeOK, At, HandlerSteps
  <1>8. OneRequest' /\ Asked'
    BY <1>1, <1>3 DEF OneRequest, Asked
  <1>9. Dispatched(c)' /\ Allocating(c)' /\ Found(c)'
    BY <1>1, <1>2, <1>3, <1>4 DEF Dispatched, Allocating, Found, hh
  <1>10. SameHandles'
    BY <1>1, <1>2, <1>3, <1>4 DEF SameHandles, hh
  <1>11. OwnRegions'
    BY <1>1, <1>2, <1>3, <1>4 DEF OwnRegions, Live
  <1>12. NoLeak'
    BY <1>1, <1>2, <1>3, <1>4 DEF NoLeak
  <1> QED BY <1>3, <1>7, <1>8, <1>9, <1>10, <1>11, <1>12

\* hndl_n_pages gets the size that was mapped; from here on the handle is live.
LEMMA PublishStep ==
  ASSUME ServerInv, NEW c \in Clients, set_hndl_n_pages(c)
  PROVE  ServerInv'
  <1> USE DEF ServerInv
  <1> DEFINE hh == loc[c].hndl
  <1>1. At(c, "set_n_pages", "send")
        /\ UNCHANGED <<cst, inbox, backlog, serving, fds, spinning, loc, handle_count, addr_map, mapped, bytes, up>>
    BY DEF set_hndl_n_pages, Publish, netVars, fdVars, memVars
  <1>2. /\ DOMAIN hndl_n_pages' = DOMAIN hndl_n_pages \cup {hh}
        /\ hndl_n_pages'[hh] = pkt[c].npages
        /\ \A h \in DOMAIN hndl_n_pages \ {hh} : hndl_n_pages'[h] = hndl_n_pages[h]
        /\ pkt' = [pkt EXCEPT ![c].hndl = hh]
    BY DEF set_hndl_n_pages, Publish, Insert
  <1>3. /\ hpc[c] = "set_n_pages" /\ hpc'[c] = "send" /\ Joined'
        /\ \A d \in Clients \ {c} : /\ hpc'[d] = hpc[d] /\ hpc[d] \in {"none", "backlog"}
                                    /\ Dispatched(d)' /\ Allocating(d)' /\ Found(d)'
        /\ \A h : ~Freeing(h) /\ ~Freeing(h)'
    BY <1>1, OnlyThread
  <1>4. /\ hh \in DOMAIN addr_map \ DOMAIN hndl_n_pages
        /\ mapped[addr_map[hh]] = Pages(pkt[c].npages) /\ mapped[addr_map[hh]] > 0
        /\ pkt[c].npages \in AllocSizes
    BY <1>3 DEF Allocating, Dispatched, Asked
  <1>5. hh \in Handles /\ hh \in Nat
    BY RmpServerAssumption DEF TypeOK, Handles
  <1> HIDE DEF hh
  <1>6. pkt' \in [Clients -> Packet]
        /\ \A d \in Clients : pkt'[d].action = pkt[d].action /\ pkt'[d].npages = pkt[d].npages
    <2>1. [pkt[c] EXCEPT !.hndl = hh] \in Packet
          /\ [pkt[c] EXCEPT !.hndl = hh].action = pkt[c].action
          /\ [pkt[c] EXCEPT !.hndl = hh].npages = pkt[c].npages
      <3>1. pkt[c] \in Packet
        BY DEF TypeOK
      <3> QED BY <1>5, <3>1 DEF Packet
    <2>2. pkt' = [pkt EXCEPT ![c] = [pkt[c] EXCEPT !.hndl = hh]]
      BY <1>2
    <2> QED BY <2>1, <2>2 DEF TypeOK
  <1>7. TypeOK'
    <2>1. pkt[c].npages \in Nat
      BY DEF TypeOK, Packet
    <2> QED BY <1>1, <1>2, <1>5, <1>6, <2>1 DEF TypeOK, At, HandlerSteps
  <1>8. OneRequest' /\ Asked'
    BY <1>1, <1>3, <1>6 DEF OneRequest, Asked
  <1>9. Dispatched(c)' /\ Allocating(c)' /\ Found(c)'
    BY <1>3 DEF Dispatched, Allocating, Found
  <1>10. SameHandles'
    BY <1>1, <1>2, <1>3, <1>4 DEF SameHandles, hh
  <1>11. OwnRegions'
    BY <1>1, <1>2, <1>3, <1>4 DEF OwnRegions, Live
  <1>12. NoLeak'
    BY <1>1, <1>3 DEF NoLeak
  <1> QED BY <1>3, <1>7, <1>8, <1>9, <1>10, <1>11, <1>12

-----------------------------------------------------------------------------
(***************************************************************************)
(* read, write and free look up a handle that is in both maps, so that     *)
(* operator[] finds it and inserts nothing.                                *)
(***************************************************************************)
LEMMA InsertSame ==
  ASSUME NEW f, NEW k \in DOMAIN f, NEW default
  PROVE  /\ Value(f, k, default) = f[k]
         /\ SameMap(Insert(f, k, Value(f, k, default)), f)
  BY DEF Value, Insert, SameMap

\* What a thread writes into its locals.
LEMMA LocalsEdit ==
  ASSUME TypeOK, NEW c \in Clients, NEW b \in Bases, NEW n \in Nat,
         loc' = [loc EXCEPT ![c].addr = b] \/ loc' = [loc EXCEPT ![c].npages = n]
  PROVE  loc' \in [Clients -> [addr : Bases \cup {Null}, npages : Nat, hndl : Handles]]
  <1>1. CASE loc' = [loc EXCEPT ![c].addr = b]
    BY <1>1 DEF TypeOK
  <1>2. CASE loc' = [loc EXCEPT ![c].npages = n]
    BY <1>2 DEF TypeOK
  <1> QED BY <1>1, <1>2

LEMMA FindSteps ==
  ASSUME ServerInv, NEW c \in Clients, get_hndl_n_pages(c) \/ get_addr_map(c)
  PROVE  ServerInv'
  <1> USE DEF ServerInv
  <1>1. PICK from \in {"get_n_pages", "get_addr"}, to \in {"get_addr", "send", "memcpy", "munmap"} :
           At(c, from, to)
    BY DEF get_hndl_n_pages, get_addr_map, Locate
  <1>2. UNCHANGED <<cst, inbox, backlog, serving, fds, spinning, handle_count, mapped, bytes, up>>
    BY DEF get_hndl_n_pages, get_addr_map, Locate, netVars, fdVars, memVars
  <1>3. /\ hpc[c] = from /\ hpc'[c] = to /\ Joined'
        /\ \A d \in Clients \ {c} : /\ hpc'[d] = hpc[d] /\ hpc[d] \in {"none", "backlog"}
                                    /\ Dispatched(d)' /\ Allocating(d)' /\ Found(d)'
    BY <1>1, <1>2, OnlyThread
  <1>4. pkt[c].hndl \in DOMAIN addr_map \cap DOMAIN hndl_n_pages
    BY <1>3 DEF Found
  <1>5. /\ SameMap(addr_map', addr_map)
        /\ SameMap(hndl_n_pages', hndl_n_pages)
        /\ from = "get_n_pages" => loc' = [loc EXCEPT ![c].npages = hndl_n_pages[pkt[c].hndl]]
        /\ from = "get_addr" => loc' = [loc EXCEPT ![c].addr = addr_map[pkt[c].hndl]]
    <2>1. CASE get_hndl_n_pages(c)
      <3>1. from = "get_n_pages"
        BY <1>3, <2>1 DEF get_hndl_n_pages, At
      <3>2. /\ Value(hndl_n_pages, pkt[c].hndl, 0) = hndl_n_pages[pkt[c].hndl]
            /\ SameMap(hndl_n_pages', hndl_n_pages)
        BY <1>4, <2>1, InsertSame DEF get_hndl_n_pages
      <3>3. SameMap(addr_map', addr_map)
        BY <2>1 DEF get_hndl_n_pages, SameMap
      <3> QED BY <2>1, <3>1, <3>2, <3>3 DEF get_hndl_n_pages
    <2>2. CASE get_addr_map(c)
      <3>1. from = "get_addr"
        BY <1>3, <2>2 DEF get_addr_map, Locate, At
      <3>2. /\ Value(addr_map, pkt[c].hndl, Null) = addr_map[pkt[c].hndl]
            /\ SameMap(addr_map', addr_map)
        BY <1>4, <2>2, InsertSame DEF get_addr_map, Locate
      <3>3. SameMap(hndl_n_pages', hndl_n_pages)
        BY <2>2 DEF get_addr_map, Locate, SameMap
      <3> QED BY <2>2, <3>1, <3>2, <3>3 DEF get_addr_map, Locate
    <2> QED BY <2>1, <2>2
  <1>6. \/ UNCHANGED pkt
        \/ to = "send" /\ \E error \in Errors : pkt' = [pkt EXCEPT ![c].error = error]
    BY <1>3 DEF get_hndl_n_pages, get_addr_map, Locate, At, TypeOK, OutOfRange, Errors
  <1>7. /\ pkt' \in [Clients -> Packet]
        /\ \A d \in Clients : /\ pkt'[d].action = pkt[d].action
                              /\ pkt'[d].npages = pkt[d].npages
                              /\ pkt'[d].hndl = pkt[d].hndl
    BY <1>6, PacketEdit DEF TypeOK
  <1>8. TypeOK'
    <2>1. hndl_n_pages[pkt[c].hndl] \in Nat /\ addr_map[pkt[c].hndl] \in Bases
      BY <1>4 DEF TypeOK
    <2>2. loc' \in [Clients -> [addr : Bases \cup {Null}, npages : Nat, hndl : Handles]]
      BY <1>5, <2>1, LocalsEdit
    <2> QED BY <1>1, <1>2, <1>5, <1>7, <2>2 DEF TypeOK, At, HandlerSteps, SameMap
  <1>9. OneRequest' /\ Asked'
    BY <1>2, <1>3, <1>7 DEF OneRequest, Asked
  <1>10. Dispatched(c)' /\ Allocating(c)' /\ Found(c)'
    <2>1. CASE to = "send"
      BY <1>3, <2>1 DEF Dispatched, Allocating, Found
    <2>2. CASE to # "send" /\ get_hndl_n_pages(c)
      <3>1. from = "get_n_pages" /\ to = "get_addr" /\ pkt' = pkt
        BY <1>3, <1>6, <2>2 DEF get_hndl_n_pages, At, TypeOK
      <3>2. loc'[c].npages = hndl_n_pages[pkt[c].hndl]
        BY <1>5, <3>1 DEF TypeOK
      <3> QED BY <1>3, <1>4, <1>5, <3>1, <3>2 DEF Dispatched, Allocating, Found, SameMap
    <2>3. CASE to # "send" /\ get_addr_map(c)
      <3>1. /\ from = "get_addr" /\ to \in {"memcpy", "munmap"} /\ pkt' = pkt
            /\ to = "munmap" => pkt[c].action = "free"
            /\ to = "memcpy" => pkt[c].action # "free" /\ pkt[c].offset < loc[c].npages
        BY <1>3, <1>6, <2>3 DEF get_addr_map, Locate, At, TypeOK
      <3>2. loc'[c].addr = addr_map[pkt[c].hndl] /\ loc'[c].npages = loc[c].npages
        BY <1>5, <3>1 DEF TypeOK
      <3>3. loc[c].npages = hndl_n_pages[pkt[c].hndl] /\ pkt[c].action \in {"get", "put", "free"}
        BY <1>3, <3>1 DEF Found, Dispatched
      <3> QED BY <1>3, <1>4, <1>5, <3>1, <3>2, <3>3 DEF Dispatched, Allocating, Found, SameMap
    <2> QED BY <2>1, <2>2, <2>3
  <1>11. SameHandles' /\ OwnRegions' /\ NoLeak'
    BY <1>2, <1>3, <1>5, MapsUntouched DEF Holding
  <1> QED BY <1>3, <1>8, <1>9, <1>10, <1>11

(***************************************************************************)
(* memcpy: whatever it reaches is a page of the process, or kills it.      *)
(***************************************************************************)
LEMMA MemcpyStep ==
  ASSUME ServerInv, NEW c \in Clients, Memcpy(c)
  PROVE  ServerInv'
  <1> USE DEF ServerInv
  <1>1. At(c, "memcpy", "send")
        /\ UNCHANGED <<cst, inbox, backlog, serving, fds, spinning, loc, handle_count, addr_map, hndl_n_pages, mapped>>
    BY DEF Memcpy, netVars, fdVars, srvVars
  <1>2. /\ hpc[c] = "memcpy" /\ hpc'[c] = "send" /\ Joined'
        /\ \A d \in Clients \ {c} : /\ hpc'[d] = hpc[d] /\ hpc[d] \in {"none", "backlog"}
                                    /\ Dispatched(d)' /\ Allocating(d)' /\ Found(d)'
    BY <1>1, OnlyThread
  <1>3. PICK at \in Reached(loc[c].addr, pkt[c].offset) :
           IF at = None
           THEN up' = FALSE /\ UNCHANGED <<pkt, bytes>>
           ELSE /\ UNCHANGED up
                /\ IF pkt[c].action = "get"
                   THEN pkt' = [pkt EXCEPT ![c].data = bytes[at[1]][at[2]]] /\ UNCHANGED bytes
                   ELSE bytes' = [bytes EXCEPT ![at[1]][at[2]] = pkt[c].data] /\ UNCHANGED pkt
    BY DEF Memcpy
  <1>4. at # None => at[1] \in Bases /\ at[2] \in 0 .. MaxPages - 1
    <2>1. CASE loc[c].addr # Null /\ Pages(pkt[c].offset) < mapped[loc[c].addr]
      <3>1. loc[c].addr \in Bases /\ pkt[c].offset \in Nat
        BY <2>1 DEF TypeOK, Packet
      <3>2. Pages(pkt[c].offset) \in 0 .. MaxPages - 1
        <4>1. mapped[loc[c].addr] \in 0 .. MaxPages
          BY <3>1 DEF TypeOK
        <4>2. Pages(pkt[c].offset) \in 0 .. MaxPages /\ MaxPages \in Nat
          BY <3>1, PagesFit
        <4> QED BY <2>1, <4>1, <4>2
      <3> QED BY <2>1, <3>1, <3>2 DEF Reached, Pages
    <2>2. CASE ~(loc[c].addr # Null /\ Pages(pkt[c].offset) < mapped[loc[c].addr])
      BY <2>2 DEF Reached, Pages
    <2> QED BY <2>1, <2>2
  <1>5. UNCHANGED pkt \/ \E data \in Data : pkt' = [pkt EXCEPT ![c].data = data]
    <2>1. at # None => bytes[at[1]][at[2]] \in Data
      BY <1>4 DEF TypeOK
    <2> QED BY <1>3, <2>1
  <1>6. /\ pkt' \in [Clients -> Packet]
        /\ \A d \in Clients : /\ pkt'[d].action = pkt[d].action
                              /\ pkt'[d].npages = pkt[d].npages
                              /\ pkt'[d].hndl = pkt[d].hndl
    BY <1>5, PacketEdit DEF TypeOK
  <1>7. TypeOK'
    <2>1. pkt[c].data \in Data
      BY DEF TypeOK, Packet
    <2>2. bytes' \in [Bases -> [0 .. MaxPages - 1 -> Data]]
      <3>1. CASE UNCHANGED bytes
        BY <3>1 DEF TypeOK
      <3>2. CASE at # None /\ bytes' = [bytes EXCEPT ![at[1]][at[2]] = pkt[c].data]
        <4>1. [bytes[at[1]] EXCEPT ![at[2]] = pkt[c].data] \in [0 .. MaxPages - 1 -> Data]
          BY <1>4, <2>1, <3>2 DEF TypeOK
        <4>2. bytes' = [bytes EXCEPT ![at[1]] = [bytes[at[1]] EXCEPT ![at[2]] = pkt[c].data]]
          BY <3>2
        <4> QED BY <1>4, <3>2, <4>1, <4>2 DEF TypeOK
      <3> QED BY <1>3, <3>1, <3>2
    <2>3. up' \in BOOLEAN
      BY <1>3 DEF TypeOK
    <2> QED BY <1>1, <1>6, <2>2, <2>3 DEF TypeOK, At, HandlerSteps
  <1>8. OneRequest' /\ Asked'
    BY <1>1, <1>2, <1>6 DEF OneRequest, Asked
  <1>9. Dispatched(c)' /\ Allocating(c)' /\ Found(c)'
    BY <1>2 DEF Dispatched, Allocating, Found
  <1>10. SameHandles' /\ OwnRegions' /\ NoLeak'
    BY <1>1, <1>2, MapsUntouched DEF Holding, SameMap
  <1> QED BY <1>2, <1>7, <1>8, <1>9, <1>10

-----------------------------------------------------------------------------
(***************************************************************************)
(* free: munmap is given the size that was mapped, so nothing of the       *)
(* region is left.                                                         *)
(***************************************************************************)
LEMMA MunmapStep ==
  ASSUME ServerInv, NEW c \in Clients, Munmap(c)
  PROVE  ServerInv'
  <1> USE DEF ServerInv
  <1> DEFINE b == loc[c].addr
             h == pkt[c].hndl
  <1>1. CASE Fail(c, "munmap", "FREE_FAILED")
    BY <1>1, FailStep DEF Errors
  <1>2. CASE ~Fail(c, "munmap", "FREE_FAILED")
    <2>1. At(c, "munmap", "unset_addr")
          /\ UNCHANGED <<cst, inbox, backlog, serving, fds, spinning, pkt, loc, handle_count, addr_map,
                         hndl_n_pages, up>>
      BY <1>2 DEF Munmap, netVars, fdVars, srvVars
    <2>2. mapped' = [x \in Bases |-> IF x # b THEN mapped[x]
                                     ELSE IF Pages(loc[c].npages) >= mapped[x] THEN 0
                                     ELSE mapped[x] - Pages(loc[c].npages)]
          /\ bytes' = [x \in Bases |-> IF x = b THEN ZeroPages ELSE bytes[x]]
      BY <1>2 DEF Munmap, Pages
    <2>3. /\ hpc[c] = "munmap" /\ hpc'[c] = "unset_addr" /\ Joined'
          /\ \A d \in Clients \ {c} : /\ hpc'[d] = hpc[d] /\ hpc[d] \in {"none", "backlog"}
                                      /\ Dispatched(d)' /\ Allocating(d)' /\ Found(d)'
          /\ \A x : ~Freeing(x) /\ (Freeing(x)' <=> h = x)
      BY <2>1, OnlyThread
    <2>4. /\ h \in DOMAIN addr_map \cap DOMAIN hndl_n_pages /\ addr_map[h] = b
          /\ loc[c].npages = hndl_n_pages[h]
      BY <2>3 DEF Found
    <2>5. b \in Bases /\ mapped[b] = Pages(loc[c].npages) /\ h \in Live
      BY <2>3, <2>4 DEF OwnRegions, Live, TypeOK
    <2> HIDE DEF b, h
    <2>6. mapped'[b] = 0 /\ (\A x \in Bases \ {b} : mapped'[x] = mapped[x])
          /\ mapped' \in [Bases -> 0 .. MaxPages]
      <3>1. mapped[b] \in Nat /\ MaxPages \in Nat
        BY <2>5, PagesFit DEF TypeOK
      <3>2. mapped'[b] = 0 /\ \A x \in Bases \ {b} : mapped'[x] = mapped[x]
        BY <2>2, <2>5, <3>1
      <3>3. mapped' = [x \in Bases |-> mapped'[x]]
        BY <2>2
      <3>4. \A x \in Bases : mapped'[x] \in 0 .. MaxPages
        <4>1. \A x \in Bases : mapped[x] \in 0 .. MaxPages
          BY DEF TypeOK
        <4> QED BY <3>1, <3>2, <4>1
      <3> QED BY <3>2, <3>3, <3>4
    <2>7. TypeOK'
      <3>1. bytes' \in [Bases -> [0 .. MaxPages - 1 -> Data]]
        BY <2>2, RmpServerAssumption DEF TypeOK, ZeroPages
      <3> QED BY <2>1, <2>6, <3>1 DEF TypeOK, At, HandlerSteps
    <2>8. OneRequest' /\ Asked'
      BY <2>1, <2>3 DEF OneRequest, Asked
    <2>9. Dispatched(c)' /\ Allocating(c)' /\ Found(c)'
      BY <2>1, <2>3, <2>4, <2>6 DEF Dispatched, Allocating, Found, h
    <2>10. SameHandles'
      BY <2>1, <2>3 DEF SameHandles
    <2>11. OwnRegions'
      <3>1. Live' = Live \ {h}
        BY <2>1, <2>3 DEF Live
      <3>2. \A x \in Live' : addr_map[x] \in Bases \ {b}
        BY <2>4, <3>1 DEF OwnRegions, Live, TypeOK
      <3>3. \A x \in Live' : mapped'[addr_map[x]] = mapped[addr_map[x]]
        BY <2>6, <3>2
      <3> QED BY <2>1, <3>1, <3>3 DEF OwnRegions
    <2>12. NoLeak'
      BY <2>1, <2>3, <2>4, <2>6 DEF NoLeak
    <2> QED BY <2>3, <2>7, <2>8, <2>9, <2>10, <2>11, <2>12
  <1> QED BY <1>1, <1>2

\* The entries of the region that is gone are erased, first its address, then its size.
LEMMA UnsetSteps ==
  ASSUME ServerInv, NEW c \in Clients, unset_addr_map(c) \/ unset_hndl_n_pages(c)
  PROVE  ServerInv'
  <1> USE DEF ServerInv
  <1> DEFINE h == pkt[c].hndl
  <1>1. UNCHANGED <<cst, inbox, backlog, serving, fds, spinning, pkt, loc, handle_count, mapped, bytes, up>>
    BY DEF unset_addr_map, unset_hndl_n_pages, netVars, fdVars, memVars
  <1>2. OneRequest' /\ Asked' /\ Joined'
        /\ \A d \in Clients \ {c} : Dispatched(d)' /\ Allocating(d)' /\ Found(d)'
    <2>1. PICK from \in {"unset_addr", "unset_n_pages"}, to \in {"unset_n_pages", "send"} :
             At(c, from, to)
      BY DEF unset_addr_map, unset_hndl_n_pages
    <2>2. /\ hpc[c] = from /\ hpc'[c] = to /\ Joined'
          /\ \A d \in Clients \ {c} : hpc'[d] = hpc[d] /\ Dispatched(d)' /\ Allocating(d)' /\ Found(d)'
      BY <1>1, <2>1, OnlyThread
    <2> QED BY <1>1, <2>2 DEF OneRequest, Asked
  <1>3. CASE unset_addr_map(c)
    <2>1. At(c, "unset_addr", "unset_n_pages") /\ UNCHANGED hndl_n_pages
      BY <1>3 DEF unset_addr_map
    <2>2. /\ DOMAIN addr_map' = DOMAIN addr_map \ {h}
          /\ \A x \in DOMAIN addr_map \ {h} : addr_map'[x] = addr_map[x]
      BY <1>3 DEF unset_addr_map, Erase
    <2>3. /\ hpc[c] = "unset_addr" /\ hpc'[c] = "unset_n_pages"
          /\ \A d \in Clients \ {c} : hpc'[d] = hpc[d] /\ hpc[d] \in {"none", "backlog"}
          /\ \A x : (Freeing(x) <=> h = x) /\ (Freeing(x)' <=> h = x)
      BY <1>1, <2>1, OnlyThread
    <2>4. /\ h \in DOMAIN addr_map \cap DOMAIN hndl_n_pages
          /\ pkt[c].action = "free"
      BY <2>3 DEF Found, Dispatched
    <2> HIDE DEF h
    <2>5. TypeOK'
      BY <1>1, <2>1, <2>2 DEF TypeOK, At, HandlerSteps
    <2>6. Dispatched(c)' /\ Allocating(c)' /\ Found(c)'
      BY <1>1, <2>1, <2>2, <2>3, <2>4 DEF Dispatched, Allocating, Found, h
    <2>7. SameHandles'
      BY <1>1, <2>1, <2>2, <2>3 DEF SameHandles, h
    <2>8. OwnRegions'
      BY <1>1, <2>1, <2>2, <2>3 DEF OwnRegions, Live
    <2>9. NoLeak'
      BY <1>1, <2>2, <2>3 DEF NoLeak
    <2> QED BY <1>2, <2>5, <2>6, <2>7, <2>8, <2>9
  <1>4. CASE unset_hndl_n_pages(c)
    <2>1. At(c, "unset_n_pages", "send") /\ UNCHANGED addr_map
      BY <1>4 DEF unset_hndl_n_pages
    <2>2. /\ DOMAIN hndl_n_pages' = DOMAIN hndl_n_pages \ {h}
          /\ \A x \in DOMAIN hndl_n_pages \ {h} : hndl_n_pages'[x] = hndl_n_pages[x]
      BY <1>4 DEF unset_hndl_n_pages, Erase
    <2>3. /\ hpc[c] = "unset_n_pages" /\ hpc'[c] = "send"
          /\ \A d \in Clients \ {c} : hpc'[d] = hpc[d] /\ hpc[d] \in {"none", "backlog"}
          /\ \A x : (Freeing(x) <=> h = x) /\ ~Freeing(x)'
      BY <1>1, <2>1, OnlyThread
    <2>4. h \in DOMAIN hndl_n_pages \ DOMAIN addr_map
      BY <2>3 DEF Found
    <2> HIDE DEF h
    <2>5. TypeOK'
      BY <1>1, <2>1, <2>2 DEF TypeOK, At, HandlerSteps
    <2>6. Dispatched(c)' /\ Allocating(c)' /\ Found(c)'
      BY <2>3 DEF Dispatched, Allocating, Found
    <2>7. SameHandles'
      BY <1>1, <2>1, <2>2, <2>3, <2>4 DEF SameHandles, h
    <2>8. OwnRegions'
      BY <1>1, <2>1, <2>2, <2>3, <2>4 DEF OwnRegions, Live
    <2>9. NoLeak'
      BY <1>1, <2>1, <2>3, <2>4 DEF NoLeak
    <2> QED BY <1>2, <2>5, <2>6, <2>7, <2>8, <2>9
  <1> QED BY <1>3, <1>4

-----------------------------------------------------------------------------
(***************************************************************************)
(* ServerInv is inductive.                                                 *)
(***************************************************************************)
LEMMA ServerNext == ServerInv /\ [Next]_vars => ServerInv'
  <1> SUFFICES ASSUME ServerInv, [Next]_vars PROVE ServerInv'
    OBVIOUS
  <1>1. CASE UNCHANGED vars
    <2>1. UNCHANGED <<cst, inbox, backlog, serving, fds, spinning, hpc, pkt, loc, handle_count, addr_map,
                      hndl_n_pages, mapped, bytes, up>>
      BY <1>1 DEF vars, netVars, fdVars, srvVars, memVars
    <2> QED BY <2>1
        DEF ServerInv, TypeOK, Joined, OneRequest, Asked, Dispatched, Allocating, Found,
            SameHandles, OwnRegions, NoLeak, Live, Freeing
  <1>2. CASE Accept \/ AcceptFails \/ JoinFailed \/ \E c \in Clients : Join(c)
    BY <1>2, MainSteps
  <1>3. ASSUME NEW c \in Clients,
               \/ Connect(c)
               \/ \E request \in Requests : Request(c, request)
               \/ Close(c)
        PROVE  ServerInv'
    BY <1>3, ClientSteps
  <1>4. ASSUME NEW c \in Clients, connection_handler(c)
        PROVE  ServerInv'
    <2>1. CASE Recv(c) \/ RecvUnknown(c) \/ Send(c) \/ Disconnected(c)
      BY <2>1, ExchangeSteps
    <2>2. CASE MmapFails(c)
      BY <2>2, FailStep DEF MmapFails, Errors
    <2>3. CASE Mmap(c) \/ get_new_handle(c) \/ set_addr_map(c) \/ set_hndl_n_pages(c)
      BY <2>3, MmapStep, HandleStep, SetAddrStep, PublishStep
    <2>4. CASE Find(c)
      BY <2>4, ContainsSteps, FindSteps DEF Find
    <2>5. CASE Memcpy(c)
      BY <2>5, MemcpyStep
    <2>6. CASE Free(c)
      BY <2>6, MunmapStep, UnsetSteps DEF Free
    <2> QED BY <1>4, <2>1, <2>2, <2>3, <2>4, <2>5, <2>6 DEF connection_handler, Alloc
  <1> QED BY <1>1, <1>2, <1>3, <1>4 DEF Next

(***************************************************************************)
(* The variables keep their types whatever clients send, the sizes whose   *)
(* product wraps included: get_new_handle never passes the bound, and no   *)
(* operator[] leaves a null address or a zero size behind.                 *)
(***************************************************************************)
THEOREM ServerTypeCorrect == Spec => []TypeOK
  <1>1. ServerInv => TypeOK
    BY DEF ServerInv
  <1> QED BY <1>1, ServerInit, ServerNext, PTL DEF Spec

(***************************************************************************)
(* No region is lost, whatever clients send and whenever they leave: what  *)
(* is mapped is in addr_map or on its way there (NoLeak), even when its    *)
(* size wrapped, for munmap computes the same wrapped size.                *)
(***************************************************************************)
THEOREM NothingLeaks == Spec => []NoLeak
  <1>1. ServerInv => NoLeak
    BY DEF ServerInv
  <1> QED BY <1>1, ServerInit, ServerNext, PTL DEF Spec

(***************************************************************************)
(* Even when a size wraps, two handles never share memory, and munmap is   *)
(* given exactly what mmap mapped (OwnRegions): a wrapped request gets     *)
(* fewer pages than it asked for, of its own.                              *)
(***************************************************************************)
THEOREM HandlesStayApart == Spec => []OwnRegions
  <1>1. ServerInv => OwnRegions
    BY DEF ServerInv
  <1> QED BY <1>1, ServerInit, ServerNext, PTL DEF Spec

-----------------------------------------------------------------------------
\* A thread has a handle from get_new_handle that the maps do not both show yet.
Granting(c, h) == hpc[c] \in {"set_addr", "set_n_pages"} /\ loc[c].hndl = h

(***************************************************************************)
(* A step after which every usable handle, and every handle a thread is    *)
(* about to publish, was so before or is new, revives no spent handle.     *)
(***************************************************************************)
LEMMA NoRevival ==
  ASSUME handle_count \in Nat, handle_count' \in Nat, handle_count <= handle_count',
         \A h \in Live' : h \in Live \/ \E c \in Clients : Granting(c, h),
         \A c \in Clients : \A h \in Handles :
            Granting(c, h)' => Granting(c, h) \/ h >= handle_count,
         NEW h \in Handles, Spent(h)
  PROVE  Spent(h)'
  <1>1. h \in Nat
    BY RmpServerAssumption DEF Handles
  <1>2. h < handle_count /\ h \notin Live /\ \A c \in Clients : ~Granting(c, h)
    BY DEF Spent, Granting
  <1>3. h < handle_count' /\ h \notin Live' /\ \A c \in Clients : ~Granting(c, h)'
    BY <1>1, <1>2
  <1> QED BY <1>3 DEF Spent, Granting

\* The steps of clients and of main touch no map and no thread that holds a handle.
LEMMA IdleRevivesNothing ==
  ASSUME ServerInv, NEW h \in Handles, Spent(h),
         \/ UNCHANGED vars
         \/ Accept \/ AcceptFails \/ JoinFailed
         \/ \E c \in Clients : \/ Connect(c) \/ Close(c) \/ Join(c)
                               \/ \E request \in Requests : Request(c, request)
  PROVE  Spent(h)'
  <1> USE DEF ServerInv
  <1>1. UNCHANGED <<loc, handle_count, addr_map, hndl_n_pages>>
    BY DEF vars, Accept, Spawn, AcceptFails, JoinFailed, Spin, Connect, Close, Join, Request,
           srvVars
  <1>2. ASSUME NEW d \in Clients
        PROVE  \/ hpc'[d] = hpc[d] /\ pkt'[d] = pkt[d]
               \/ hpc[d] \notin Holding /\ hpc'[d] \notin Holding
    <2>1. CASE UNCHANGED vars \/ AcceptFails \/ JoinFailed
      BY <2>1 DEF vars, AcceptFails, JoinFailed, Spin
    <2>2. CASE Accept
      <3>1. Head(backlog) \in Clients
        BY <2>2 DEF Accept, Spawn, TypeOK
      <3>2. \A c \in Clients : hpc[c] \in {"none", "backlog"}
        BY <2>2, RmpServerAssumption DEF Accept, Joined
      <3> QED BY <2>2, <3>1, <3>2 DEF Accept, Spawn, TypeOK, Holding
    <2>3. ASSUME NEW c \in Clients, Connect(c) \/ Close(c) \/ Join(c)
          PROVE  \/ hpc'[d] = hpc[d] /\ pkt'[d] = pkt[d]
                 \/ hpc[d] \notin Holding /\ hpc'[d] \notin Holding
      BY <2>3 DEF Connect, Close, Join, TypeOK, Holding
    <2>4. ASSUME NEW c \in Clients, NEW request \in Requests, Request(c, request)
          PROVE  \/ hpc'[d] = hpc[d] /\ pkt'[d] = pkt[d]
                 \/ hpc[d] \notin Holding /\ hpc'[d] \notin Holding
      BY <2>4 DEF Request, TypeOK, OneRequest, Holding
    <2> QED BY <2>1, <2>2, <2>3, <2>4
  <1>3. Live' = Live
    BY <1>1, <1>2 DEF Live, Freeing, Holding
  <1>4. \A c \in Clients : \A k \in Handles : Granting(c, k)' => Granting(c, k)
    BY <1>1, <1>2 DEF Granting, Holding
  <1>5. handle_count \in Nat
    BY RmpServerAssumption DEF TypeOK, Handles
  <1> QED BY <1>1, <1>3, <1>4, <1>5, NoRevival

(***************************************************************************)
(* The steps of a thread.  Only set_hndl_n_pages makes a handle usable,    *)
(* the one its thread has from get_new_handle, which gives out the counter *)
(* and moves it on; operator[] finds what it looks up, so it inserts       *)
(* nothing.                                                                *)
(***************************************************************************)
LEMMA HandlerRevivesNothing ==
  ASSUME ServerInv, NEW c \in Clients, connection_handler(c), NEW h \in Handles, Spent(h)
  PROVE  Spent(h)'
  <1> USE DEF ServerInv
  <1> DEFINE k == pkt[c].hndl
             g == loc[c].hndl
  <1>1. handle_count \in Nat
    BY RmpServerAssumption DEF TypeOK, Handles
  <1>2. ASSUME NEW from, NEW to, At(c, from, to), from \notin {"none", "backlog"},
               UNCHANGED <<serving, handle_count>>,
               DOMAIN addr_map' \cap DOMAIN hndl_n_pages'
                   \subseteq DOMAIN addr_map \cap DOMAIN hndl_n_pages,
               from \notin Holding \/ k \notin DOMAIN addr_map' \cap DOMAIN hndl_n_pages',
               to \notin {"set_addr", "set_n_pages"}
        PROVE  Spent(h)'
    <2>1. /\ hpc[c] = from /\ hpc'[c] = to
          /\ \A d \in Clients \ {c} : hpc'[d] = hpc[d] /\ hpc[d] \in {"none", "backlog"}
          /\ \A x : Freeing(x) <=> from \in {"unset_addr", "unset_n_pages"} /\ k = x
      BY <1>2, OnlyThread
    <2>2. Live' \subseteq Live
      BY <1>2, <2>1 DEF Live, Holding
    <2>3. \A d \in Clients : \A x \in Handles : ~Granting(d, x)'
      BY <1>2, <2>1 DEF Granting
    <2> QED BY <1>1, <1>2, <2>2, <2>3, NoRevival
  <1>3. CASE Recv(c) \/ RecvUnknown(c) \/ Send(c) \/ Disconnected(c)
    <2>1. UNCHANGED <<serving, handle_count, addr_map, hndl_n_pages>>
      BY <1>3 DEF Recv, RecvUnknown, Send, Disconnected, netVars, fdVars, srvVars
    <2>2. PICK from \in {"recv", "send"}, to \in {"mmap", "has", "send", "recv", "done"} :
             At(c, from, to)
      BY <1>3 DEF Recv, RecvUnknown, Send, Disconnected
    <2> QED BY <1>2, <2>1, <2>2 DEF Holding
  <1>4. ASSUME NEW from \in {"mmap", "has", "has_again", "munmap"}, NEW error, Fail(c, from, error)
        PROVE  Spent(h)'
    BY <1>2, <1>4 DEF Fail, Holding, netVars, fdVars, srvVars
  <1>5. CASE Mmap(c)
    BY <1>2, <1>5 DEF Mmap, Holding, netVars, fdVars, srvVars
  <1>6. CASE contains_key(c) \/ contains_key_again(c)
    <2>1. CASE pkt[c].hndl \in DOMAIN addr_map
      <3>1. UNCHANGED <<serving, handle_count, addr_map, hndl_n_pages>>
        BY <1>6, <2>1 DEF contains_key, contains_key_again, netVars, fdVars, srvVars
      <3>2. PICK from \in {"has", "has_again"}, to \in {"has_again", "get_n_pages"} : At(c, from, to)
        BY <1>6, <2>1 DEF contains_key, contains_key_again
      <3> QED BY <1>2, <3>1, <3>2 DEF Holding
    <2>2. CASE pkt[c].hndl \notin DOMAIN addr_map
      BY <1>4, <1>6, <2>2 DEF contains_key, contains_key_again
    <2> QED BY <2>1, <2>2
  <1>7. CASE get_hndl_n_pages(c) \/ get_addr_map(c)
    <2>1. PICK from \in {"get_n_pages", "get_addr"}, to \in {"get_addr", "send", "memcpy", "munmap"} :
             At(c, from, to)
      BY <1>7 DEF get_hndl_n_pages, get_addr_map, Locate
    <2>2. k \in DOMAIN addr_map \cap DOMAIN hndl_n_pages
      BY <2>1 DEF Found, At
    <2>3. /\ UNCHANGED <<serving, handle_count>>
          /\ DOMAIN addr_map' = DOMAIN addr_map
          /\ DOMAIN hndl_n_pages' = DOMAIN hndl_n_pages
      BY <1>7, <2>2 DEF get_hndl_n_pages, get_addr_map, Locate, Insert, netVars, fdVars
    <2> QED BY <1>2, <2>1, <2>3 DEF Holding
  <1>8. CASE Memcpy(c)
    BY <1>2, <1>8 DEF Memcpy, Holding, netVars, fdVars, srvVars
  <1>9. CASE Munmap(c)
    <2>1. CASE Fail(c, "munmap", "FREE_FAILED")
      BY <1>4, <2>1
    <2>2. CASE ~Fail(c, "munmap", "FREE_FAILED")
      BY <1>2, <1>9, <2>2 DEF Munmap, Holding, netVars, fdVars, srvVars
    <2> QED BY <2>1, <2>2
  <1>10. CASE unset_addr_map(c)
    <2>1. DOMAIN addr_map' = DOMAIN addr_map \ {k}
      BY <1>10 DEF unset_addr_map, Erase
    <2> QED BY <1>2, <1>10, <2>1 DEF unset_addr_map, netVars, fdVars
  <1>11. CASE unset_hndl_n_pages(c)
    <2>1. DOMAIN hndl_n_pages' = DOMAIN hndl_n_pages \ {k}
      BY <1>11 DEF unset_hndl_n_pages, Erase
    <2> QED BY <1>2, <1>11, <2>1 DEF unset_hndl_n_pages, netVars, fdVars
  <1>12. CASE get_new_handle(c)
    <2>1. /\ At(c, "handle", "set_addr")
          /\ loc' = [loc EXCEPT ![c].hndl = handle_count]
          /\ UNCHANGED <<serving, addr_map, hndl_n_pages>>
      BY <1>12 DEF get_new_handle, GiveHandle, netVars, fdVars
    <2>2. /\ hpc[c] = "handle" /\ hpc'[c] = "set_addr"
          /\ \A d \in Clients \ {c} : hpc'[d] = hpc[d] /\ hpc[d] \in {"none", "backlog"}
          /\ \A x : ~Freeing(x) /\ ~Freeing(x)'
      BY <2>1, OnlyThread
    <2>3. Live' = Live
      BY <2>1, <2>2 DEF Live
    <2>4. handle_count' = handle_count + 1
      <3>1. handle_count + 1 \in Nat /\ handle_count + 1 < U32
        BY <1>1, <2>2, RmpServerAssumption DEF Allocating
      <3> QED BY <1>12, <3>1, RmpServerAssumption DEF get_new_handle, GiveHandle
    <2>5. loc'[c].hndl = handle_count
      BY <2>1 DEF TypeOK
    <2>6. \A d \in Clients : \A x \in Handles : Granting(d, x)' => x >= handle_count
      BY <1>1, <2>2, <2>5 DEF Granting
    <2> QED BY <1>1, <2>3, <2>4, <2>6, NoRevival
  <1>13. CASE set_addr_map(c)
    <2>1. /\ At(c, "set_addr", "set_n_pages")
          /\ UNCHANGED <<serving, loc, handle_count, hndl_n_pages>>
          /\ DOMAIN addr_map' = DOMAIN addr_map \cup {g}
      BY <1>13 DEF set_addr_map, Insert, netVars, fdVars
    <2>2. /\ hpc[c] = "set_addr" /\ hpc'[c] = "set_n_pages"
          /\ \A d \in Clients \ {c} : hpc'[d] = hpc[d] /\ hpc[d] \in {"none", "backlog"}
          /\ \A x : ~Freeing(x) /\ ~Freeing(x)'
      BY <2>1, OnlyThread
    <2>3. g \notin DOMAIN hndl_n_pages
      BY <2>2 DEF Allocating
    <2>4. Live' = Live
      BY <2>1, <2>2, <2>3 DEF Live
    <2>5. \A d \in Clients : \A x \in Handles : Granting(d, x)' => Granting(d, x)
      BY <2>1, <2>2 DEF Granting
    <2> QED BY <1>1, <2>1, <2>4, <2>5, NoRevival
  <1>14. CASE set_hndl_n_pages(c)
    <2>1. /\ At(c, "set_n_pages", "send")
          /\ UNCHANGED <<serving, loc, handle_count, addr_map>>
          /\ DOMAIN hndl_n_pages' = DOMAIN hndl_n_pages \cup {g}
      BY <1>14 DEF set_hndl_n_pages, Publish, Insert, netVars, fdVars
    <2>2. /\ hpc[c] = "set_n_pages" /\ hpc'[c] = "send"
          /\ \A d \in Clients \ {c} : hpc'[d] = hpc[d] /\ hpc[d] \in {"none", "backlog"}
          /\ \A x : ~Freeing(x) /\ ~Freeing(x)'
      BY <2>1, OnlyThread
    <2>3. \A x \in Live' : x \in Live \/ Granting(c, x)
      BY <2>1, <2>2 DEF Live, Granting
    <2>4. \A d \in Clients : \A x \in Handles : ~Granting(d, x)'
      BY <2>2 DEF Granting
    <2> QED BY <1>1, <2>1, <2>3, <2>4, NoRevival
  <1> QED
    BY <1>3, <1>4, <1>5, <1>6, <1>7, <1>8, <1>9, <1>10, <1>11, <1>12, <1>13, <1>14
    DEF connection_handler, Alloc, MmapFails, Find, Free

(***************************************************************************)
(* A freed handle stays invalid for the life of the server                 *)
(* (FreedStaysFreed), whatever the other clients allocate meanwhile and    *)
(* whether or not sizes wrap: addresses are used again, handles are not.   *)
(***************************************************************************)
THEOREM FreedHandlesStayFreed == Spec => FreedStaysFreed
  <1>1. ServerInv /\ [Next]_vars => [\A h \in Handles : Spent(h) => Spent(h)']_vars
    <2> SUFFICES ASSUME ServerInv, [Next]_vars, NEW h \in Handles, Spent(h)
                 PROVE  Spent(h)'
      OBVIOUS
    <2>1. CASE UNCHANGED vars \/ Accept \/ AcceptFails \/ JoinFailed
      BY <2>1, IdleRevivesNothing
    <2>2. ASSUME NEW c \in Clients,
                 \/ Connect(c) \/ Close(c) \/ Join(c)
                 \/ \E request \in Requests : Request(c, request)
          PROVE  Spent(h)'
      BY <2>2, IdleRevivesNothing
    <2>3. ASSUME NEW c \in Clients, connection_handler(c)
          PROVE  Spent(h)'
      BY <2>3, HandlerRevivesNothing
    <2> QED BY <2>1, <2>2, <2>3 DEF Next
  <1> QED BY <1>1, ServerInit, ServerNext, PTL DEF Spec, FreedStaysFreed

-----------------------------------------------------------------------------
\* No request is for so many pages that their size in bytes exceeds a u32.
NoWrap == AllocSizes \subseteq 0 .. MaxPages - 1

(***************************************************************************)
(* If no size wraps, the two maps agree with the memory at every moment:   *)
(* a live handle has a region of its own, mapped, of as many pages as      *)
(* hndl_n_pages says (Backed), although each map has a mutex of its own    *)
(* and munmap is called under neither.                                     *)
(***************************************************************************)
THEOREM MapsDescribeMemory ==
  ASSUME NoWrap
  PROVE  Spec => []Backed
  <1>1. ServerInv => Backed
    <2> SUFFICES ASSUME ServerInv PROVE Backed
      OBVIOUS
    <2> USE DEF ServerInv
    <2>1. ASSUME NEW h \in Live
          PROVE  /\ mapped[addr_map[h]] = hndl_n_pages[h]
                 /\ hndl_n_pages[h] > 0
      <3>1. hndl_n_pages[h] \in 0 .. MaxPages - 1
        BY NoWrap DEF NoWrap, OwnRegions, Live
      <3>2. Pages(hndl_n_pages[h]) = hndl_n_pages[h]
        BY <3>1, PagesExact, PagesFit
      <3> QED BY <3>2 DEF OwnRegions
    <2>2. \A h, k \in Live : addr_map[k] = addr_map[h] => k = h
      BY DEF OwnRegions, Live
    <2> QED BY <2>1, <2>2 DEF Backed
  <1> QED BY <1>1, ServerInit, ServerNext, PTL DEF Spec

(***************************************************************************)
(* If no size wraps, memcpy stays inside the region of the handle that the *)
(* request names (CopyInBounds): the address and the size the thread read  *)
(* under two mutexes, and gave up before the copy, are still current.      *)
(***************************************************************************)
THEOREM CopiesStayInside ==
  ASSUME NoWrap
  PROVE  Spec => []CopyInBounds
  <1>1. ServerInv => CopyInBounds
    <2> SUFFICES ASSUME ServerInv, NEW c \in Clients, hpc[c] = "memcpy"
                 PROVE  /\ pkt[c].hndl \in Live
                        /\ addr_map[pkt[c].hndl] = loc[c].addr
                        /\ pkt[c].offset < mapped[loc[c].addr]
      BY DEF CopyInBounds
    <2> USE DEF ServerInv
    <2>1. \A d \in Clients \ {c} : hpc[d] \in {"none", "backlog"}
      BY DEF Joined
    <2>2. /\ pkt[c].hndl \in Live /\ addr_map[pkt[c].hndl] = loc[c].addr
          /\ loc[c].npages = hndl_n_pages[pkt[c].hndl] /\ pkt[c].offset < loc[c].npages
      BY <2>1 DEF Found, Live, Freeing
    <2>3. loc[c].npages \in 0 .. MaxPages - 1
      BY <2>2, NoWrap DEF NoWrap, OwnRegions, Live
    <2>4. Pages(loc[c].npages) = loc[c].npages
      BY <2>3, PagesExact, PagesFit
    <2>5. mapped[loc[c].addr] = Pages(loc[c].npages)
      BY <2>2 DEF OwnRegions
    <2> QED BY <2>2, <2>4, <2>5
  <1> QED BY <1>1, ServerInit, ServerNext, PTL DEF Spec
=============================================================================
