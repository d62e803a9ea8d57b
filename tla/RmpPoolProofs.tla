---------------------------- MODULE RmpPoolProofs ----------------------------
(***************************************************************************)
(* The RMP server implements PagePool, for any number of clients, regions  *)
(* and pages, as long as no size wraps: alloc, read, write and free, which *)
(* take up to six steps each, act on the pool at once.                     *)
(***************************************************************************)
EXTENDS RmpServerProofs

(***************************************************************************)
(* What a live handle has when no size wraps: at least one page, and as    *)
(* many mapped as hndl_n_pages says.                                       *)
(***************************************************************************)
LEMMA LiveSizes ==
  ASSUME NoWrap, ServerInv, NEW h \in Live
  PROVE  /\ hndl_n_pages[h] \in 1 .. MaxPages - 1
         /\ Pages(hndl_n_pages[h]) = hndl_n_pages[h]
         /\ mapped[addr_map[h]] = hndl_n_pages[h]
         /\ addr_map[h] \in Bases
  <1>1. hndl_n_pages[h] \in 0 .. MaxPages - 1 /\ MaxPages \in Nat
    BY PagesFit DEF NoWrap, ServerInv, OwnRegions, Live
  <1>2. Pages(hndl_n_pages[h]) = hndl_n_pages[h]
    BY <1>1, PagesExact
  <1>3. mapped[addr_map[h]] = Pages(hndl_n_pages[h]) /\ mapped[addr_map[h]] > 0
    BY DEF ServerInv, OwnRegions
  <1>4. addr_map[h] \in Bases
    BY DEF ServerInv, TypeOK, Live
  <1> QED BY <1>1, <1>2, <1>3, <1>4

\* The pool changes only with the live handles, their sizes and their bytes.
LEMMA PoolSame ==
  ASSUME Live' = Live,
         \A h \in Live : /\ hndl_n_pages'[h] = hndl_n_pages[h]
                         /\ bytes'[addr_map'[h]] = bytes[addr_map[h]]
  PROVE  UNCHANGED poolBar
  BY DEF poolBar

\* A step of c changes the state of no other exchange.
LEMMA ExchangeOf ==
  ASSUME NEW c \in Clients,
         \A d \in Clients \ {c} : UNCHANGED <<hpc[d], inbox[d]>>
  PROVE  stBar' = [stBar EXCEPT ![c] = stBar'[c]]
  <1>1. stBar = [d \in Clients |-> stBar[d]] /\ stBar' = [d \in Clients |-> stBar'[d]]
    BY DEF stBar
  <1>2. \A d \in Clients \ {c} : stBar'[d] = stBar[d]
    BY DEF stBar
  <1> QED BY <1>1, <1>2

-----------------------------------------------------------------------------
(***************************************************************************)
(* Steps that no client can see: connections come and go, a request is     *)
(* received and dispatched.                                                *)
(***************************************************************************)
LEMMA NetworkStutters ==
  ASSUME ServerInv,
         \/ Accept \/ AcceptFails \/ JoinFailed
         \/ \E c \in Clients : Connect(c) \/ Close(c) \/ Join(c) \/ Recv(c) \/ Disconnected(c)
  PROVE  UNCHANGED Pool!vars
  <1>1. UNCHANGED <<pkt, loc, handle_count, addr_map, hndl_n_pages, mapped, bytes>>
    BY DEF Accept, Spawn, AcceptFails, JoinFailed, Spin, Connect, Close, Join, Recv, Disconnected,
           srvVars, memVars
  <1>2. \A d \in Clients :
           \/ hpc'[d] = hpc[d]
           \/ hpc[d] \notin Holding /\ hpc'[d] \notin Holding
    <2>1. CASE Accept
      <3>1. Head(backlog) \in Clients /\ hpc' = [hpc EXCEPT ![Head(backlog)] = "recv"]
        BY <2>1 DEF Accept, Spawn, ServerInv, TypeOK
      <3>2. \A d \in Clients : hpc[d] \in {"none", "backlog"}
        BY <2>1, RmpServerAssumption DEF Accept, ServerInv, Joined
      <3> QED BY <3>1, <3>2 DEF ServerInv, TypeOK, Holding
    <2>2. ASSUME NEW c \in Clients, Connect(c) \/ Close(c) \/ Join(c) \/ Recv(c) \/ Disconnected(c)
          PROVE  \A d \in Clients : \/ hpc'[d] = hpc[d]
                                    \/ hpc[d] \notin Holding /\ hpc'[d] \notin Holding
      <3>1. \/ UNCHANGED hpc
            \/ /\ hpc[c] \in {"none", "done", "recv"}
               /\ hpc'[c] \in {"backlog", "none", "mmap", "has", "done"}
               /\ \A d \in Clients \ {c} : hpc'[d] = hpc[d]
        BY <2>2 DEF Connect, Close, Join, Recv, Disconnected, At, ServerInv, TypeOK
      <3> QED BY <3>1 DEF Holding
    <2>3. CASE AcceptFails \/ JoinFailed
      BY <2>3 DEF AcceptFails, JoinFailed, Spin
    <2> QED BY <2>1, <2>2, <2>3
  <1>3. \A h : Freeing(h)' <=> Freeing(h)
    BY <1>1, <1>2 DEF Freeing, Holding
  <1>4. UNCHANGED poolBar
    BY <1>1, <1>3, PoolSame DEF Live
  <1>5. UNCHANGED stBar
    <2>1. CASE Accept
      <3>1. Head(backlog) \in Clients /\ hpc' = [hpc EXCEPT ![Head(backlog)] = "recv"]
            /\ UNCHANGED inbox
        BY <2>1 DEF Accept, Spawn, ServerInv, TypeOK
      <3>2. \A d \in Clients : hpc[d] \in {"none", "backlog"}
        BY <2>1, RmpServerAssumption DEF Accept, ServerInv, Joined
      <3> QED BY <3>1, <3>2 DEF ServerInv, TypeOK, stBar
    <2>2. ASSUME NEW c \in Clients, Connect(c) \/ Close(c) \/ Join(c) \/ Recv(c) \/ Disconnected(c)
          PROVE  UNCHANGED stBar
      <3>1. \A d \in Clients \ {c} : UNCHANGED <<hpc[d], inbox[d]>>
        BY <2>2 DEF Connect, Close, Join, Recv, Disconnected, At, ServerInv, TypeOK, netVars
      <3>2. stBar'[c] = stBar[c]
        BY <2>2 DEF Connect, Close, Join, Recv, Disconnected, At, ServerInv, TypeOK, netVars, stBar
      <3> QED BY <3>1, <3>2, ExchangeOf DEF stBar
    <2>3. CASE AcceptFails \/ JoinFailed
      BY <2>3 DEF AcceptFails, JoinFailed, Spin, stBar
    <2> QED BY <2>1, <2>2, <2>3
  <1> QED BY <1>1, <1>4, <1>5 DEF Pool!vars

(***************************************************************************)
(* Steps of a request before it takes effect, or after.                    *)
(***************************************************************************)
LEMMA LookupStutters ==
  ASSUME NoWrap, ServerInv, NEW c \in Clients,
         Mmap(c) \/ get_new_handle(c) \/ set_addr_map(c) \/ unset_addr_map(c) \/ unset_hndl_n_pages(c)
  PROVE  UNCHANGED Pool!vars
  <1> USE DEF ServerInv
  <1>1. PICK from \in {"mmap", "handle", "set_addr", "unset_addr", "unset_n_pages"},
             to \in {"handle", "set_addr", "set_n_pages", "unset_n_pages", "send"} :
           /\ At(c, from, to)
           /\ from \in {"unset_addr", "unset_n_pages"} <=> to \in {"unset_n_pages", "send"}
           /\ from = "unset_n_pages" <=> to = "send"
    BY DEF Mmap, get_new_handle, GiveHandle, set_addr_map, unset_addr_map, unset_hndl_n_pages
  <1>2. UNCHANGED <<cst, inbox, backlog, serving, pkt>>
    BY DEF Mmap, get_new_handle, GiveHandle, set_addr_map, unset_addr_map, unset_hndl_n_pages, netVars
  <1>3. /\ hpc[c] = from /\ hpc'[c] = to
        /\ \A d \in Clients \ {c} : hpc'[d] = hpc[d] /\ hpc[d] \in {"none", "backlog"}
        /\ \A h : Freeing(h) <=> from \in {"unset_addr", "unset_n_pages"} /\ pkt[c].hndl = h
        /\ \A h : Freeing(h)' <=> to \in {"unset_addr", "unset_n_pages"} /\ pkt'[c].hndl = h
    BY <1>1, <1>2, OnlyThread
  <1>4. UNCHANGED stBar
    <2>1. stBar'[c] = stBar[c]
      BY <1>1, <1>2, <1>3 DEF stBar
    <2> QED BY <1>2, <1>3, <2>1, ExchangeOf DEF stBar
  <1>5. UNCHANGED poolBar
    <2>1. CASE Mmap(c)
      <3>1. PICK b \in Bases : mapped[b] = 0 /\ bytes' = [bytes EXCEPT ![b] = ZeroPages]
        BY <2>1 DEF Mmap
      <3>2. Live' = Live /\ UNCHANGED <<addr_map, hndl_n_pages>>
        BY <1>1, <1>3, <2>1 DEF Live, Mmap, srvVars, At
      <3>3. \A h \in Live : addr_map[h] \in Bases \ {b}
        BY <3>1 DEF OwnRegions, TypeOK, Live
      <3> QED BY <3>1, <3>2, <3>3, PoolSame DEF TypeOK
    <2>2. CASE get_new_handle(c)
      BY <1>1, <1>3, <2>2, PoolSame DEF get_new_handle, GiveHandle, At, Live, memVars
    <2>3. CASE set_addr_map(c)
      <3>1. from = "set_addr" /\ to = "set_n_pages"
        BY <1>3, <2>3 DEF set_addr_map, At, TypeOK
      <3>2. loc[c].hndl \notin DOMAIN addr_map \cup DOMAIN hndl_n_pages
        BY <1>3, <3>1 DEF Allocating
      <3>3. /\ DOMAIN addr_map' = DOMAIN addr_map \cup {loc[c].hndl}
            /\ \A h \in DOMAIN addr_map \ {loc[c].hndl} : addr_map'[h] = addr_map[h]
            /\ UNCHANGED <<hndl_n_pages, bytes>>
        BY <2>3 DEF set_addr_map, Insert, memVars
      <3>4. Live' = Live
        BY <1>3, <3>1, <3>2, <3>3 DEF Live
      <3> QED BY <3>2, <3>3, <3>4, PoolSame DEF Live
    <2>4. CASE unset_addr_map(c)
      <3>1. from = "unset_addr" /\ to = "unset_n_pages"
        BY <1>3, <2>4 DEF unset_addr_map, At, TypeOK
      <3>2. /\ DOMAIN addr_map' = DOMAIN addr_map \ {pkt[c].hndl}
            /\ \A h \in DOMAIN addr_map \ {pkt[c].hndl} : addr_map'[h] = addr_map[h]
            /\ UNCHANGED <<hndl_n_pages, bytes>>
        BY <2>4 DEF unset_addr_map, Erase, memVars
      <3>3. Live' = Live
        BY <1>2, <1>3, <3>1, <3>2 DEF Live
      <3> QED BY <1>3, <3>1, <3>2, <3>3, PoolSame DEF Live
    <2>5. CASE unset_hndl_n_pages(c)
      <3>1. from = "unset_n_pages" /\ to = "send"
        BY <1>3, <2>5 DEF unset_hndl_n_pages, At, TypeOK
      <3>2. /\ DOMAIN hndl_n_pages' = DOMAIN hndl_n_pages \ {pkt[c].hndl}
            /\ \A h \in DOMAIN hndl_n_pages \ {pkt[c].hndl} : hndl_n_pages'[h] = hndl_n_pages[h]
            /\ UNCHANGED <<addr_map, bytes>>
        BY <2>5 DEF unset_hndl_n_pages, Erase, memVars
      <3>3. pkt[c].hndl \notin DOMAIN addr_map
        BY <1>3, <3>1 DEF Found
      <3>4. Live' = Live
        BY <1>2, <1>3, <3>1, <3>2, <3>3 DEF Live
      <3> QED BY <1>3, <3>1, <3>2, <3>4, PoolSame DEF Live
    <2> QED BY <2>1, <2>2, <2>3, <2>4, <2>5
  <1> QED BY <1>2, <1>4, <1>5 DEF Pool!vars

-----------------------------------------------------------------------------
(***************************************************************************)
(* A request is refused: the answer carries the error, the pool is as it   *)
(* was.                                                                    *)
(***************************************************************************)
LEMMA RefusedBar ==
  ASSUME ServerInv, NEW c \in Clients, NEW from, NEW error, At(c, from, "send"),
         from \in {"recv", "mmap", "has", "get_addr"},
         pkt' = [pkt EXCEPT ![c].error = error],
         UNCHANGED <<serving, bytes>>, \A d \in Clients \ {c} : inbox'[d] = inbox[d],
         SameMap(addr_map', addr_map), SameMap(hndl_n_pages', hndl_n_pages),
         from = "recv" => inbox[c]
  PROVE  Pool!Refuse(c, error) /\ stBar[c] = "asked"
  <1> USE DEF ServerInv
  <1>1. /\ hpc[c] = from /\ hpc'[c] = "send"
        /\ \A d \in Clients \ {c} : hpc'[d] = hpc[d]
        /\ \A h : ~Freeing(h) /\ ~Freeing(h)'
    BY OnlyThread
  <1>2. Live' = Live /\ UNCHANGED poolBar
    BY <1>1, PoolSame DEF Live, SameMap
  <1>3. stBar[c] = "asked" /\ stBar'[c] = "done"
    BY <1>1 DEF stBar
  <1>4. stBar' = [stBar EXCEPT ![c] = "done"]
    BY <1>1, <1>3, ExchangeOf
  <1> QED BY <1>2, <1>3, <1>4 DEF Pool!Refuse, Pool!Effect

(***************************************************************************)
(* The steps that find an error are Act steps of the pool.                 *)
(***************************************************************************)
LEMMA RefusedActs ==
  ASSUME ServerInv, NEW c \in Clients,
         RecvUnknown(c) \/ MmapFails(c) \/ Fail(c, "has", "INVALID_HANDLE"),
         Fail(c, "has", "INVALID_HANDLE") => pkt[c].hndl \notin DOMAIN addr_map
  PROVE  Pool!Act(c)
  <1> USE DEF ServerInv
  <1>1. CASE RecvUnknown(c)
    <2>1. Pool!Refuse(c, "UNKNOWN_ACTION") /\ stBar[c] = "asked"
      <3>1. At(c, "recv", "send") /\ pkt' = [pkt EXCEPT ![c].error = "UNKNOWN_ACTION"]
            /\ UNCHANGED <<serving, bytes, addr_map, hndl_n_pages>> /\ inbox[c]
            /\ \A d \in Clients \ {c} : inbox'[d] = inbox[d]
        BY <1>1 DEF RecvUnknown, srvVars, memVars, TypeOK
      <3> QED BY <3>1, RefusedBar DEF SameMap
    <2>2. pkt[c].action = "other"
      BY <1>1 DEF RecvUnknown
    <2> QED BY <2>1, <2>2 DEF Pool!Act
  <1>2. CASE MmapFails(c)
    <2>1. Pool!Refuse(c, "ALLOC_FAILED") /\ stBar[c] = "asked"
      BY <1>2, RefusedBar DEF MmapFails, Fail, netVars, srvVars, memVars, SameMap
    <2>2. pkt[c].action = "map"
      BY <1>2 DEF MmapFails, Fail, At, Dispatched
    <2> QED BY <2>1, <2>2 DEF Pool!Act, Pool!Map
  <1>3. CASE Fail(c, "has", "INVALID_HANDLE")
    <2>1. Pool!Refuse(c, "INVALID_HANDLE") /\ stBar[c] = "asked"
      BY <1>3, RefusedBar DEF Fail, netVars, srvVars, memVars, SameMap
    <2>2. pkt[c].action \in {"get", "put", "free"}
      BY <1>3 DEF Fail, At, Dispatched
    <2>3. ~Pool!Live(pkt[c].hndl)
      BY <1>3 DEF Pool!Live, poolBar, Live
    <2> QED BY <2>1, <2>2, <2>3 DEF Pool!Act, Pool!Get, Pool!Put, Pool!Free
  <1> QED BY <1>1, <1>2, <1>3

(***************************************************************************)
(* contains_key finds what is live; the second look in free never fails.   *)
(***************************************************************************)
LEMMA ContainsBar ==
  ASSUME NoWrap, ServerInv, NEW c \in Clients, contains_key(c) \/ contains_key_again(c)
  PROVE  Pool!Act(c) \/ UNCHANGED Pool!vars
  <1> USE DEF ServerInv
  <1>1. CASE pkt[c].hndl \in DOMAIN addr_map
    <2>1. PICK from \in {"has", "has_again"}, to \in {"has_again", "get_n_pages"} : At(c, from, to)
      BY <1>1 DEF contains_key, contains_key_again
    <2>2. UNCHANGED <<inbox, serving, pkt, addr_map, hndl_n_pages, bytes>>
      BY <1>1 DEF contains_key, contains_key_again, netVars, srvVars, memVars
    <2>3. /\ hpc[c] = from /\ hpc'[c] = to
          /\ \A d \in Clients \ {c} : hpc'[d] = hpc[d]
          /\ \A h : ~Freeing(h) /\ ~Freeing(h)'
      BY <2>1, <2>2, OnlyThread
    <2>4. UNCHANGED poolBar
      BY <2>2, <2>3, PoolSame DEF Live
    <2>5. stBar'[c] = stBar[c]
      BY <2>2, <2>3 DEF stBar
    <2>6. UNCHANGED stBar
      BY <2>2, <2>3, <2>5, ExchangeOf DEF stBar
    <2> QED BY <2>2, <2>4, <2>6 DEF Pool!vars
  <1>2. CASE pkt[c].hndl \notin DOMAIN addr_map
    <2>1. ~contains_key_again(c)
      BY <1>2 DEF contains_key_again, Fail, At, Found
    <2>2. Fail(c, "has", "INVALID_HANDLE")
      BY <1>2, <2>1 DEF contains_key
    <2> QED BY <1>2, <2>2, RefusedActs
  <1> QED BY <1>1, <1>2

(***************************************************************************)
(* The size and the address are read; a page outside the allocation is     *)
(* refused.  A live handle has pages, so free goes on.                     *)
(***************************************************************************)
LEMMA FindBar ==
  ASSUME NoWrap, ServerInv, NEW c \in Clients, get_hndl_n_pages(c) \/ get_addr_map(c)
  PROVE  Pool!Act(c) \/ UNCHANGED Pool!vars
  <1> USE DEF ServerInv
  <1>1. PICK from \in {"get_n_pages", "get_addr"}, to \in {"get_addr", "send", "memcpy", "munmap"} :
           At(c, from, to)
    BY DEF get_hndl_n_pages, get_addr_map, Locate
  <1>2. UNCHANGED <<inbox, serving, bytes>>
    BY DEF get_hndl_n_pages, get_addr_map, Locate, netVars, memVars
  <1>3. /\ hpc[c] = from /\ hpc'[c] = to
        /\ \A d \in Clients \ {c} : hpc'[d] = hpc[d] /\ hpc[d] \in {"none", "backlog"}
        /\ \A h : ~Freeing(h) /\ ~Freeing(h)'
    BY <1>1, <1>2, OnlyThread
  <1>4. pkt[c].hndl \in Live
    BY <1>3 DEF Found, Live
  <1>5. SameMap(addr_map', addr_map) /\ SameMap(hndl_n_pages', hndl_n_pages)
    <2>1. CASE get_hndl_n_pages(c)
      BY <1>4, <2>1, InsertSame DEF get_hndl_n_pages, SameMap, Live
    <2>2. CASE get_addr_map(c)
      BY <1>4, <2>2, InsertSame DEF get_addr_map, Locate, SameMap, Live
    <2> QED BY <2>1, <2>2
  <1>6. CASE to # "send"
    <2>1. UNCHANGED pkt
      BY <1>3, <1>6 DEF get_hndl_n_pages, get_addr_map, Locate, At, TypeOK
    <2>2. UNCHANGED poolBar
      BY <1>2, <1>3, <1>5, PoolSame DEF Live, SameMap
    <2>3. stBar'[c] = stBar[c]
      BY <1>2, <1>3, <1>6 DEF stBar
    <2>4. UNCHANGED stBar
      BY <1>2, <1>3, <2>3, ExchangeOf DEF stBar
    <2> QED BY <2>1, <2>2, <2>4 DEF Pool!vars
  <1>7. CASE to = "send"
    <2>1. ~get_hndl_n_pages(c)
      <3> SUFFICES ASSUME get_hndl_n_pages(c) PROVE FALSE
        OBVIOUS
      <3>1. Value(hndl_n_pages, pkt[c].hndl, 0) = 0
        BY <1>3, <1>7 DEF get_hndl_n_pages, At, TypeOK
      <3> QED BY <1>4, <3>1, LiveSizes DEF Value, Live
    <2>2. /\ from = "get_addr"
          /\ pkt[c].action # "free" /\ ~(pkt[c].offset < loc[c].npages)
          /\ pkt' = [pkt EXCEPT ![c].error = OutOfRange(pkt[c].action)]
      BY <1>3, <1>7, <2>1 DEF get_addr_map, Locate, At, TypeOK
    <2>3. loc[c].npages = hndl_n_pages[pkt[c].hndl] /\ pkt[c].action \in {"get", "put"}
      BY <1>3, <2>2 DEF Found, Dispatched
    <2>4. Pool!Refuse(c, OutOfRange(pkt[c].action)) /\ stBar[c] = "asked"
      BY <1>1, <1>2, <1>5, <1>7, <2>2, RefusedBar
    <2>5. Pool!Live(pkt[c].hndl)
      BY <1>4 DEF Pool!Live, poolBar
    <2>6. ~Pool!InRange(pkt[c].hndl, pkt[c].offset)
      <3>1. pkt[c].offset \notin 0 .. hndl_n_pages[pkt[c].hndl] - 1
        BY <1>4, <2>2, <2>3, LiveSizes DEF TypeOK, Packet
      <3> QED BY <1>4, <3>1 DEF Pool!InRange, poolBar
    <2>7. CASE pkt[c].action = "get"
      BY <2>4, <2>5, <2>6, <2>7 DEF OutOfRange, Pool!Act, Pool!Get
    <2>8. CASE pkt[c].action = "put"
      BY <2>4, <2>5, <2>6, <2>8 DEF OutOfRange, Pool!Act, Pool!Put
    <2> QED BY <2>3, <2>7, <2>8
  <1> QED BY <1>6, <1>7

-----------------------------------------------------------------------------
(***************************************************************************)
(* alloc takes effect when hndl_n_pages gets the size: a new handle, whose *)
(* pages nobody has touched since mmap returned them.                      *)
(***************************************************************************)
LEMMA PublishBar ==
  ASSUME NoWrap, ServerInv, NEW c \in Clients, set_hndl_n_pages(c)
  PROVE  Pool!Act(c)
  <1> USE DEF ServerInv
  <1> DEFINE hh == loc[c].hndl
             n == pkt[c].npages
  <1>1. At(c, "set_n_pages", "send") /\ UNCHANGED <<inbox, serving, addr_map, bytes>>
        /\ pkt' = [pkt EXCEPT ![c].hndl = hh]
    BY DEF set_hndl_n_pages, Publish, netVars, memVars
  <1>2. /\ DOMAIN hndl_n_pages' = DOMAIN hndl_n_pages \cup {hh}
        /\ hndl_n_pages'[hh] = n
        /\ \A h \in DOMAIN hndl_n_pages \ {hh} : hndl_n_pages'[h] = hndl_n_pages[h]
    BY DEF set_hndl_n_pages, Publish, Insert
  <1>3. /\ hpc[c] = "set_n_pages" /\ hpc'[c] = "send"
        /\ \A d \in Clients \ {c} : hpc'[d] = hpc[d]
        /\ \A h : ~Freeing(h) /\ ~Freeing(h)'
    BY <1>1, OnlyThread
  <1>4. /\ hh \in DOMAIN addr_map \ DOMAIN hndl_n_pages
        /\ bytes[addr_map[hh]] = ZeroPages
        /\ pkt[c].action = "map" /\ n \in AllocSizes /\ hh \in Handles
    BY <1>3 DEF Allocating, Dispatched, Asked, TypeOK
  <1> HIDE DEF hh, n
  <1>5. n \in 0 .. MaxPages - 1 /\ MaxPages \in Nat
    BY <1>4, PagesFit DEF NoWrap
  <1>6. Live' = Live \cup {hh} /\ hh \notin Live
    BY <1>1, <1>2, <1>3, <1>4 DEF Live
  <1>7. poolBar' = [x \in DOMAIN poolBar \cup {hh} |->
                       IF x = hh THEN [i \in 0 .. n - 1 |-> Zero] ELSE poolBar[x]]
    <2>1. DOMAIN poolBar = Live
      BY DEF poolBar
    <2>2. [i \in 0 .. hndl_n_pages'[hh] - 1 |-> bytes'[addr_map'[hh]][i]] = [i \in 0 .. n - 1 |-> Zero]
      BY <1>1, <1>2, <1>4, <1>5 DEF ZeroPages
    <2>3. \A x \in Live : [i \in 0 .. hndl_n_pages'[x] - 1 |-> bytes'[addr_map'[x]][i]] = poolBar[x]
      BY <1>1, <1>2, <1>6 DEF Live, poolBar
    <2>4. poolBar' = [x \in Live' |-> [i \in 0 .. hndl_n_pages'[x] - 1 |-> bytes'[addr_map'[x]][i]]]
      BY DEF poolBar
    <2> QED BY <1>6, <2>1, <2>2, <2>3, <2>4
  <1>8. stBar[c] = "asked" /\ stBar' = [stBar EXCEPT ![c] = "done"]
    <2>1. stBar[c] = "asked" /\ stBar'[c] = "done"
      BY <1>3 DEF stBar
    <2> QED BY <1>1, <1>3, <2>1, ExchangeOf
  <1>9. Pool!Map(c)
    <2>1. hh \in Handles \ DOMAIN poolBar
      BY <1>4, <1>6 DEF poolBar
    <2>2. pkt' = [pkt EXCEPT ![c] = [pkt[c] EXCEPT !.hndl = hh]]
      BY <1>1
    <2> QED BY <1>7, <1>8, <2>1, <2>2 DEF Pool!Map, Pool!Effect, n
  <1> QED BY <1>4, <1>8, <1>9 DEF Pool!Act

(***************************************************************************)
(* read and write take effect with memcpy, on the page the request names   *)
(* and no other.                                                           *)
(***************************************************************************)
LEMMA MemcpyBar ==
  ASSUME NoWrap, ServerInv, NEW c \in Clients, Memcpy(c)
  PROVE  Pool!Act(c)
  <1> USE DEF ServerInv
  <1> DEFINE h == pkt[c].hndl
             o == pkt[c].offset
             b == loc[c].addr
  <1>1. At(c, "memcpy", "send") /\ UNCHANGED <<inbox, serving, addr_map, hndl_n_pages>>
    BY DEF Memcpy, netVars, srvVars
  <1>2. /\ hpc[c] = "memcpy" /\ hpc'[c] = "send"
        /\ \A d \in Clients \ {c} : hpc'[d] = hpc[d]
        /\ \A x : ~Freeing(x) /\ ~Freeing(x)'
    BY <1>1, OnlyThread
  <1>3. /\ h \in Live /\ addr_map[h] = b /\ o < hndl_n_pages[h] /\ o \in Nat
        /\ pkt[c].action \in {"get", "put"}
    BY <1>2 DEF Found, Dispatched, Live, TypeOK, Packet
  <1>4. /\ hndl_n_pages[h] \in 1 .. MaxPages - 1 /\ mapped[b] = hndl_n_pages[h]
        /\ b \in Bases /\ MaxPages \in Nat
    BY <1>3, LiveSizes, PagesFit
  <1>5. Reached(b, o) = {<<b, o>>} /\ <<b, o>> # None
    <2>1. Pages(o) = o /\ o \in 0 .. MaxPages - 1
      BY <1>3, <1>4, PagesExact
    <2>2. b # Null /\ Pages(o) < mapped[b]
      BY <1>3, <1>4, <2>1, RmpServerAssumption
    <2>3. <<b, o>> \in Bases \X (0 .. MaxPages - 1)
      BY <1>4, <2>1
    <2> QED BY <2>1, <2>2, <2>3, RmpServerAssumption DEF Reached, Pages
  <1>6. \/ /\ pkt[c].action = "get"
           /\ pkt' = [pkt EXCEPT ![c].data = bytes[b][o]] /\ UNCHANGED bytes
        \/ /\ pkt[c].action = "put"
           /\ bytes' = [bytes EXCEPT ![b][o] = pkt[c].data] /\ UNCHANGED pkt
    BY <1>3, <1>5 DEF Memcpy
  <1> HIDE DEF h, o, b
  <1>7. Live' = Live
    BY <1>1, <1>2 DEF Live
  <1>8. stBar[c] = "asked" /\ stBar' = [stBar EXCEPT ![c] = "done"]
    <2>1. stBar[c] = "asked" /\ stBar'[c] = "done"
      BY <1>2 DEF stBar
    <2> QED BY <1>1, <1>2, <2>1, ExchangeOf
  <1>9. Pool!InRange(h, o)
    BY <1>3, <1>4 DEF Pool!InRange, Pool!Live, poolBar
  <1>10. CASE pkt[c].action = "get"
    <2>1. UNCHANGED poolBar
      BY <1>1, <1>6, <1>7, <1>10, PoolSame
    <2>2. poolBar[h][o] = bytes[b][o]
      BY <1>3, <1>4 DEF poolBar
    <2>3. pkt' = [pkt EXCEPT ![c] = [pkt[c] EXCEPT !.data = poolBar[h][o]]]
      BY <1>6, <1>10, <2>2
    <2>4. Pool!Get(c)
      BY <1>8, <1>9, <2>1, <2>3 DEF Pool!Get, Pool!Effect, h, o
    <2> QED BY <1>8, <1>10, <2>4 DEF Pool!Act
  <1>11. CASE pkt[c].action = "put"
    <2>1. bytes' = [bytes EXCEPT ![b] = [bytes[b] EXCEPT ![o] = pkt[c].data]] /\ UNCHANGED pkt
      BY <1>6, <1>11
    <2>2. bytes'[b] = [bytes[b] EXCEPT ![o] = pkt[c].data]
          /\ \A x \in Bases \ {b} : bytes'[x] = bytes[x]
      BY <1>4, <2>1 DEF TypeOK
    <2>3. \A x \in Live \ {h} : addr_map[x] \in Bases \ {b}
      BY <1>3 DEF OwnRegions, Live, TypeOK
    <2>4. poolBar' = [x \in Live |-> [i \in 0 .. hndl_n_pages[x] - 1 |-> bytes'[addr_map[x]][i]]]
      BY <1>1, <1>7 DEF poolBar
    <2>5. \A x \in Live \ {h} : poolBar'[x] = poolBar[x]
      BY <2>2, <2>3, <2>4 DEF poolBar
    <2>6. poolBar'[h] = [poolBar[h] EXCEPT ![o] = pkt[c].data]
      <3>1. poolBar'[h] = [i \in 0 .. hndl_n_pages[h] - 1 |-> bytes'[b][i]]
        BY <1>3, <2>4
      <3>2. poolBar[h] = [i \in 0 .. hndl_n_pages[h] - 1 |-> bytes[b][i]]
        BY <1>3 DEF poolBar
      <3>3. \A i \in 0 .. hndl_n_pages[h] - 1 :
               bytes'[b][i] = IF i = o THEN pkt[c].data ELSE bytes[b][i]
        BY <1>3, <1>4, <2>2 DEF TypeOK
      <3> QED BY <3>1, <3>2, <3>3
    <2>7. poolBar' = [poolBar EXCEPT ![h] = [poolBar[h] EXCEPT ![o] = pkt[c].data]]
      <3>1. DOMAIN poolBar = Live /\ poolBar = [x \in Live |-> poolBar[x]]
        BY DEF poolBar
      <3>2. poolBar' = [x \in Live |-> poolBar'[x]]
        BY <2>4
      <3> QED BY <1>3, <2>5, <2>6, <3>1, <3>2
    <2>8. Pool!Put(c)
      <3>1. pkt' = [pkt EXCEPT ![c] = pkt[c]]
        BY <2>1 DEF TypeOK
      <3> QED BY <1>8, <1>9, <2>7, <3>1 DEF Pool!Put, Pool!Effect, h, o
    <2> QED BY <1>8, <1>11, <2>8 DEF Pool!Act
  <1> QED BY <1>3, <1>10, <1>11

(***************************************************************************)
(* free takes effect with munmap, which never fails on a live handle.      *)
(***************************************************************************)
LEMMA MunmapBar ==
  ASSUME NoWrap, ServerInv, NEW c \in Clients, Munmap(c)
  PROVE  Pool!Act(c)
  <1> USE DEF ServerInv
  <1> DEFINE h == pkt[c].hndl
             b == loc[c].addr
  <1>0. hpc[c] = "munmap" /\ UNCHANGED serving
    BY DEF Munmap, Fail, At, netVars
  <1>1. h \in DOMAIN addr_map \cap DOMAIN hndl_n_pages /\ addr_map[h] = b
        /\ loc[c].npages = hndl_n_pages[h] /\ pkt[c].action = "free"
    BY <1>0 DEF Found, Dispatched
  <1>2. h \in Live
    <2>1. \A d \in Clients \ {c} : hpc[d] \in {"none", "backlog"}
      BY <1>0 DEF Joined
    <2> QED BY <1>0, <1>1, <2>1 DEF Live, Freeing
  <1>3. Pages(loc[c].npages) # 0
    BY <1>1, <1>2, LiveSizes
  <1>4. /\ At(c, "munmap", "unset_addr") /\ UNCHANGED <<inbox, pkt, addr_map, hndl_n_pages>>
        /\ bytes' = [x \in Bases |-> IF x = b THEN ZeroPages ELSE bytes[x]]
    BY <1>3 DEF Munmap, Pages, netVars, srvVars
  <1>5. /\ hpc'[c] = "unset_addr" /\ \A d \in Clients \ {c} : hpc'[d] = hpc[d]
        /\ \A x : ~Freeing(x) /\ (Freeing(x)' <=> h = x)
    BY <1>0, <1>4, OnlyThread
  <1> HIDE DEF h, b
  <1>6. Live' = Live \ {h}
    BY <1>4, <1>5 DEF Live
  <1>7. \A x \in Live' : addr_map[x] \in Bases \ {b}
    BY <1>1, <1>6 DEF OwnRegions, Live, TypeOK
  <1>8. poolBar' = [x \in DOMAIN poolBar \ {h} |-> poolBar[x]]
    <2>1. DOMAIN poolBar = Live
      BY DEF poolBar
    <2>2. \A x \in Live' : bytes'[addr_map'[x]] = bytes[addr_map[x]]
      BY <1>4, <1>7
    <2>3. \A x \in Live' : [i \in 0 .. hndl_n_pages'[x] - 1 |-> bytes'[addr_map'[x]][i]] = poolBar[x]
      BY <1>4, <1>6, <2>2 DEF poolBar
    <2>4. poolBar' = [x \in Live' |-> [i \in 0 .. hndl_n_pages'[x] - 1 |-> bytes'[addr_map'[x]][i]]]
      BY DEF poolBar
    <2> QED BY <1>6, <2>1, <2>3, <2>4
  <1>9. stBar[c] = "asked" /\ stBar' = [stBar EXCEPT ![c] = "done"]
    <2>1. stBar[c] = "asked" /\ stBar'[c] = "done"
      BY <1>0, <1>5 DEF stBar
    <2> QED BY <1>4, <1>5, <2>1, ExchangeOf
  <1>10. Pool!Free(c)
    <2>1. pkt' = [pkt EXCEPT ![c] = pkt[c]]
      BY <1>4 DEF TypeOK
    <2>2. Pool!Live(h)
      BY <1>2 DEF Pool!Live, poolBar
    <2> QED BY <1>8, <1>9, <2>1, <2>2 DEF Pool!Free, Pool!Effect, h
  <1> QED BY <1>1, <1>9, <1>10 DEF Pool!Act

-----------------------------------------------------------------------------
\* A client asks when its last request has been answered.
LEMMA RequestBar ==
  ASSUME ServerInv, NEW c \in Clients, NEW request \in Requests, Request(c, request)
  PROVE  Pool!Ask(c, request)
  <1> USE DEF ServerInv
  <1>1. hpc[c] \in {"backlog", "recv"} /\ ~inbox[c]
    BY DEF Request, OneRequest
  <1>2. /\ UNCHANGED <<hpc, addr_map, hndl_n_pages, bytes>>
        /\ inbox'[c] /\ \A d \in Clients \ {c} : inbox'[d] = inbox[d] /\ pkt'[d] = pkt[d]
    BY DEF Request, srvVars, memVars, TypeOK
  <1>3. \A h : Freeing(h)' <=> Freeing(h)
    BY <1>1, <1>2 DEF Freeing
  <1>4. UNCHANGED poolBar
    BY <1>2, <1>3, PoolSame DEF Live
  <1>5. stBar[c] = "idle" /\ stBar'[c] = "asked"
    BY <1>1, <1>2 DEF stBar
  <1>6. stBar' = [stBar EXCEPT ![c] = "asked"]
    BY <1>2, <1>5, ExchangeOf
  <1> QED BY <1>4, <1>5, <1>6 DEF Request, Pool!Ask

\* The answer is sent once, after the request has taken effect.
LEMMA SendBar ==
  ASSUME ServerInv, NEW c \in Clients, Send(c)
  PROVE  Pool!Answer(c)
  <1> USE DEF ServerInv
  <1>1. At(c, "send", "recv") /\ UNCHANGED <<inbox, serving, addr_map, hndl_n_pages, bytes>>
        /\ pkt' = [pkt EXCEPT ![c] = Blank]
    BY DEF Send, srvVars, memVars
  <1>2. /\ hpc[c] = "send" /\ hpc'[c] = "recv" /\ \A d \in Clients \ {c} : hpc'[d] = hpc[d]
        /\ \A h : ~Freeing(h) /\ ~Freeing(h)'
    BY <1>1, OnlyThread
  <1>3. ~inbox[c]
    BY <1>2 DEF OneRequest
  <1>4. UNCHANGED poolBar
    BY <1>1, <1>2, PoolSame DEF Live
  <1>5. stBar[c] = "done" /\ stBar'[c] = "idle"
    BY <1>1, <1>2, <1>3 DEF stBar
  <1>6. stBar' = [stBar EXCEPT ![c] = "idle"]
    BY <1>1, <1>2, <1>5, ExchangeOf
  <1> QED BY <1>1, <1>4, <1>5, <1>6 DEF Pool!Answer

(***************************************************************************)
(* The server is linearizable: if no size wraps, every behaviour of the    *)
(* accept loop, the connection threads and rmp::Server is one of PagePool. *)
(***************************************************************************)
THEOREM ServerIsPool ==
  ASSUME NoWrap
  PROVE  Spec => Linearizable
  <1>1. Init => Pool!Init
    <2> SUFFICES ASSUME Init PROVE Pool!Init
      OBVIOUS
    <2>1. Live = {}
      BY DEF Init, Live
    <2>2. poolBar = [h \in {} |-> 0]
      BY <2>1 DEF poolBar
    <2> QED BY <2>2 DEF Init, Pool!Init, stBar
  <1>2. ServerInv /\ [Next]_vars => [Pool!Next]_(Pool!vars)
    <2> SUFFICES ASSUME ServerInv, [Next]_vars PROVE Pool!Next \/ UNCHANGED Pool!vars
      OBVIOUS
    <2>1. CASE UNCHANGED vars
      BY <2>1 DEF vars, netVars, srvVars, memVars, Pool!vars, poolBar, stBar, Live, Freeing
    <2>2. CASE Accept \/ AcceptFails \/ JoinFailed
      BY <2>2, NetworkStutters
    <2>3. ASSUME NEW c \in Clients, NEW request \in Requests, Request(c, request)
          PROVE  Pool!Next
      BY <2>3, RequestBar DEF Pool!Next
    <2>4. ASSUME NEW c \in Clients, Connect(c) \/ Close(c) \/ Join(c) \/ connection_handler(c)
          PROVE  Pool!Next \/ UNCHANGED Pool!vars
      <3>1. CASE Connect(c) \/ Close(c) \/ Join(c) \/ Recv(c) \/ Disconnected(c)
        BY <3>1, NetworkStutters
      <3>2. CASE Send(c)
        BY <3>2, SendBar DEF Pool!Next
      <3>3. CASE RecvUnknown(c) \/ MmapFails(c)
        <4>1. ~Fail(c, "has", "INVALID_HANDLE")
          BY <3>3 DEF RecvUnknown, MmapFails, Fail, At
        <4> QED BY <3>3, <4>1, RefusedActs DEF Pool!Next
      <3>4. CASE \/ Mmap(c) \/ get_new_handle(c) \/ set_addr_map(c)
                 \/ unset_addr_map(c) \/ unset_hndl_n_pages(c)
        BY <3>4, LookupStutters
      <3>5. CASE Find(c)
        BY <3>5, ContainsBar, FindBar DEF Find, Pool!Next
      <3>6. CASE set_hndl_n_pages(c) \/ Memcpy(c) \/ Munmap(c)
        BY <3>6, PublishBar, MemcpyBar, MunmapBar DEF Pool!Next
      <3> QED BY <2>4, <3>1, <3>2, <3>3, <3>4, <3>5, <3>6 DEF connection_handler, Alloc, Free
    <2> QED BY <2>1, <2>2, <2>3, <2>4 DEF Next
  <1> QED BY <1>1, <1>2, ServerInit, ServerNext, PTL DEF Spec, Linearizable, Pool!Spec
=============================================================================
