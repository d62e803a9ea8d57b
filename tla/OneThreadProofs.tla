--------------------------- MODULE OneThreadProofs ---------------------------
(***************************************************************************)
(* Theorems about UffdMan for a program with one application thread T, and *)
(* any number of regions, pages and words.  With one thread at most one    *)
(* fault is in flight, which is what the handlers' shared state relies on. *)
(* G are regions the program has given back, none in UffdMan itself.       *)
(***************************************************************************)
EXTENDS UffdManProofs

\* A handler that is busy has the fault on which T sleeps, in its own region.
AtWork(T) ==
    \A r \in Regions : pc[r] \in Busy =>
        /\ tstate[T] = "asleep"
        /\ acc[T].addr[1] = r
        /\ pc[r] \in {"addr", "op"} => msg.addr = acc[T].addr /\ msg.op = acc[T].op
        /\ pc[r] # "addr" => faulting_addr[r] = acc[T].addr
        /\ pc[r] \notin {"addr", "op"} => faulting_op[r] = acc[T].op

\* T sleeps only on a page that is still missing.
Missing(T) == tstate[T] \in {"pending", "asleep"} => acc[T].addr \notin resident

\* Pages are mapped in allocated regions only.
Allocated == \A a \in resident : reg[a[1]] # "none"

\* A handler, once started, records pages of its own region.
PrevOwn ==
    \A r \in Regions :
        /\ prev[r] # None => prev[r].addr[1] = r /\ pc[r] # "off"
        /\ pc[r] = "record" => faulting_addr[r][1] = r

\* T is in no access to a region it has given back.
Apart(T, G) == tstate[T] # "idle" => acc[T].addr[1] \notin G

(***************************************************************************)
(* The one mapped page of a watched region is the page its handler         *)
(* recorded last; from UFFDIO_COPY to the end of that loop iteration it is *)
(* the page of the fault at hand, and before UFFDIO_COPY there is none.    *)
(***************************************************************************)
LatestOnly(G) ==
    \A a \in resident : Watched(a) /\ a[1] \notin G =>
        /\ pc[a[1]] \notin {"fetch", "copy"}
        /\ pc[a[1]] = "record" => a = faulting_addr[a[1]]
        /\ pc[a[1]] # "record" => prev[a[1]] # None /\ a = prev[a[1]].addr

\* A page resolved for a store is what the server holds when a handler is about to drop it:
\* T, the only thread that could store to it, sleeps in the fault.
SavedFirst ==
    \A r \in Regions : pc[r] = "drop" /\ prev[r].op = "store" =>
        remote[prev[r].addr] = local[prev[r].addr]

OneThreadInv(T, G) ==
    /\ Registered
    /\ AtWork(T)
    /\ Missing(T)
    /\ Allocated
    /\ PrevOwn
    /\ Apart(T, G)
    /\ LatestOnly(G)
    /\ SavedFirst

(***************************************************************************)
(* Steps of the application and of the kernel.  T runs, so no handler is   *)
(* busy, and what it stores cannot fall between a save and its madvise.    *)
(***************************************************************************)
LEMMA OneThreadApp ==
  ASSUME NEW T, NEW G, Threads = {T}, TypeInv, OneThreadInv(T, G),
         \/ \E r \in Regions, outcome \in RegisterOutcomes : rmp_alloc(T, r, outcome)
         \/ \E a \in Access : a.addr[1] \notin G /\ Issue(T, a)
         \/ Execute(T)
  PROVE  OneThreadInv(T, G)'
  <1> USE DEF OneThreadInv
  <1>0. tstate[T] \in {"idle", "run"} /\ \A r \in Regions : pc[r] \notin Busy
    BY DEF rmp_alloc, Issue, Execute, Load, Store, PageFault, AtWork
  <1>1. ASSUME NEW r \in Regions, NEW outcome \in RegisterOutcomes, rmp_alloc(T, r, outcome)
        PROVE  OneThreadInv(T, G)'
    <2>1. pc[r] = "off" /\ \A a \in resident : a[1] # r
      BY <1>1 DEF rmp_alloc, Registered, Allocated
    <2>2. Registered' /\ AtWork(T)' /\ Missing(T)' /\ Apart(T, G)' /\ PrevOwn' /\ SavedFirst'
      BY <1>0, <1>1, <2>1
      DEF rmp_alloc, TypeInv, TypeOK, statics, locals, Registered, AtWork, Missing, Apart, PrevOwn,
          SavedFirst, Busy
    <2>3. Allocated'
      BY <1>1, UffdManAssumption DEF rmp_alloc, TypeInv, TypeOK, Allocated, Addr, Outcomes
    <2>4. LatestOnly(G)'
      BY <1>1, <2>1
      DEF rmp_alloc, TypeInv, TypeOK, statics, locals, LatestOnly, Watched, Addr
    <2> QED BY <2>2, <2>3, <2>4
  <1>2. CASE \E a \in Access : a.addr[1] \notin G /\ Issue(T, a)
    BY <1>0, <1>2
    DEF Issue, TypeInv, TypeOK, pageVars, statics, locals, Registered, AtWork, Missing, Apart,
        Allocated, PrevOwn, LatestOnly, Watched, SavedFirst
  <1>3. CASE Load(T) \/ Store(T) \/ PageFault(T)
    <2>1. \A r \in Regions : pc[r] # "drop"
      BY <1>0 DEF Busy
    <2>2. reg' = reg /\ pc' = pc /\ prev' = prev /\ resident' = resident
          /\ faulting_addr' = faulting_addr
      BY <1>3 DEF Load, Store, PageFault, pageVars, statics, locals
    <2>3. Registered' /\ AtWork(T)' /\ Allocated' /\ PrevOwn' /\ LatestOnly(G)'
          /\ SavedFirst'
      BY <1>0, <2>1, <2>2
      DEF Registered, AtWork, Allocated, PrevOwn, LatestOnly, Watched, SavedFirst
    <2>4. Missing(T)' /\ Apart(T, G)'
      BY <1>3 DEF Load, Store, PageFault, TypeInv, TypeOK, Missing, Apart, pageVars
    <2> QED BY <2>3, <2>4
  <1> QED BY <1>1, <1>2, <1>3 DEF Execute

(***************************************************************************)
(* The handler of the region on whose page T sleeps is the only busy one.  *)
(***************************************************************************)
LEMMA OnlyBusy ==
  ASSUME NEW T, AtWork(T), NEW r \in Regions, NEW s \in Regions,
         pc[r] \in Busy, pc[s] \in Busy
  PROVE  r = s
  BY DEF AtWork

(***************************************************************************)
(* Handler steps up to the invalidation of the previous page.              *)
(***************************************************************************)
LEMMA OneThreadRead ==
  ASSUME NEW T, NEW G, Threads = {T}, TypeInv, OneThreadInv(T, G), NEW r \in Regions,
         \/ CheckPage(r) \/ MapPage(r) \/ ReadMsg(r) \/ ReadAddr(r) \/ ReadOp(r) \/ Lock(r)
  PROVE  OneThreadInv(T, G)'
  <1> USE DEF OneThreadInv
  <1>1. CASE CheckPage(r) \/ MapPage(r)
    <2>1. PICK to \in {"mapping", "poll"} :
             pc[r] \in Prologue /\ pc' = [pc EXCEPT ![r] = to]
      BY <1>1 DEF CheckPage, MapPage, Goto, Prologue
    <2>2. UNCHANGED <<appVars, pageVars, msg, prev, locals, remote>>
      BY <1>1 DEF CheckPage, MapPage, Goto, statics
    <2>3. Registered' /\ AtWork(T)' /\ Missing(T)' /\ Apart(T, G)'
      BY <2>1, <2>2
      DEF TypeInv, TypeOK, appVars, pageVars, locals, Registered, AtWork, Missing, Apart, Prologue, Busy
    <2>4. Allocated' /\ PrevOwn' /\ SavedFirst'
      BY <2>1, <2>2
      DEF TypeInv, TypeOK, appVars, pageVars, locals, Allocated, PrevOwn,
          SavedFirst
    <2>5. LatestOnly(G)'
      BY <2>1, <2>2
      DEF TypeInv, TypeOK, appVars, pageVars, locals, LatestOnly, Watched, Prologue
    <2> QED BY <2>3, <2>4, <2>5
  <1>2. CASE ReadMsg(r)
    <2>1. tstate[T] = "pending" /\ acc[T].addr[1] = r /\ Deliver(r, T)
      BY <1>2 DEF ReadMsg
    <2>2. \A s \in Regions : pc[s] \notin Busy
      BY <2>1 DEF AtWork
    <2>3. pc' = [pc EXCEPT ![r] = "addr"] /\ tstate'[T] = "asleep" /\ acc' = acc
          /\ msg'.addr = acc[T].addr /\ msg'.op = acc[T].op
      BY <2>1 DEF Deliver, TypeInv, TypeOK
    <2>4. AtWork(T)' /\ Missing(T)' /\ Apart(T, G)'
      BY <2>1, <2>2, <2>3 DEF Deliver, TypeInv, TypeOK, pageVars, AtWork, Missing, Apart, Busy
    <2>5. Registered' /\ Allocated' /\ PrevOwn' /\ LatestOnly(G)' /\ SavedFirst'
      BY <2>1, <2>2
      DEF Deliver, TypeInv, TypeOK, pageVars, locals, Registered, Allocated, PrevOwn,
          LatestOnly, Watched, SavedFirst
    <2> QED BY <2>4, <2>5
  <1>3. CASE ReadAddr(r)
    BY <1>3
    DEF ReadAddr, TypeInv, TypeOK, appVars, pageVars, statics, Registered, AtWork, Missing, Apart,
        Allocated, PrevOwn, LatestOnly, Watched, SavedFirst, Busy
  <1>4. CASE ReadOp(r)
    BY <1>4
    DEF ReadOp, TypeInv, TypeOK, appVars, pageVars, statics, Registered, AtWork, Missing, Apart,
        Allocated, PrevOwn, LatestOnly, Watched, SavedFirst, Busy
  <1>5. CASE Lock(r)
    BY <1>5
    DEF Lock, Enter, TypeInv, TypeOK, appVars, pageVars, locals, Registered, AtWork, Missing, Apart,
        Allocated, PrevOwn, LatestOnly, Watched, SavedFirst, Busy
  <1> QED BY <1>1, <1>2, <1>3, <1>4, <1>5

(***************************************************************************)
(* invalidate_prev_resolved_page: the one mapped page of the region is     *)
(* saved if it was resolved for a store, and dropped.                      *)
(***************************************************************************)
LEMMA OneThreadInvalidate ==
  ASSUME NEW T, NEW G, Threads = {T}, TypeInv, OneThreadInv(T, G), NEW r \in Regions,
         SavePrev(r) \/ PrevIsClean(r) \/ NoPrev(r) \/ DropPrev(r)
  PROVE  OneThreadInv(T, G)'
  <1> USE DEF OneThreadInv
  <1>1. CASE SavePrev(r)
    <2>1. \A s \in Regions : pc[s] = "drop" => s = r
      BY <1>1, OnlyBusy DEF SavePrev, SaveTo, Busy
    <2>2. prev[r].addr[1] = r /\ prev[r].addr \in Addr
      BY <1>1 DEF SavePrev, SaveTo, PrevOwn, TypeInv, TypeOK, Fault
    <2>3. SavedFirst'
      BY <1>1, <2>1, <2>2
      DEF SavePrev, SaveTo, TypeInv, TypeOK, pageVars, statics, SavedFirst
    <2> QED
      BY <1>1, <2>3
      DEF SavePrev, SaveTo, TypeInv, TypeOK, appVars, pageVars, statics, locals, Registered,
          AtWork, Missing, Apart, Allocated, PrevOwn, LatestOnly, Watched, Busy
  <1>2. CASE PrevIsClean(r) \/ NoPrev(r)
    <2>1. PICK to \in {"drop", "fetch"} :
             /\ pc[r] = "inval" /\ pc' = [pc EXCEPT ![r] = to]
             /\ to = "drop" => prev[r].op = "load"
             /\ to = "fetch" => prev[r] = None
      BY <1>2 DEF PrevIsClean, NoPrev, Goto
    <2>2. UNCHANGED <<appVars, pageVars, statics, locals, remote>>
      BY <1>2 DEF PrevIsClean, NoPrev, Goto
    <2>3. Registered' /\ AtWork(T)' /\ Missing(T)' /\ Apart(T, G)'
      BY <2>1, <2>2
      DEF TypeInv, TypeOK, appVars, pageVars, statics, locals, Registered, AtWork, Missing, Apart, Busy
    <2>4. Allocated' /\ PrevOwn' /\ SavedFirst'
      BY <2>1, <2>2
      DEF TypeInv, TypeOK, appVars, pageVars, statics, locals, Allocated, PrevOwn,
          SavedFirst
    <2>5. LatestOnly(G)'
      BY <2>1, <2>2
      DEF TypeInv, TypeOK, appVars, pageVars, statics, locals, LatestOnly, Watched
    <2> QED BY <2>3, <2>4, <2>5
  <1>3. CASE DropPrev(r)
    <2>1. \A s \in Regions : pc[s] = "drop" => s = r
      BY <1>3, OnlyBusy DEF DropPrev, Discard, Busy
    <2>2. SavedFirst'
      BY <1>3, <2>1
      DEF DropPrev, Discard, TypeInv, TypeOK, SavedFirst
    <2>3. LatestOnly(G)'
      BY <1>3
      DEF DropPrev, Discard, TypeInv, TypeOK, appVars, statics, locals, LatestOnly, Watched
    <2> QED
      BY <1>3, <2>2, <2>3
      DEF DropPrev, Discard, TypeInv, TypeOK, appVars, statics, locals, Registered,
          AtWork, Missing, Apart, Allocated, PrevOwn, Busy
  <1> QED BY <1>1, <1>2, <1>3

(***************************************************************************)
(* Fetching, UFFDIO_COPY and the update of the maps.  UFFDIO_COPY always   *)
(* wakes T, and never finds the page already mapped.                       *)
(***************************************************************************)
LEMMA OneThreadResolve ==
  ASSUME NEW T, NEW G, Threads = {T}, TypeInv, OneThreadInv(T, G), NEW r \in Regions,
         \/ ResolveLoad(r) \/ SkipStore(r)
         \/ UffdioCopy(r) \/ UffdioCopyFails(r) \/ Record(r)
  PROVE  OneThreadInv(T, G)'
  <1> USE DEF OneThreadInv
  <1>1. CASE ResolveLoad(r) \/ SkipStore(r)
    <2>1. pc[r] = "fetch" /\ pc' = [pc EXCEPT ![r] = "copy"]
      BY <1>1 DEF ResolveLoad, SkipStore, Goto
    <2>2. UNCHANGED <<appVars, pageVars, msg, prev, locals, remote>>
      BY <1>1 DEF ResolveLoad, SkipStore, Goto, statics
    <2>3. Registered' /\ AtWork(T)' /\ Missing(T)' /\ Apart(T, G)'
      BY <2>1, <2>2
      DEF TypeInv, TypeOK, appVars, pageVars, locals, Registered, AtWork, Missing, Apart, Busy
    <2>4. Allocated' /\ PrevOwn' /\ SavedFirst'
      BY <2>1, <2>2
      DEF TypeInv, TypeOK, appVars, pageVars, locals, Allocated, PrevOwn,
          SavedFirst
    <2>5. LatestOnly(G)'
      BY <2>1, <2>2
      DEF TypeInv, TypeOK, appVars, pageVars, locals, LatestOnly, Watched
    <2> QED BY <2>3, <2>4, <2>5
  <1>2. CASE UffdioCopy(r)
    <2>1. faulting_addr[r] = acc[T].addr /\ acc[T].addr[1] = r /\ tstate[T] = "asleep"
      BY <1>2 DEF UffdioCopy, Install, AtWork, Busy
    <2>2. \A s \in Regions : pc[s] \in Busy => s = r
      BY <1>2, OnlyBusy DEF UffdioCopy, Install, Busy
    <2>3. tstate'[T] = "run"
      BY <1>2, <2>1 DEF UffdioCopy, Install, Sleepers
    <2>4. pc' = [pc EXCEPT ![r] = "record"] /\ resident' = resident \cup {faulting_addr[r]}
          /\ reg' = reg /\ acc' = acc /\ prev' = prev /\ faulting_addr' = faulting_addr
      BY <1>2 DEF UffdioCopy, Install, statics, locals
    <2>5. reg[r] = "watched"
      BY <1>2 DEF UffdioCopy, Install, Registered
    <2>6. AtWork(T)' /\ Missing(T)' /\ Apart(T, G)' /\ SavedFirst'
      BY <2>1, <2>2, <2>3, <2>4
      DEF TypeInv, TypeOK, AtWork, Missing, Apart, SavedFirst, Busy
    <2>7. Registered' /\ Allocated' /\ PrevOwn'
      BY <2>1, <2>4, <2>5 DEF TypeInv, TypeOK, Registered, Allocated, PrevOwn
    <2>8. LatestOnly(G)'
      <3>1. \A a \in resident : Watched(a) => a[1] # r
        BY <1>2, <2>1 DEF UffdioCopy, Install, Apart, LatestOnly
      <3> QED
        BY <2>1, <2>4, <3>1 DEF TypeInv, TypeOK, LatestOnly, Watched
    <2> QED BY <2>6, <2>7, <2>8
  <1>3. CASE UffdioCopyFails(r)
    BY <1>3 DEF UffdioCopyFails, AtWork, Missing, Apart, Busy
  <1>4. CASE Record(r)
    <2>1. faulting_addr[r] \in Addr /\ faulting_addr[r][1] = r
      BY <1>4 DEF Record, Remember, PrevOwn, TypeInv, FaultKnown, Locked
    <2>2. prev' = [prev EXCEPT ![r] = [addr |-> faulting_addr[r], op |-> faulting_op[r]]]
          /\ prev'[r] # None
      BY <1>4, <2>1, UffdManAssumption
      DEF Record, Remember, TypeInv, TypeOK, FaultKnown, Locked, Fault
    <2>3. PrevOwn' /\ LatestOnly(G)'
      BY <1>4, <2>1, <2>2
      DEF Record, Remember, TypeInv, TypeOK, appVars, pageVars, PrevOwn, LatestOnly, Watched
    <2>4. SavedFirst'
      BY <1>4, <2>2
      DEF Record, Remember, TypeInv, TypeOK, pageVars, SavedFirst
    <2> QED
      BY <1>4, <2>3, <2>4
      DEF Record, Remember, TypeInv, TypeOK, appVars, pageVars, Registered,
          AtWork, Missing, Apart, Allocated, Busy
  <1> QED BY <1>1, <1>2, <1>3, <1>4

LEMMA OneThreadInit ==
  ASSUME NEW T, NEW G, Threads = {T}, Init
  PROVE  OneThreadInv(T, G)
  BY UffdManAssumption
  DEF Init, OneThreadInv, Registered, AtWork, Missing, Apart, Allocated, PrevOwn, LatestOnly,
      SavedFirst, Busy

LEMMA OneThreadHandler ==
  ASSUME NEW T, NEW G, Threads = {T}, TypeInv, OneThreadInv(T, G), NEW r \in Regions, Handler(r)
  PROVE  OneThreadInv(T, G)'
  BY OneThreadRead, OneThreadInvalidate, OneThreadResolve DEF Handler

LEMMA OneThreadNext ==
  ASSUME NEW T, Threads = {T}, TypeInv, OneThreadInv(T, {}), [Next]_vars
  PROVE  OneThreadInv(T, {})'
  <1>1. CASE Next
    BY <1>1, OneThreadApp, OneThreadHandler, UffdManAssumption DEF Next
  <1>2. CASE UNCHANGED vars
    BY <1>2
    DEF OneThreadInv, Registered, AtWork, Missing, Apart, Allocated, PrevOwn, LatestOnly, Watched,
        SavedFirst, vars, appVars, pageVars, statics, locals
  <1> QED BY <1>1, <1>2

(***************************************************************************)
(* The invariant of a program with one thread.                             *)
(***************************************************************************)
THEOREM OneThreadInvariant ==
  ASSUME NEW T, Threads = {T}
  PROVE  Spec => []OneThreadInv(T, {})
  <1>1. Init => OneThreadInv(T, {})
    BY OneThreadInit
  <1>2. TypeInv /\ OneThreadInv(T, {}) /\ [Next]_vars => OneThreadInv(T, {})'
    BY OneThreadNext
  <1> QED BY <1>1, <1>2, TypeInvariant, PTL DEF Spec

(***************************************************************************)
(* A single-threaded program never has more than one page of a watched     *)
(* region mapped: beside the buffer, "Atmost two pages of memory is        *)
(* required".                                                              *)
(***************************************************************************)
THEOREM AtMostOneResident ==
  ASSUME NEW T, Threads = {T}
  PROVE  Spec => []OneResident
  <1>1. TypeInv /\ OneThreadInv(T, {}) => OneResident
    BY DEF OneThreadInv, LatestOnly, OneResident, Watched
  <1> QED BY <1>1, OneThreadInvariant, TypeInvariant, PTL

(***************************************************************************)
(* In a single-threaded program every fault is resolved by the handler of  *)
(* its own region, with its own address and operation, although the        *)
(* message is shared.                                                      *)
(***************************************************************************)
THEOREM FaultsStayOwn ==
  ASSUME NEW T, Threads = {T}
  PROVE  Spec => []OwnFaults
  <1>1. OneThreadInv(T, {}) => OwnFaults
    BY DEF OneThreadInv, AtWork, OwnFaults, Busy
  <1> QED BY <1>1, OneThreadInvariant, PTL

=============================================================================
