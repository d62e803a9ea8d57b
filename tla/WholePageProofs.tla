--------------------------- MODULE WholePageProofs ---------------------------
(***************************************************************************)
(* Theorems about WholePage: a program with one thread T that writes whole *)
(* pages, with prompt start, for any number of regions, pages and words.   *)
(***************************************************************************)
EXTENDS WholePage, OneThreadProofs

ProgType ==
    /\ cur \in [Regions -> Fault \cup {None}]
    /\ stale \in [Regions -> SUBSET Words]
    /\ \A r \in Regions : cur[r] # None => cur[r].addr[1] = r

\* What T executes is on the page the program is on, and disciplined.
Follows(T) ==
    /\ tstate[T] = "idle" => acc[T] = None
    /\ tstate[T] # "idle" =>
          /\ OnPage(acc[T])
          /\ acc[T].op = "load" => acc[T].word \notin stale[acc[T].addr[1]]
          /\ acc[T].op = "store" => cur[acc[T].addr[1]].op = "store"

\* The page the program is on is missing only while T enters it.
Entering(T) ==
    \A r \in Regions : cur[r] # None /\ cur[r].addr \notin resident =>
        /\ tstate[T] # "idle"
        /\ acc[T].addr = cur[r].addr
        /\ acc[T].op = cur[r].op
        /\ cur[r].op = "store" => stale[r] = Words

\* A mapped page of a watched region was visited.
Visited == \A a \in resident : Watched(a) => cur[a[1]] # None

\* Once its page is mapped, the handler remembers how the program came to it.
LatestIsCur ==
    \A r \in Regions :
        cur[r] # None /\ cur[r].addr \in resident /\ reg[r] = "watched" =>
            /\ pc[r] = "record" => faulting_op[r] = cur[r].op
            /\ pc[r] # "record" => prev[r].op = cur[r].op

\* What a load brought in is clean, so it may be dropped without a save.
Clean ==
    \A r \in Regions :
        /\ prev[r] # None /\ prev[r].op = "load" /\ pc[r] \notin {"fetch", "copy", "record"}
              => remote[prev[r].addr] = mem[prev[r].addr]
        /\ pc[r] = "record" /\ faulting_op[r] = "load"
              => remote[faulting_addr[r]] = mem[faulting_addr[r]]

\* A region that is not watched, or not allocated yet, is ordinary memory.
Fresh == \A a \in Addr : ~Watched(a) => local[a] = mem[a]

\* The server holds every page that is not mapped.
ServerHolds == \A a \in Addr \ resident : remote[a] = mem[a]

\* A mapped page differs from memory only in words the program will overwrite.
Agrees ==
    \A a \in resident, w \in Words :
        \/ local[a][w] = mem[a][w]
        \/ cur[a[1]] # None /\ cur[a[1]].addr = a /\ w \in stale[a[1]]

\* Of a page that was mapped for a store the server still has the words to be overwritten.
Behind == \A a \in resident : Watched(a) => \A w \in Unwritten(a) : remote[a][w] = mem[a][w]

WholeInv(T) ==
    /\ ProgType
    /\ Follows(T)
    /\ Entering(T)
    /\ Visited
    /\ LatestIsCur
    /\ Clean
    /\ Fresh
    /\ ServerHolds
    /\ Agrees
    /\ Behind

\* The invariants of UffdMan that the argument builds on.
Base(T) == TypeInv /\ BufferInv /\ OneThreadInv(T, {})

-----------------------------------------------------------------------------
(***************************************************************************)
(* A disciplined program is a program: every behaviour of WPSpec is one of *)
(* Spec.                                                                   *)
(***************************************************************************)
LEMMA WholeIsUffd == WPSpec => Spec
  <1>1. WPInit => Init
    BY DEF WPInit
  <1>2. [WPNext]_wpVars => [Next]_vars
    BY DEF WPNext, WPIssue, WPExecute, WPStore, Next, Execute, wpVars
  <1> QED BY <1>1, <1>2, PTL DEF WPSpec, Spec

(***************************************************************************)
(* The initial states satisfy the invariant.                               *)
(***************************************************************************)
LEMMA WholeInit ==
  ASSUME NEW T, Threads = {T}, WPInit
  PROVE  WholeInv(T)
  BY UffdManAssumption
  DEF WPInit, Init, WholeInv, ProgType, Follows, Entering, Visited, LatestIsCur, Clean, Fresh,
      ServerHolds, Agrees, Behind, Addr

(***************************************************************************)
(* rmp_alloc maps, if anything, untouched pages of an untouched region.    *)
(***************************************************************************)
LEMMA WholeAlloc ==
  ASSUME NEW T, Threads = {T}, Base(T), WholeInv(T),
         NEW r \in Regions, NEW outcome \in RegisterOutcomes,
         rmp_alloc(T, r, outcome), UNCHANGED progVars
  PROVE  WholeInv(T)'
  <1> USE DEF WholeInv, Base, TypeInv, TypeOK, progVars
  <1>1. pc[r] = "off" /\ \A a \in resident : a[1] # r
    BY DEF rmp_alloc, OneThreadInv, Registered, Allocated
  <1>2. /\ UNCHANGED <<local, acc, tstate, prev, faulting_addr, faulting_op, remote, mem, cur, stale>>
        /\ pc' \in [Regions -> PC]
        /\ \A s \in Regions : s # r => pc'[s] = pc[s] /\ reg'[s] = reg[s]
        /\ pc'[r] \in {"off", "start"} /\ reg'[r] \in Outcomes
        /\ \A a \in resident : a \in resident'
        /\ \A a \in resident' : a \in resident \/ (a \in Addr /\ a[1] = r /\ reg'[r] = "plain")
    BY UffdManAssumption DEF rmp_alloc, statics, locals, Addr, Outcomes, PC, Prologue
  <1>3. cur[r] = None
    BY <1>1 DEF rmp_alloc, Entering, ProgType, Fault
  <1>4. ProgType' /\ Follows(T)' /\ Entering(T)'
    BY <1>2 DEF ProgType, Follows, Entering, OnPage
  <1>5. Visited' /\ LatestIsCur' /\ Clean'
    <2>1. Visited'
      BY <1>1, <1>2 DEF Visited, Watched, Addr
    <2>2. LatestIsCur'
      BY <1>2, <1>3 DEF LatestIsCur, ProgType
    <2>3. Clean'
      BY <1>1, <1>2 DEF Clean
    <2> QED BY <2>1, <2>2, <2>3
  <1>6. Fresh' /\ ServerHolds'
    BY <1>2 DEF rmp_alloc, Fresh, Watched, ServerHolds, Addr
  <1>7. Agrees'
    BY <1>2 DEF rmp_alloc, Agrees, Fresh, Watched
  <1>8. Behind'
    BY <1>1, <1>2 DEF Behind, Unwritten, Watched, Addr
  <1> QED BY <1>4, <1>5, <1>6, <1>7, <1>8

(***************************************************************************)
(* The program goes on.  When it leaves a page it has nothing stale, and   *)
(* the page it goes to is not mapped, unless the region is plain memory.   *)
(***************************************************************************)
LEMMA WholeIssue ==
  ASSUME NEW T, Threads = {T}, Base(T), WholeInv(T), NEW x \in Accesses, WPIssue(T, x)
  PROVE  WholeInv(T)'
  <1> USE DEF WholeInv, Base, TypeInv, TypeOK
  <1> DEFINE r == x.addr[1]
  <1>1. r \in Regions /\ x.addr \in Addr /\ x.op \in Ops /\ [addr |-> x.addr, op |-> x.op] \in Fault
    BY AccessFields, UffdManAssumption
  <1>2. /\ UNCHANGED <<reg, resident, local, prev, pc, faulting_addr, faulting_op, remote, mem>>
        /\ tstate[T] = "idle" /\ tstate'[T] = "run" /\ acc'[T] = x /\ Disciplined(x)
    BY DEF WPIssue, Issue, pageVars, statics, locals
  <1>3. \A s \in Regions : cur[s] # None => cur[s].addr \in resident
    BY <1>2 DEF Entering
  <1>4. Clean' /\ Fresh' /\ ServerHolds'
    BY <1>2 DEF Clean, Fresh, Watched, ServerHolds
  <1>5. CASE OnPage(x)
    <2>1. UNCHANGED <<cur, stale>>
      BY <1>5 DEF WPIssue, progVars
    <2>2. ProgType' /\ Entering(T)' /\ Visited' /\ LatestIsCur' /\ Agrees' /\ Behind'
      BY <1>2, <1>3, <2>1
      DEF ProgType, Entering, Visited, LatestIsCur, Agrees, Behind, Unwritten, Watched
    <2>3. Follows(T)'
      BY <1>1, <1>2, <1>5, <2>1 DEF Follows, OnPage, Disciplined, Ops
    <2> QED BY <1>4, <2>2, <2>3
  <1>6. CASE ~OnPage(x)
    <2>1. /\ cur' = [cur EXCEPT ![r] = [addr |-> x.addr, op |-> x.op]]
          /\ stale' = [stale EXCEPT ![r] = IF x.op = "store" THEN Words ELSE {}]
          /\ stale[r] = {}
      BY <1>2, <1>6 DEF WPIssue, Disciplined
    <2>2. /\ cur'[r].addr = x.addr /\ cur'[r].op = x.op /\ cur'[r] # None
          /\ x.op = "store" => stale'[r] = Words
          /\ x.op = "load" => stale'[r] = {}
          /\ \A s \in Regions : s # r => cur'[s] = cur[s] /\ stale'[s] = stale[s]
      BY <1>1, <2>1, UffdManAssumption DEF ProgType, Ops
    <2>3. ProgType'
      BY <1>1, <2>1 DEF ProgType
    <2>4. Follows(T)' /\ Entering(T)'
      BY <1>1, <1>2, <1>3, <2>2 DEF Follows, OnPage, Entering, Ops
    <2>5. Visited'
      BY <1>2, <2>2 DEF Visited, Watched, Addr
    <2>6. reg[r] = "watched" => x.addr \notin resident
      BY <1>1, <1>3, <1>6
      DEF OnPage, Visited, OneThreadInv, LatestOnly, Watched, ProgType
    <2>7. LatestIsCur'
      BY <1>2, <2>2, <2>6 DEF LatestIsCur
    <2>8. Agrees'
      BY <1>2, <2>1, <2>2 DEF Agrees, Addr
    <2>9. Behind'
      BY <1>2, <2>2, <2>6 DEF Behind, Unwritten, Watched, Addr
    <2> QED BY <1>4, <2>3, <2>4, <2>5, <2>7, <2>8, <2>9
  <1> QED BY <1>5, <1>6

(***************************************************************************)
(* Accesses retire or fault.  A store goes to a page its handler remembers *)
(* as stored to.                                                           *)
(***************************************************************************)
LEMMA WholeExecute ==
  ASSUME NEW T, Threads = {T}, Base(T), WholeInv(T), WPExecute(T)
  PROVE  WholeInv(T)'
  <1> USE DEF WholeInv, Base, TypeInv, TypeOK
  <1>1. CASE Load(T) /\ UNCHANGED progVars
    BY <1>1
    DEF Load, progVars, pageVars, statics, locals, ProgType, Follows, OnPage, Entering, Visited,
        LatestIsCur, Clean, Fresh, ServerHolds, Agrees, Behind, Unwritten, Watched
  <1>2. CASE PageFault(T) /\ UNCHANGED progVars
    BY <1>2
    DEF PageFault, progVars, pageVars, statics, locals, ProgType, Follows, OnPage, Entering,
        Visited, LatestIsCur, Clean, Fresh, ServerHolds, Agrees, Behind, Unwritten, Watched
  <1>3. CASE WPStore(T)
    <2> DEFINE a == acc[T].addr  w == acc[T].word  r == acc[T].addr[1]
    <2>1. a \in Addr /\ r \in Regions /\ w \in Words /\ acc[T].val \in Values /\ a \in resident
      BY <1>3, AccessFields DEF WPStore, Store, Executing
    <2>2. /\ UNCHANGED <<reg, resident, prev, pc, faulting_addr, faulting_op, remote, cur>>
          /\ tstate'[T] = "idle" /\ acc'[T] = None
          /\ local' = [local EXCEPT ![a][w] = acc[T].val]
          /\ mem' = [mem EXCEPT ![a][w] = acc[T].val]
          /\ stale' = [stale EXCEPT ![r] = @ \ {w}]
      BY <1>3 DEF WPStore, Store, statics, locals
    <2>3. cur[r] # None /\ cur[r].addr = a /\ cur[r].op = "store" /\ tstate[T] = "run"
      BY <1>3 DEF WPStore, Store, Follows, OnPage
    <2>4. \A b \in Addr : b # a => local'[b] = local[b] /\ mem'[b] = mem[b]
      BY <2>1, <2>2
    <2>5. \A v \in Words : /\ v # w => local'[a][v] = local[a][v] /\ mem'[a][v] = mem[a][v]
                           /\ v = w => local'[a][v] = mem'[a][v]
      BY <2>1, <2>2 DEF Content
    <2>6. ProgType' /\ Follows(T)' /\ Visited' /\ LatestIsCur'
      BY <2>1, <2>2 DEF ProgType, Follows, Visited, LatestIsCur, Watched
    <2>7. Entering(T)'
      BY <2>1, <2>2, <2>3 DEF Entering
    <2>8. Fresh' /\ ServerHolds'
      <3>1. \A b \in Addr : local[b] = mem[b] => local'[b] = mem'[b]
        BY <2>1, <2>2
      <3> QED BY <2>1, <2>2, <2>4, <3>1 DEF Fresh, Watched, ServerHolds
    <2>9. Agrees'
      <3> SUFFICES ASSUME NEW b \in resident, NEW v \in Words
                   PROVE  \/ local'[b][v] = mem'[b][v]
                          \/ cur[b[1]] # None /\ cur[b[1]].addr = b /\ v \in stale'[b[1]]
        BY <2>2 DEF Agrees
      <3>1. CASE b = a
        BY <2>1, <2>2, <2>5, <3>1 DEF Agrees, ProgType
      <3>2. CASE b # a
        <4>1. local'[b] = local[b] /\ mem'[b] = mem[b]
          BY <2>4, <3>2
        <4>2. b[1] = r => cur[b[1]].addr # b
          BY <2>3, <3>2
        <4>3. b[1] # r => stale'[b[1]] = stale[b[1]]
          BY <2>1, <2>2 DEF ProgType, Addr
        <4> QED BY <4>1, <4>2, <4>3 DEF Agrees
      <3> QED BY <3>1, <3>2
    <2>10. Clean'
      <3> SUFFICES ASSUME NEW s \in Regions,
                          \/ /\ prev[s] # None /\ prev[s].op = "load"
                             /\ pc[s] \notin {"fetch", "copy", "record"} /\ prev[s].addr = a
                          \/ pc[s] = "record" /\ faulting_op[s] = "load" /\ faulting_addr[s] = a
                   PROVE  FALSE
        BY <2>2, <2>4 DEF Clean, Fault, FaultKnown, Locked
      <3>1. s = r
        BY DEF OneThreadInv, PrevOwn
      <3>2. reg[r] = "watched"
        <4>1. pc[r] # "off"
          BY <3>1 DEF OneThreadInv, PrevOwn
        <4> QED BY <4>1, <2>1 DEF OneThreadInv, Registered
      <3> QED BY <2>1, <2>3, <3>1, <3>2 DEF LatestIsCur
    <2>11. Behind'
      <3> SUFFICES ASSUME NEW b \in resident, Watched(b), NEW v \in Unwritten(b)'
                   PROVE  remote[b][v] = mem'[b][v]
        BY <2>2 DEF Behind, Watched
      <3>1. b \in Addr /\ b[1] \in Regions
        BY DEF Addr
      <3>2. v \in Unwritten(b) /\ (b = a => v # w)
        BY <2>1, <2>2, <2>3, <3>1 DEF Unwritten, ProgType
      <3>3. v \in Words
        BY <3>1, <3>2 DEF Unwritten, ProgType
      <3> QED BY <2>4, <2>5, <3>1, <3>2, <3>3 DEF Behind
    <2> QED BY <2>6, <2>7, <2>8, <2>9, <2>10, <2>11
  <1> QED BY <1>1, <1>2, <1>3 DEF WPExecute

(***************************************************************************)
(* Handler steps that map, drop, save and record nothing.                  *)
(***************************************************************************)
LEMMA WholeQuiet ==
  ASSUME NEW T, Threads = {T}, Base(T), WholeInv(T), NEW r \in Regions, UNCHANGED progVars,
         \/ CheckPage(r) \/ MapPage(r) \/ ReadMsg(r) \/ ReadAddr(r) \/ ReadOp(r) \/ Lock(r)
         \/ PrevIsClean(r) \/ NoPrev(r) \/ ResolveLoad(r) \/ SkipStore(r)
  PROVE  WholeInv(T)'
  <1> USE DEF WholeInv, Base, TypeInv, TypeOK
  <1> DEFINE Resolving == {"fetch", "copy", "record"}
  <1>1. UNCHANGED <<reg, resident, local, acc, prev, remote, mem, cur, stale>>
    BY DEF CheckPage, MapPage, ReadMsg, Deliver, ReadAddr, ReadOp, Lock, Enter, PrevIsClean,
           NoPrev, ResolveLoad, SkipStore, Goto, appVars, pageVars, statics, progVars
  <1>2. tstate'[T] = "idle" <=> tstate[T] = "idle"
    BY DEF CheckPage, MapPage, ReadMsg, Deliver, ReadAddr, ReadOp, Lock, Enter, PrevIsClean,
           NoPrev, ResolveLoad, SkipStore, Goto, appVars
  <1>3. \A s \in Regions :
           /\ pc'[s] = "record" <=> pc[s] = "record"
           /\ pc'[s] \notin Resolving => pc[s] \notin Resolving
    <2>1. PICK to : /\ pc' = [pc EXCEPT ![r] = to] /\ pc[r] # "record" /\ to # "record"
                    /\ pc[r] \in Resolving => to = "copy"
      BY DEF CheckPage, MapPage, ReadMsg, Deliver, ReadAddr, ReadOp, Lock, Enter, PrevIsClean,
             NoPrev, ResolveLoad, SkipStore, Goto
    <2> QED BY <2>1
  <1>4. \A s \in Regions : pc[s] = "record" =>
           faulting_addr'[s] = faulting_addr[s] /\ faulting_op'[s] = faulting_op[s]
    BY DEF CheckPage, MapPage, ReadMsg, Deliver, ReadAddr, ReadOp, Lock, Enter, PrevIsClean,
           NoPrev, ResolveLoad, SkipStore, Goto, locals
  <1>5. ProgType' /\ Follows(T)' /\ Entering(T)' /\ Visited'
    BY <1>1, <1>2 DEF ProgType, Follows, OnPage, Entering, Visited, Watched
  <1>6. LatestIsCur' /\ Clean'
    BY <1>1, <1>3, <1>4 DEF LatestIsCur, Clean
  <1>7. Fresh' /\ ServerHolds' /\ Agrees' /\ Behind'
    BY <1>1 DEF Fresh, ServerHolds, Agrees, Behind, Unwritten, Watched
  <1> QED BY <1>5, <1>6, <1>7

(***************************************************************************)
(* A page is saved while it is mapped, and never over a clean one.         *)
(***************************************************************************)
LEMMA WholeSave ==
  ASSUME NEW T, Threads = {T}, Base(T), WholeInv(T), NEW r \in Regions, UNCHANGED progVars,
         SavePrev(r)
  PROVE  WholeInv(T)'
  <1> USE DEF WholeInv, Base, TypeInv, TypeOK
  <1> DEFINE a == prev[r].addr
  <1>1. /\ pc[r] = "inval" /\ prev[r] # None /\ prev[r].op = "store" /\ a \in resident
        /\ pc' = [pc EXCEPT ![r] = "drop"]
        /\ UNCHANGED <<reg, resident, local, acc, tstate, prev, faulting_addr, faulting_op, mem,
                       cur, stale>>
    BY DEF SavePrev, SaveTo, appVars, pageVars, statics, locals, progVars
  <1>2. a[1] = r /\ \A b \in Addr : b # a => remote'[b] = remote[b]
    BY <1>1 DEF SavePrev, SaveTo, OneThreadInv, PrevOwn
  <1>3. ProgType' /\ Follows(T)' /\ Entering(T)' /\ Visited' /\ LatestIsCur'
    BY <1>1 DEF ProgType, Follows, OnPage, Entering, Visited, LatestIsCur, Watched
  <1>4. Fresh' /\ ServerHolds' /\ Agrees'
    BY <1>1, <1>2 DEF Fresh, Watched, ServerHolds, Agrees
  <1>5. Clean'
    BY <1>1, <1>2 DEF Clean, Fault, FaultKnown, Locked, OneThreadInv, PrevOwn
  <1>6. Behind'
    <2>1. tstate[T] = "asleep" /\ acc[T].addr[1] = r /\ acc[T].addr \notin resident
      BY <1>1 DEF OneThreadInv, AtWork, Missing, Busy
    <2>2. cur[r].addr # a
      BY <1>1, <2>1 DEF Follows, OnPage
    <2>3. Unwritten(a) = {}
      BY <1>2, <2>2 DEF Unwritten
    <2> QED BY <1>1, <1>2, <2>3 DEF Behind, Unwritten, Watched
  <1> QED BY <1>3, <1>4, <1>5, <1>6

(***************************************************************************)
(* What is dropped is not the page T waits for, so nothing in it is stale, *)
(* and the server holds it: saved just now, or clean.                      *)
(***************************************************************************)
LEMMA WholeDrop ==
  ASSUME NEW T, Threads = {T}, Base(T), WholeInv(T), OneThreadInv(T, {})', NEW r \in Regions,
         UNCHANGED progVars, DropPrev(r)
  PROVE  WholeInv(T)'
  <1> USE DEF WholeInv, Base, TypeInv, TypeOK
  <1> DEFINE a == prev[r].addr
  <1>1. /\ pc[r] = "drop" /\ pc' = [pc EXCEPT ![r] = "fetch"]
        /\ resident' = resident \ {a}
        /\ \A b \in Addr : b # a => local'[b] = local[b]
        /\ UNCHANGED <<reg, acc, tstate, prev, faulting_addr, faulting_op, remote, mem, cur, stale>>
    BY DEF DropPrev, Discard, appVars, statics, locals, progVars
  <1>2. prev[r] # None /\ a \in Addr /\ a[1] = r /\ reg[r] = "watched"
    BY <1>1, UffdManAssumption DEF PrevKnown, Fault, OneThreadInv, PrevOwn, Registered
  <1>3. tstate[T] = "asleep" /\ acc[T].addr[1] = r /\ acc[T].addr \notin resident
    BY <1>1 DEF OneThreadInv, AtWork, Missing, Busy
  <1>4. cur[r] # None /\ cur[r].addr = acc[T].addr
    BY <1>3 DEF Follows, OnPage
  <1>5. a \in resident => remote[a] = mem[a]
    <2> SUFFICES ASSUME a \in resident PROVE remote[a] = mem[a]
      OBVIOUS
    <2>1. \A w \in Words : local[a][w] = mem[a][w]
      BY <1>2, <1>3, <1>4 DEF Agrees
    <2>2. local[a] = mem[a]
      BY <1>2, <2>1 DEF Content
    <2>3. prev[r].op = "store" => remote[a] = local[a]
      BY <1>1 DEF OneThreadInv, SavedFirst
    <2>4. prev[r].op = "load" => remote[a] = mem[a]
      BY <1>1, <1>2 DEF Clean
    <2>5. prev[r].op \in Ops
      BY <1>1 DEF PrevKnown, Fault
    <2> QED BY <2>2, <2>3, <2>4, <2>5 DEF Ops
  <1>6. ProgType' /\ Follows(T)' /\ Visited'
    BY <1>1 DEF ProgType, Follows, OnPage, Visited, Watched
  <1>7. Entering(T)'
    <2> SUFFICES ASSUME NEW s \in Regions, cur[s] # None, cur[s].addr = a, a \in resident
                 PROVE  FALSE
      BY <1>1 DEF Entering
    <2>1. s = r
      BY <1>2 DEF ProgType
    <2> QED BY <2>1, <1>3, <1>4
  <1>8. LatestIsCur'
    <2>1. \A b \in resident' : Watched(b) => b[1] # r
      BY <1>1 DEF OneThreadInv, LatestOnly, Watched
    <2> QED BY <1>1, <2>1 DEF LatestIsCur, ProgType, Watched
  <1>9. Clean' /\ Fresh'
    BY <1>1, <1>2 DEF Clean, Fresh, Watched
  <1>10. ServerHolds' /\ Agrees' /\ Behind'
    BY <1>1, <1>5 DEF ServerHolds, Agrees, Behind, Unwritten, Watched
  <1> QED BY <1>6, <1>7, <1>8, <1>9, <1>10

(***************************************************************************)
(* UFFDIO_COPY maps the server's page for a load; for a store it maps      *)
(* whatever the buffer holds, all of which the program must overwrite.     *)
(***************************************************************************)
LEMMA WholeCopy ==
  ASSUME NEW T, Threads = {T}, Base(T), WholeInv(T), NEW r \in Regions, UNCHANGED progVars,
         UffdioCopy(r)
  PROVE  WholeInv(T)'
  <1> USE DEF WholeInv, Base, TypeInv, TypeOK
  <1> DEFINE a == faulting_addr[r]
  <1>1. /\ pc[r] = "copy" /\ pc' = [pc EXCEPT ![r] = "record"]
        /\ a \notin resident /\ resident' = resident \cup {a}
        /\ local' = [local EXCEPT ![a] = page]
        /\ UNCHANGED <<reg, acc, prev, faulting_addr, faulting_op, remote, mem, cur, stale>>
    BY DEF UffdioCopy, Install, statics, locals, progVars
  <1>2. /\ tstate[T] = "asleep" /\ a = acc[T].addr /\ a[1] = r /\ a \in Addr
        /\ faulting_op[r] = acc[T].op /\ reg[r] = "watched"
    BY <1>1 DEF OneThreadInv, AtWork, Registered, Busy, FaultKnown, Locked
  <1>3. tstate'[T] = "run"
    BY <1>2 DEF UffdioCopy, Install, Sleepers
  <1>4. cur[r] # None /\ cur[r].addr = a /\ cur[r].op = faulting_op[r]
        /\ (faulting_op[r] = "store" => stale[r] = Words)
    BY <1>1, <1>2 DEF Follows, OnPage, Entering
  <1>5. faulting_op[r] \in Ops /\ (faulting_op[r] = "load" => page = mem[a])
    BY <1>1, <1>2
    DEF BufferInv, FetchedPageIsCurrent, ServerHolds, FaultKnown, Locked, Ops
  <1>6. ProgType' /\ Follows(T)' /\ Entering(T)'
    BY <1>1, <1>2, <1>3, <1>4 DEF ProgType, Follows, OnPage, Entering
  <1>7. Visited' /\ LatestIsCur'
    <2>1. \A s \in Regions : s # r /\ cur[s] # None => cur[s].addr # a
      BY <1>2 DEF ProgType
    <2>2. LatestIsCur'
      BY <1>1, <1>4, <2>1 DEF LatestIsCur
    <2>3. Visited'
      BY <1>1, <1>2, <1>4 DEF Visited, Watched
    <2> QED BY <2>2, <2>3
  <1>8. Clean'
    BY <1>1, <1>2 DEF Clean, ServerHolds
  <1>9. Fresh' /\ ServerHolds'
    BY <1>1, <1>2 DEF Fresh, Watched, ServerHolds
  <1>10. Agrees'
    <2> SUFFICES ASSUME NEW b \in resident', NEW w \in Words
                 PROVE  \/ local'[b][w] = mem[b][w]
                        \/ cur[b[1]] # None /\ cur[b[1]].addr = b /\ w \in stale[b[1]]
      BY <1>1 DEF Agrees
    <2>1. CASE b = a
      BY <1>1, <1>2, <1>4, <1>5, <2>1 DEF Ops
    <2>2. CASE b # a
      BY <1>1, <1>2, <2>2 DEF Agrees
    <2> QED BY <2>1, <2>2
  <1>11. Behind'
    BY <1>1, <1>2 DEF Behind, Unwritten, Watched, ServerHolds
  <1> QED BY <1>6, <1>7, <1>8, <1>9, <1>10, <1>11

(***************************************************************************)
(* The handler remembers the page as the program entered it.               *)
(***************************************************************************)
LEMMA WholeRecord ==
  ASSUME NEW T, Threads = {T}, Base(T), WholeInv(T), NEW r \in Regions, UNCHANGED progVars,
         Record(r)
  PROVE  WholeInv(T)'
  <1> USE DEF WholeInv, Base, TypeInv, TypeOK
  <1>1. /\ pc[r] = "record" /\ pc' = [pc EXCEPT ![r] = "poll"]
        /\ prev' = [prev EXCEPT ![r] = [addr |-> faulting_addr[r], op |-> faulting_op[r]]]
        /\ \A s \in Regions : s # r =>
              faulting_addr'[s] = faulting_addr[s] /\ faulting_op'[s] = faulting_op[s]
        /\ UNCHANGED <<reg, resident, local, acc, tstate, remote, mem, cur, stale>>
    BY DEF Record, Remember, appVars, pageVars, progVars
  <1>2. ProgType' /\ Follows(T)' /\ Entering(T)' /\ Visited'
    BY <1>1 DEF ProgType, Follows, OnPage, Entering, Visited, Watched
  <1>3. LatestIsCur' /\ Clean'
    BY <1>1 DEF LatestIsCur, Clean
  <1>4. Fresh' /\ ServerHolds' /\ Agrees' /\ Behind'
    BY <1>1 DEF Fresh, ServerHolds, Agrees, Behind, Unwritten, Watched
  <1> QED BY <1>2, <1>3, <1>4

(***************************************************************************)
(* With one thread UFFDIO_COPY never finds its page mapped.                *)
(***************************************************************************)
LEMMA CopySucceeds ==
  ASSUME NEW T, OneThreadInv(T, {}), NEW r \in Regions
  PROVE  ~UffdioCopyFails(r)
  BY DEF OneThreadInv, UffdioCopyFails, AtWork, Missing, Busy

-----------------------------------------------------------------------------
(***************************************************************************)
(* The invariants below hold of a disciplined program with one thread.     *)
(***************************************************************************)
LEMMA BaseInvariant ==
  ASSUME NEW T, Threads = {T}, PromptStart
  PROVE  WPSpec => []Base(T)
  <1>1. TypeInv /\ BufferInv /\ OneThreadInv(T, {}) => Base(T)
    BY DEF Base
  <1> QED BY <1>1, WholeIsUffd, TypeInvariant, BufferInvariant, OneThreadInvariant, PTL

(***************************************************************************)
(* The invariant of disciplined programs.                                  *)
(***************************************************************************)
THEOREM WholeInvariant ==
  ASSUME NEW T, Threads = {T}, PromptStart
  PROVE  WPSpec => []WholeInv(T)
  <1>1. WPInit => WholeInv(T)
    BY WholeInit
  <1>2. Base(T) /\ Base(T)' /\ WholeInv(T) /\ [WPNext]_wpVars => WholeInv(T)'
    <2> SUFFICES ASSUME Base(T), Base(T)', WholeInv(T), [WPNext]_wpVars PROVE WholeInv(T)'
      OBVIOUS
    <2>1. ASSUME NEW r \in Regions, Handler(r), UNCHANGED progVars PROVE WholeInv(T)'
      BY <2>1, WholeQuiet, WholeSave, WholeDrop, WholeCopy, WholeRecord, CopySucceeds
      DEF Handler, Base
    <2>2. CASE UNCHANGED wpVars
      BY <2>2
      DEF WholeInv, ProgType, Follows, OnPage, Entering, Visited, LatestIsCur, Clean, Fresh,
          ServerHolds, Agrees, Behind, Unwritten, Watched, wpVars, vars, appVars, pageVars, statics,
          locals, progVars
    <2> QED BY <2>1, <2>2, WholeAlloc, WholeIssue, WholeExecute DEF WPNext
  <1> QED BY <1>1, <1>2, BaseInvariant, PTL DEF WPSpec

(***************************************************************************)
(* A load of a disciplined program returns what was stored last.           *)
(***************************************************************************)
THEOREM LoadsReturnStores ==
  ASSUME NEW T, Threads = {T}, PromptStart
  PROVE  WPSpec => []LoadsSeeStores
  <1>1. Base(T) /\ WholeInv(T) => LoadsSeeStores
    BY AccessFields
    DEF Base, TypeInv, TypeOK, Executing, WholeInv, Follows, Agrees, LoadsSeeStores
  <1> QED BY <1>1, BaseInvariant, WholeInvariant, PTL

(***************************************************************************)
(* For a disciplined program, the server lacks at most what is in the page *)
(* each region still has mapped: it is "behind by one memory address".     *)
(***************************************************************************)
THEOREM BehindByOne ==
  ASSUME NEW T, Threads = {T}, PromptStart
  PROVE  WPSpec => []ServerBehindByOne
  <1>1. WholeInv(T) => ServerBehindByOne
    BY DEF WholeInv, ServerHolds, ServerBehindByOne
  <1> QED BY <1>1, WholeInvariant, PTL

(***************************************************************************)
(* The memory put together from the mapped pages and the server's is what  *)
(* the program stored last.                                                *)
(***************************************************************************)
LEMMA PagesAreMemory ==
  ASSUME NEW T, Base(T), WholeInv(T)
  PROVE  memBar = mem
  <1> USE DEF WholeInv, Base, TypeInv, TypeOK
  <1>1. ASSUME NEW a \in Addr, NEW w \in Words
        PROVE  memBar[a][w] = mem[a][w]
    <2>1. CASE a \in resident /\ (Watched(a) => w \notin Unwritten(a))
      <3>1. memBar[a][w] = local[a][w]
        BY <2>1 DEF memBar
      <3> QED BY <2>1, <3>1 DEF Agrees, Unwritten, Fresh
    <2>2. CASE ~(a \in resident /\ (Watched(a) => w \notin Unwritten(a)))
      <3>1. memBar[a][w] = remote[a][w]
        BY <2>2 DEF memBar
      <3> QED BY <2>2, <3>1 DEF ServerHolds, Behind
    <2> QED BY <2>1, <2>2
  <1>2. memBar \in [Addr -> Content]
    <2>1. \A a \in Addr, w \in Words : local[a][w] \in Values /\ remote[a][w] \in Values
      BY DEF Content
    <2> QED BY <2>1 DEF memBar, Content
  <1>3. ASSUME NEW a \in Addr PROVE memBar[a] = mem[a]
    <2>1. memBar[a] \in [Words -> Values] /\ mem[a] \in [Words -> Values]
      BY <1>2 DEF Content
    <2> QED BY <1>1, <2>1
  <1> QED BY <1>2, <1>3

(***************************************************************************)
(* For a disciplined program the whole machinery of faults, evictions and  *)
(* fetches implements a plain memory, which is the mapped pages and the    *)
(* server's pages together.                                                *)
(***************************************************************************)
THEOREM PagingIsMemory ==
  ASSUME NEW T, Threads = {T}, PromptStart
  PROVE  WPSpec => IsMemory
  <1>1. WPInit => M!Init
    BY DEF WPInit, Init, M!Init, ZeroPage, memBar
  <1>2. /\ Base(T) /\ WholeInv(T) /\ LoadsSeeStores /\ [WPNext]_wpVars
        /\ Base(T)' /\ WholeInv(T)'
        => [M!Next]_(M!vars)
    <2> SUFFICES ASSUME Base(T), WholeInv(T), LoadsSeeStores, [WPNext]_wpVars,
                        Base(T)', WholeInv(T)'
                 PROVE  M!Next \/ UNCHANGED M!vars
      OBVIOUS
    <2>0. memBar = mem /\ memBar' = mem'
      <3>1. Base(T) /\ WholeInv(T) => memBar = mem
        BY PagesAreMemory
      <3>2. (Base(T) /\ WholeInv(T) => memBar = mem)'
        BY PagesAreMemory, PTL
      <3> QED BY <3>1, <3>2
    <2>1. tstate[T] # "idle" => acc[T] # None
      BY UffdManAssumption DEF Base, TypeInv, Executing
    <2>2. ASSUME NEW a \in Accesses, WPIssue(T, a) PROVE M!Next
      <3>1. M!Issue(T, a)
        BY <2>0, <2>2 DEF WPIssue, Issue, WholeInv, Follows, M!Issue
      <3> QED BY <3>1 DEF M!Next
    <2>3. CASE Load(T)
      <3>1. M!Load(T)
        BY <2>0, <2>1, <2>3 DEF Load, LoadsSeeStores, M!Load
      <3> QED BY <3>1 DEF M!Next
    <2>4. CASE WPStore(T)
      <3>1. M!Store(T)
        BY <2>0, <2>1, <2>4 DEF WPStore, Store, M!Store
      <3> QED BY <3>1 DEF M!Next
    <2>5. CASE PageFault(T) \/ UNCHANGED wpVars
      BY <2>0, <2>5 DEF PageFault, wpVars, vars, appVars, M!vars
    <2>6. ASSUME NEW r \in Regions, NEW outcome \in RegisterOutcomes, rmp_alloc(T, r, outcome)
          PROVE  UNCHANGED M!vars
      BY <2>0, <2>6 DEF rmp_alloc, M!vars
    <2>7. ASSUME NEW r \in Regions, Handler(r)
          PROVE  UNCHANGED M!vars
      BY <2>0, <2>7
      DEF Handler, CheckPage, MapPage, ReadMsg, Deliver, ReadAddr, ReadOp, Lock,
          Enter, SavePrev, SaveTo, PrevIsClean, NoPrev, DropPrev, Discard, ResolveLoad,
          SkipStore, UffdioCopy, Install, UffdioCopyFails, Record, Remember, Goto,
          appVars, M!vars
    <2> QED BY <2>2, <2>3, <2>4, <2>5, <2>6, <2>7 DEF WPNext, WPExecute
  <1> QED
    BY <1>1, <1>2, BaseInvariant, WholeInvariant, LoadsReturnStores, PTL
    DEF WPSpec, IsMemory, M!Spec
=============================================================================
