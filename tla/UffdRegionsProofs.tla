-------------------------- MODULE UffdRegionsProofs --------------------------
(***************************************************************************)
(* Theorems about programs that also give regions back, at any time, for   *)
(* any number of regions, pages and words.  The steps of UffdMan keep the  *)
(* invariants of UffdManProofs and, with one application thread T, of      *)
(* OneThreadProofs; what is new is what uffdman_unregister_region may meet *)
(* half way through, since it takes no lock.                               *)
(***************************************************************************)
EXTENDS UffdRegions, OneThreadProofs

-----------------------------------------------------------------------------
(***************************************************************************)
(* Any number of threads.                                                  *)
(***************************************************************************)

CallType ==
    /\ gone \subseteq Regions
    /\ unreg \in Call \cup {None}
    /\ unreg # None /\ unreg.step # "erase" => unreg.entry \in Fault

\* A busy handler has somebody asleep in its region.
BusyHasSleeper ==
    \A r \in Regions : pc[r] \in Busy =>
        \E t \in Threads : tstate[t] = "asleep" /\ acc[t].addr[1] = r

\* While a thread is in the call, the others do nothing.
OthersIdle == unreg # None => \A u \in Threads : u # unreg.by => tstate[u] = "idle"

CallInv == TypeInv /\ CallType /\ BusyHasSleeper /\ OthersIdle

\* The steps there are.
LEMMA RegionSteps ==
  ASSUME [RegionNext]_regionVars
  PROVE  \/ \E t \in Threads : Program(t) /\ UNCHANGED callVars
         \/ \E r \in Regions : (Handler(r) \/ Cancelled(r)) /\ UNCHANGED callVars
         \/ \E t \in Threads, r \in Regions : Calling(r) /\ Look(t, r)
         \/ ReadMissing \/ Save \/ Drop \/ (At("erase") /\ Forget)
         \/ UNCHANGED <<vars, gone, unreg, overtook>>
  BY DEF RegionNext, uffdman_unregister_region, Unregistering, Erase, DataRace, regionVars, callVars

\* Program(t) is a step of UffdMan's application.
LEMMA ProgramSteps ==
  ASSUME NEW t \in Threads, Program(t)
  PROVE  \/ \E r \in Regions, outcome \in RegisterOutcomes : rmp_alloc(t, r, outcome)
         \/ \E a \in Access : a.addr[1] \notin gone /\ Issue(t, a)
         \/ Execute(t)
  BY UffdManAssumption DEF Program

\* The fields of a call, and the access its ReadMissing issues.
LEMMA CallFields ==
  ASSUME TypeInv, CallType, unreg # None
  PROVE  /\ unreg \in Call /\ unreg.by \in Threads /\ unreg.region \in Regions
         /\ unreg.step \in Steps
         /\ unreg.step # "erase" => unreg.entry.addr \in Addr /\ unreg.entry.op \in Ops
         /\ unreg.step # "erase" => \A w \in Words :
               [op |-> "load", addr |-> unreg.entry.addr, word |-> w, val |-> Zero] \in Access
  BY UffdManAssumption DEF CallType, Call, Fault, Access, Ops

\* With every thread idle no handler is busy.
LEMMA NobodyBusy ==
  ASSUME CallInv, NEW step, At(step)
  PROVE  /\ \A u \in Threads : tstate[u] = "idle"
         /\ \A r \in Regions : pc[r] \notin Busy
  BY DEF CallInv, BusyHasSleeper, OthersIdle, At

\* What the first step of a call leaves alone, and what it notes.
LEMMA LookLeaves ==
  ASSUME CallInv, NEW t \in Threads, NEW r \in Regions, Calling(r), Look(t, r)
  PROVE  /\ UNCHANGED <<vars, gone>>
         /\ unreg' = [by |-> t, region |-> r, entry |-> prev[r], step |-> FirstStep(prev[r])]
         /\ unreg' \in Call /\ unreg' # None
         /\ prev[r] = None <=> unreg'.step = "erase"
         /\ unreg'.step = "save" => prev[r].op = "store"
         /\ unreg'.step = "drop" => prev[r].op = "load"
         /\ \A u \in Threads : tstate[u] = "idle"
  <1>1. /\ UNCHANGED <<vars, gone>>
        /\ unreg' = [by |-> t, region |-> r, entry |-> prev[r], step |-> FirstStep(prev[r])]
    BY DEF Look, Begin
  <1>2. prev[r] \in Fault \cup {None} /\ None \notin Fault
    BY UffdManAssumption DEF CallInv, TypeInv, TypeOK
  <1>3. CASE prev[r] = None
    <2>1. FirstStep(prev[r]) = "erase"
      BY <1>3 DEF FirstStep
    <2> QED BY <1>1, <1>2, <1>3, <2>1, UffdRegionsAssumption DEF Call, Steps, Calling
  <1>4. CASE prev[r] # None
    <2>1. prev[r] \in Fault /\ prev[r].op \in Ops
      BY <1>2, <1>4 DEF Fault
    <2>2. FirstStep(prev[r]) = IF prev[r].op = "store" THEN "save" ELSE "drop"
      BY <1>4, <2>1 DEF FirstStep, Ops
    <2> QED BY <1>1, <1>2, <1>4, <2>1, <2>2, UffdRegionsAssumption DEF Call, Steps, Calling, Ops
  <1> QED BY <1>3, <1>4

(***************************************************************************)
(* The types of UffdMan are kept by the steps of a call.                   *)
(***************************************************************************)
LEMMA CallTypes ==
  ASSUME CallInv, ReadMissing \/ Save \/ Drop \/ (At("erase") /\ Forget)
  PROVE  TypeInv'
  <1> USE DEF CallInv
  <1>1. CASE ReadMissing
    <2>1. unreg # None /\ unreg.step = "save" /\ unreg.by \in Threads
      BY <1>1, CallFields DEF ReadMissing, At
    <2>2. \E a \in Access : Issue(unreg.by, a)
      BY <1>1, <2>1, CallFields DEF ReadMissing
    <2> QED BY <2>1, <2>2, TypeApp
  <1>2. CASE Save
    <2>1. unreg # None /\ unreg.entry.addr \in Addr
      BY <1>2, CallFields DEF Save, At
    <2>2. remote' \in [Addr -> Content]
      BY <1>2, <2>1 DEF Save, TypeInv, TypeOK
    <2> QED
      BY <1>2, <2>2
      DEF Save, TypeInv, TypeOK, appVars, pageVars, statics, locals, Executing, BufferMapped,
          MsgFilled, FaultKnown, PrevKnown
  <1>3. CASE Drop
    <2>1. unreg # None /\ unreg.entry.addr \in Addr
      BY <1>3, CallFields DEF Drop, At
    <2>2. local' \in [Addr -> Content] /\ resident' \subseteq Addr
      BY <1>3, <2>1, UffdManAssumption DEF Drop, TypeInv, TypeOK, ZeroPage, Content
    <2> QED
      BY <1>3, <2>2
      DEF Drop, TypeInv, TypeOK, appVars, statics, locals, Executing, BufferMapped,
          MsgFilled, FaultKnown, PrevKnown
  <1>4. CASE At("erase") /\ Forget
    <2>1. \A r \in Regions : pc[r] # "drop"
      BY <1>4, NobodyBusy DEF Busy
    <2>2. prev' \in [Regions -> Fault \cup {None}]
      BY <1>4 DEF Forget, TypeInv, TypeOK
    <2> QED
      BY <1>4, <2>1, <2>2
      DEF Forget, TypeInv, TypeOK, appVars, pageVars, locals, Executing, BufferMapped,
          MsgFilled, FaultKnown, PrevKnown
  <1> QED BY <1>1, <1>2, <1>3, <1>4

\* pthread_cancel takes effect on a handler that waits in poll.
LEMMA CancelledLeaves ==
  ASSUME TypeInv, NEW r \in Regions, Cancelled(r)
  PROVE  /\ r \in gone /\ pc[r] = "poll" /\ pc' = [pc EXCEPT ![r] = "dead"]
         /\ \A s \in Regions : pc'[s] = pc[s] \/ (pc[s] = "poll" /\ pc'[s] = "dead" /\ s = r)
         /\ UNCHANGED <<reg, resident, local, acc, tstate, got, msg, page, fault_handler_cr, prev,
                        faulting_addr, faulting_op, remote, mem>>
  <1>1. /\ r \in gone /\ pc[r] = "poll" /\ pc' = [pc EXCEPT ![r] = "dead"]
        /\ UNCHANGED <<appVars, pageVars, statics, locals, remote, mem>>
    BY DEF Cancelled, Goto
  <1> QED BY <1>1 DEF appVars, pageVars, statics, locals, TypeInv, TypeOK

LEMMA CancelledTypes ==
  ASSUME TypeInv, NEW r \in Regions, Cancelled(r)
  PROVE  TypeInv'
  <1>1. /\ pc' = [pc EXCEPT ![r] = "dead"] /\ pc[r] = "poll"
        /\ \A s \in Regions : pc'[s] = pc[s] \/ (pc[s] = "poll" /\ pc'[s] = "dead" /\ s = r)
        /\ UNCHANGED <<reg, resident, local, acc, tstate, got, msg, page, fault_handler_cr, prev,
                       faulting_addr, faulting_op, remote, mem>>
    BY CancelledLeaves
  <1>2. TypeOK'
    BY <1>1 DEF TypeInv, TypeOK, PC
  <1>3. Executing' /\ BufferMapped' /\ MsgFilled' /\ FaultKnown' /\ PrevKnown'
    BY <1>1
    DEF TypeInv, Executing, BufferMapped, MsgFilled, FaultKnown, PrevKnown, Locked, Prologue
  <1> QED BY <1>2, <1>3 DEF TypeInv

(***************************************************************************)
(* Nobody but the caller leaves "idle" during a call, and a handler is     *)
(* busy only between a ReadMsg that puts a thread of its region to sleep   *)
(* and the UFFDIO_COPY that wakes it.                                      *)
(***************************************************************************)
LEMMA ProgramKeepsCall ==
  ASSUME CallInv, NEW t \in Threads, Program(t), UNCHANGED callVars
  PROVE  CallType' /\ BusyHasSleeper' /\ OthersIdle'
  <1> USE DEF CallInv
  <1>1. CallType'
    BY DEF CallType, callVars
  <1>2. ASSUME NEW r \in Regions, NEW outcome \in RegisterOutcomes, rmp_alloc(t, r, outcome)
        PROVE  BusyHasSleeper' /\ OthersIdle'
    <2>1. \A s \in Regions : pc'[s] \in Busy => pc[s] \in Busy
      BY <1>2 DEF rmp_alloc, TypeInv, TypeOK, Busy
    <2>2. acc' = acc /\ tstate' = tstate
      BY <1>2 DEF rmp_alloc
    <2> QED BY <2>1, <2>2 DEF BusyHasSleeper, OthersIdle, callVars
  <1>3. CASE \E a \in Access : unreg = None /\ Issue(t, a)
    <2>1. /\ pc' = pc /\ unreg' = None
          /\ \A u \in Threads : tstate[u] = "asleep" => tstate'[u] = tstate[u] /\ acc'[u] = acc[u]
      BY <1>3 DEF Issue, TypeInv, TypeOK, callVars
    <2> QED BY <1>1, <2>1 DEF BusyHasSleeper, OthersIdle
  <1>4. CASE Execute(t)
    <2>1. /\ pc' = pc /\ tstate[t] = "run"
          /\ \A u \in Threads : u # t => tstate'[u] = tstate[u] /\ acc'[u] = acc[u]
      BY <1>4 DEF Execute, Load, Store, PageFault, TypeInv, TypeOK
    <2>2. BusyHasSleeper'
      BY <2>1 DEF BusyHasSleeper
    <2>3. OthersIdle'
      BY <2>1 DEF OthersIdle, callVars
    <2> QED BY <1>1, <2>2, <2>3
  <1> QED BY <1>1, <1>2, <1>3, <1>4, UffdManAssumption DEF Program

LEMMA HandlerKeepsCall ==
  ASSUME CallInv, NEW r \in Regions, Handler(r) \/ Cancelled(r), UNCHANGED callVars
  PROVE  CallType' /\ BusyHasSleeper' /\ OthersIdle'
  <1> USE DEF CallInv
  <1>1. CallType'
    BY DEF CallType, callVars
  <1>2. CASE ReadMsg(r)
    <2>1. PICK t \in Threads : tstate[t] = "pending" /\ acc[t].addr[1] = r /\ Deliver(r, t)
      BY <1>2 DEF ReadMsg
    <2>2. /\ acc' = acc /\ tstate'[t] = "asleep"
          /\ \A u \in Threads : u # t => tstate'[u] = tstate[u]
          /\ \A s \in Regions : s # r => pc'[s] = pc[s]
      BY <2>1 DEF Deliver, TypeInv, TypeOK
    <2>3. BusyHasSleeper'
      BY <2>1, <2>2 DEF BusyHasSleeper
    <2>4. OthersIdle'
      BY <2>1, <2>2 DEF OthersIdle, callVars
    <2> QED BY <1>1, <2>3, <2>4
  <1>3. CASE UffdioCopy(r)
    <2>1. /\ acc' = acc /\ pc'[r] = "record"
          /\ \A s \in Regions : s # r => pc'[s] = pc[s]
          /\ \A u \in Threads : tstate[u] = "idle" => tstate'[u] = "idle"
          /\ \A u \in Threads : acc[u].addr[1] # r => tstate'[u] = tstate[u]
      BY <1>3 DEF UffdioCopy, Install, Sleepers, TypeInv, TypeOK
    <2>2. BusyHasSleeper'
      BY <2>1 DEF BusyHasSleeper, Busy
    <2>3. OthersIdle'
      BY <2>1 DEF OthersIdle, callVars
    <2> QED BY <1>1, <2>2, <2>3
  <1>4. CASE ~ReadMsg(r) /\ ~UffdioCopy(r)
    <2>1. acc' = acc /\ tstate' = tstate
      BY <1>4
      DEF Handler, CheckPage, MapPage, ReadAddr, ReadOp, Lock, Enter, SavePrev, SaveTo,
          PrevIsClean, NoPrev, DropPrev, Discard, ResolveLoad, SkipStore, UffdioCopyFails,
          Record, Remember, Cancelled, Goto, appVars
    <2>2. \A s \in Regions : pc'[s] \in Busy => pc[s] \in Busy
      BY <1>4
      DEF Handler, CheckPage, MapPage, ReadAddr, ReadOp, Lock, Enter, SavePrev, SaveTo,
          PrevIsClean, NoPrev, DropPrev, Discard, ResolveLoad, SkipStore, UffdioCopyFails,
          Record, Remember, Cancelled, Goto, TypeInv, TypeOK, Busy
    <2> QED BY <1>1, <2>1, <2>2 DEF BusyHasSleeper, OthersIdle, callVars
  <1> QED BY <1>2, <1>3, <1>4

LEMMA CallKeepsCall ==
  ASSUME CallInv,
         \/ \E t \in Threads, r \in Regions : Calling(r) /\ Look(t, r)
         \/ ReadMissing \/ Save \/ Drop \/ (At("erase") /\ Forget)
  PROVE  CallType' /\ BusyHasSleeper' /\ OthersIdle'
  <1> USE DEF CallInv
  <1>1. ASSUME NEW t \in Threads, NEW r \in Regions, Calling(r), Look(t, r)
        PROVE  CallType' /\ BusyHasSleeper' /\ OthersIdle'
    <2>1. /\ UNCHANGED <<pc, tstate, acc, gone, prev>> /\ unreg' \in Call
          /\ unreg'.entry = prev[r] /\ (prev[r] = None <=> unreg'.step = "erase")
          /\ \A u \in Threads : tstate[u] = "idle"
      BY <1>1, LookLeaves DEF vars, appVars, statics
    <2>2. CallType'
      BY <2>1 DEF CallType, TypeInv, TypeOK
    <2> QED BY <2>1, <2>2 DEF BusyHasSleeper, OthersIdle
  <1>2. CASE ReadMissing
    <2>1. /\ UNCHANGED <<pc, gone, unreg>>
          /\ \A u \in Threads : u # unreg.by => tstate'[u] = tstate[u] /\ acc'[u] = acc[u]
      BY <1>2 DEF ReadMissing, Issue, callVars, TypeInv, TypeOK
    <2>2. \A s \in Regions : pc[s] \notin Busy
      BY <1>2, NobodyBusy DEF ReadMissing
    <2> QED BY <2>1, <2>2 DEF CallType, BusyHasSleeper, OthersIdle
  <1>3. CASE Save \/ Drop
    <2>1. /\ UNCHANGED <<pc, tstate, acc, gone>> /\ unreg # None /\ unreg.step # "erase"
          /\ unreg' = [unreg EXCEPT !.step = "drop"] \/ unreg' = [unreg EXCEPT !.step = "erase"]
      BY <1>3 DEF Save, Drop, At, appVars
    <2>2. unreg \in Call /\ unreg.entry \in Fault
      BY <2>1 DEF CallType
    <2>3. unreg' \in Call /\ unreg'.entry = unreg.entry /\ unreg'.by = unreg.by /\ unreg' # None
      BY <2>1, <2>2, UffdRegionsAssumption DEF Call, Steps
    <2> QED BY <2>1, <2>2, <2>3 DEF CallType, BusyHasSleeper, OthersIdle
  <1>4. CASE At("erase") /\ Forget
    <2>1. UNCHANGED <<pc, tstate, acc>> /\ unreg' = None /\ gone' = gone \cup {unreg.region}
      BY <1>4 DEF Forget, appVars
    <2>2. unreg.region \in Regions
      BY <1>4, CallFields DEF At
    <2> QED BY <2>1, <2>2 DEF CallType, BusyHasSleeper, OthersIdle
  <1> QED BY <1>1, <1>2, <1>3, <1>4

LEMMA CallInit == RegionInit => CallInv
  <1> SUFFICES ASSUME RegionInit PROVE CallInv
    OBVIOUS
  <1>1. TypeInv
    BY TypeInit DEF RegionInit
  <1> QED BY <1>1 DEF RegionInit, Init, CallInv, CallType, BusyHasSleeper, OthersIdle, Busy

LEMMA CallNext ==
  ASSUME CallInv, [RegionNext]_regionVars
  PROVE  CallInv'
  <1>1. ASSUME NEW t \in Threads, Program(t), UNCHANGED callVars PROVE CallInv'
    BY <1>1, ProgramSteps, TypeApp, ProgramKeepsCall DEF CallInv
  <1>2. ASSUME NEW r \in Regions, Handler(r) \/ Cancelled(r), UNCHANGED callVars PROVE CallInv'
    BY <1>2, TypeHandler, CancelledTypes, HandlerKeepsCall DEF CallInv
  <1>3. ASSUME NEW t \in Threads, NEW r \in Regions, Calling(r), Look(t, r) PROVE CallInv'
    <2>1. UNCHANGED vars
      BY <1>3, LookLeaves
    <2> QED BY <1>3, <2>1, TypeStutter, CallKeepsCall DEF CallInv
  <1>4. CASE ReadMissing \/ Save \/ Drop \/ (At("erase") /\ Forget)
    BY <1>4, CallTypes, CallKeepsCall DEF CallInv
  <1>5. CASE UNCHANGED <<vars, gone, unreg, overtook>>
    <2>1. TypeInv'
      BY <1>5, TypeStutter DEF CallInv
    <2> QED
      BY <1>5, <2>1 DEF CallInv, CallType, BusyHasSleeper, OthersIdle, vars, appVars
  <1> QED BY <1>1, <1>2, <1>3, <1>4, <1>5, RegionSteps

(***************************************************************************)
(* The types of a program with any number of threads that gives regions    *)
(* back, and that it has the client to itself while it does.               *)
(***************************************************************************)
THEOREM CallInvariant == RegionSpec => []CallInv
  BY CallInit, CallNext, PTL DEF RegionSpec

(***************************************************************************)
(* The buffer: a call writes a page of the server only when no handler is  *)
(* busy, because all threads are then idle.                                *)
(***************************************************************************)
LEMMA CallBuffer ==
  ASSUME PromptStart, CallInv, BufferInv, [RegionNext]_regionVars
  PROVE  BufferInv'
  <1> USE DEF BufferInv
  <1>1. ASSUME NEW t \in Threads, Program(t) PROVE BufferInv'
    BY <1>1, ProgramSteps, BufferApp DEF CallInv
  <1>2. ASSUME NEW r \in Regions, Handler(r) PROVE BufferInv'
    BY <1>2, BufferQuiet, BufferWriters DEF CallInv, Handler
  <1>3. ASSUME NEW r \in Regions, Cancelled(r) PROVE BufferInv'
    <2>1. /\ \A s \in Regions : pc'[s] = pc[s] \/ (pc[s] = "poll" /\ pc'[s] = "dead" /\ s = r)
          /\ UNCHANGED <<reg, page, fault_handler_cr, faulting_addr, faulting_op, remote>>
      BY <1>3, CancelledLeaves DEF CallInv
    <2> QED
      BY <2>1 DEF Registered, Mutex, OneStarts, FetchedPageIsCurrent, Locked, Prologue
  <1>4. CASE ReadMissing
    <2>1. unreg # None /\ unreg.step = "save" /\ unreg.by \in Threads
      BY <1>4, CallFields DEF ReadMissing, At, CallInv
    <2>2. \E a \in Access : Issue(unreg.by, a)
      BY <1>4, <2>1, CallFields DEF ReadMissing, CallInv
    <2> QED BY <2>1, <2>2, BufferApp DEF CallInv
  <1>5. CASE Save \/ Drop \/ (At("erase") /\ Forget)
    <2>1. \A s \in Regions : pc[s] \notin Busy
      BY <1>5, NobodyBusy DEF Save, Drop
    <2>2. UNCHANGED <<reg, page, fault_handler_cr, faulting_addr, faulting_op, pc>>
      BY <1>5 DEF Save, Drop, Forget, appVars, pageVars, statics, locals
    <2> QED
      BY <2>1, <2>2 DEF Registered, Mutex, OneStarts, FetchedPageIsCurrent, Busy
  <1>6. CASE UNCHANGED vars
    BY <1>6, BufferNext DEF CallInv
  <1> QED BY <1>1, <1>2, <1>3, <1>4, <1>5, <1>6, RegionSteps, LookLeaves

(***************************************************************************)
(* With prompt start, what a handler maps for a load is the server's page, *)
(* for any number of threads and although uffdman_unregister_region takes  *)
(* no lock, provided the program is in no access when it makes the call.   *)
(***************************************************************************)
THEOREM RegionsFetchCurrent ==
  ASSUME PromptStart
  PROVE  RegionSpec => []FetchedPageIsCurrent
  <1>1. RegionInit => BufferInv
    BY BufferInit DEF RegionInit
  <1>2. CallInv /\ BufferInv /\ [RegionNext]_regionVars => BufferInv'
    BY CallBuffer
  <1>3. BufferInv => FetchedPageIsCurrent
    BY DEF BufferInv
  <1> QED BY <1>1, <1>2, <1>3, CallInvariant, PTL DEF RegionSpec

-----------------------------------------------------------------------------
(***************************************************************************)
(* One application thread T.                                               *)
(***************************************************************************)

InCall(r) == unreg # None /\ unreg.region = r

\* The call works on a page of its region; if T is not idle, it faulted on that page.
CallOwn(T) ==
    unreg # None =>
        /\ unreg.region \notin gone /\ reg[unreg.region] = "watched"
        /\ unreg.step # "erase" => unreg.entry.addr[1] = unreg.region
        /\ unreg.step = "save" => unreg.entry.op = "store"
        /\ tstate[T] # "idle" => unreg.step = "save" /\ acc[T].addr = unreg.entry.addr

GoneWatched == \A r \in gone : reg[r] = "watched"

\* Unless the call overtook the handler, the page it found is the only one mapped.
Flushing ==
    \A a \in resident : InCall(a[1]) /\ a[1] \notin overtook =>
        unreg.step # "erase" /\ a = unreg.entry.addr

\* At most one page stays mapped in a region that is gone.
GoneOne == \A a, b \in resident : a[1] \in gone /\ a[1] = b[1] => a = b

\* A handler's entry is still to be used as long as its page has not been dropped by a call.
Kept(r) == r \notin gone /\ ~(InCall(r) /\ unreg.step = "erase")

\* The recorded page stays mapped until it is dropped, so no fault is on that same page.
PrevMapped ==
    \A r \in Regions : Kept(r) =>
        /\ prev[r] # None /\ pc[r] \notin {"fetch", "copy", "record"} => prev[r].addr \in resident
        /\ pc[r] = "record" => faulting_addr[r] \in resident
        /\ prev[r] # None /\ pc[r] \in {"fetch", "copy", "record"} =>
              faulting_addr[r] # prev[r].addr

\* What the call is about to drop is saved, or was resolved for a load.
SavedByCall ==
    unreg # None /\ unreg.step = "drop" =>
        /\ unreg.entry.op = "store" => remote[unreg.entry.addr] = local[unreg.entry.addr]
        /\ unreg.entry.op = "load" =>
              /\ pc[unreg.region] = "record" => faulting_addr[unreg.region] # unreg.entry.addr
              /\ prev[unreg.region] # [addr |-> unreg.entry.addr, op |-> "store"]

Flushed(T) ==
    /\ CallOwn(T)
    /\ GoneWatched
    /\ Flushing
    /\ GoneOne
    /\ PrevMapped
    /\ SavedByCall
    /\ LeftOnlyIfOvertaken

RegionInv(T) == CallInv /\ OneThreadInv(T, gone) /\ Flushed(T)

\* The parameter of OneThreadInv is a constant in the lemmas about steps that keep it.
LEMMA OneThreadGone ==
  ASSUME NEW T, NEW G, G = gone, gone' = gone, OneThreadInv(T, G)'
  PROVE  OneThreadInv(T, gone)'
  BY DEF OneThreadInv, Apart, LatestOnly

(***************************************************************************)
(* Steps of the program.                                                   *)
(***************************************************************************)
LEMMA ProgramFlushes ==
  ASSUME NEW T, Threads = {T}, RegionInv(T), Program(T), UNCHANGED callVars
  PROVE  Flushed(T)'
  <1> USE DEF RegionInv, Flushed, CallInv, TypeInv
  <1>0. UNCHANGED <<gone, unreg, overtook>> /\ (\A r \in Regions : Kept(r)' = Kept(r))
    BY DEF callVars, Kept, InCall
  <1>1. ASSUME NEW r \in Regions, NEW outcome \in RegisterOutcomes, unreg = None,
               rmp_alloc(T, r, outcome)
        PROVE  Flushed(T)'
    <2>1. r \notin gone /\ pc[r] = "off" /\ prev[r] = None
      BY <1>1 DEF rmp_alloc, GoneWatched, OneThreadInv, Registered, PrevOwn
    <2>2. /\ UNCHANGED <<prev, faulting_addr>> /\ pc'[r] \in {"start", "off"}
          /\ \A s \in Regions \ {r} : reg'[s] = reg[s] /\ pc'[s] = pc[s]
          /\ resident \subseteq resident' /\ \A a \in resident' : a \in resident \/ a[1] = r
      BY <1>1 DEF rmp_alloc, TypeOK, statics, locals
    <2>3. CallOwn(T)' /\ SavedByCall' /\ Flushing'
      BY <1>0, <1>1 DEF CallOwn, SavedByCall, Flushing, InCall
    <2>4. GoneWatched' /\ GoneOne' /\ LeftOnlyIfOvertaken'
      BY <1>0, <2>1, <2>2 DEF GoneWatched, GoneOne, LeftOnlyIfOvertaken, CallType
    <2>5. PrevMapped'
      BY <1>0, <2>1, <2>2 DEF PrevMapped
    <2> QED BY <2>3, <2>4, <2>5
  <1>2. CASE unreg = None /\ \E a \in Accesses : Issue(T, a)
    <2>1. UNCHANGED <<reg, resident, pc, prev, faulting_addr>>
      BY <1>2 DEF Issue, pageVars, statics, locals
    <2>2. CallOwn(T)' /\ SavedByCall' /\ Flushing'
      BY <1>0, <1>2 DEF CallOwn, SavedByCall, Flushing, InCall
    <2>3. GoneWatched' /\ GoneOne' /\ LeftOnlyIfOvertaken' /\ PrevMapped'
      BY <1>0, <2>1 DEF GoneWatched, GoneOne, LeftOnlyIfOvertaken, PrevMapped
    <2> QED BY <2>2, <2>3
  <1>3. CASE Execute(T)
    <2>1. UNCHANGED <<reg, resident, pc, prev, faulting_addr>>
      BY <1>3 DEF Execute, Load, Store, PageFault, pageVars, statics, locals
    <2>2. tstate[T] = "run" /\ (tstate'[T] # "idle" => acc' = acc)
      BY <1>3 DEF Execute, Load, Store, PageFault, TypeOK
    <2>3. CallOwn(T)' /\ SavedByCall'
      BY <1>0, <2>1, <2>2 DEF CallOwn, SavedByCall
    <2>4. Flushing'
      BY <1>0, <2>1 DEF Flushing, InCall
    <2>5. GoneWatched' /\ GoneOne' /\ LeftOnlyIfOvertaken' /\ PrevMapped'
      BY <1>0, <2>1 DEF GoneWatched, GoneOne, LeftOnlyIfOvertaken, PrevMapped
    <2> QED BY <2>3, <2>4, <2>5
  <1> QED BY <1>1, <1>2, <1>3 DEF Program

(***************************************************************************)
(* Handler steps that neither map, drop nor record a page.  While T sleeps *)
(* in a call, the call has not come to its "drop" yet.                     *)
(***************************************************************************)
LEMMA QuietFlushes ==
  ASSUME NEW T, Threads = {T}, RegionInv(T), NEW r \in Regions, UNCHANGED callVars,
         \/ CheckPage(r) \/ MapPage(r) \/ ReadMsg(r) \/ ReadAddr(r) \/ ReadOp(r) \/ Lock(r)
         \/ SavePrev(r) \/ PrevIsClean(r) \/ NoPrev(r) \/ ResolveLoad(r) \/ SkipStore(r)
  PROVE  Flushed(T)'
  <1> USE DEF RegionInv, Flushed, CallInv, TypeInv
  <1>0. UNCHANGED <<gone, unreg, overtook>> /\ (\A s \in Regions : Kept(s)' = Kept(s))
    BY DEF callVars, Kept, InCall
  <1>1. UNCHANGED <<reg, acc, resident, local, prev>> /\ (tstate'[T] # "idle" => tstate[T] # "idle")
    BY DEF CheckPage, MapPage, ReadMsg, Deliver, ReadAddr, ReadOp, Lock, Enter, SavePrev, SaveTo,
           PrevIsClean, NoPrev, ResolveLoad, SkipStore, Goto, appVars, pageVars, statics
  <1>2. /\ \A s \in Regions \ {r} : pc'[s] = pc[s] /\ faulting_addr'[s] = faulting_addr[s]
        /\ pc'[r] # "record"
        /\ pc'[r] \in {"fetch", "copy"} => faulting_addr' = faulting_addr
              /\ (pc[r] \in {"fetch", "copy"} \/ prev[r] = None)
        /\ pc'[r] \notin {"fetch", "copy"} => pc[r] \notin {"fetch", "copy", "record"}
    BY DEF CheckPage, MapPage, ReadMsg, Deliver, ReadAddr, ReadOp, Lock, Enter, SavePrev, SaveTo,
           PrevIsClean, NoPrev, ResolveLoad, SkipStore, Goto, locals, TypeOK
  <1>3. CallOwn(T)' /\ GoneWatched' /\ GoneOne' /\ LeftOnlyIfOvertaken' /\ Flushing'
    BY <1>0, <1>1
    DEF CallOwn, GoneWatched, GoneOne, LeftOnlyIfOvertaken, Flushing, InCall
  <1>4. PrevMapped'
    BY <1>0, <1>1, <1>2 DEF PrevMapped
  <1>5. SavedByCall'
    <2>1. CASE CheckPage(r) \/ MapPage(r)
      <3>1. remote' = remote /\ pc'[r] # "record" /\ faulting_addr' = faulting_addr
        BY <1>2, <2>1 DEF CheckPage, MapPage, Goto, locals
      <3> QED BY <1>0, <1>1, <1>2, <3>1, CallFields DEF SavedByCall
    <2>2. CASE ~(CheckPage(r) \/ MapPage(r))
      <3>1. tstate[T] # "idle"
        BY <2>2
        DEF ReadMsg, Deliver, ReadAddr, ReadOp, Lock, Enter, SavePrev, SaveTo, PrevIsClean,
            NoPrev, ResolveLoad, SkipStore, Goto, OneThreadInv, AtWork, Busy
      <3> QED BY <1>0, <3>1 DEF CallOwn, SavedByCall
    <2> QED BY <2>1, <2>2
  <1> QED BY <1>3, <1>4, <1>5

(***************************************************************************)
(* madvise, UFFDIO_COPY and the update of the maps by a handler.  It maps  *)
(* a page on which T sleeps, which is in no region that is gone, and in    *)
(* the region of a call only if it is the page the call faulted on.        *)
(***************************************************************************)
LEMMA ResolveFlushes ==
  ASSUME NEW T, Threads = {T}, RegionInv(T), NEW r \in Regions, UNCHANGED callVars,
         DropPrev(r) \/ UffdioCopy(r) \/ UffdioCopyFails(r) \/ Record(r)
  PROVE  Flushed(T)'
  <1> USE DEF RegionInv, Flushed, CallInv, TypeInv
  <1>0. UNCHANGED <<gone, unreg, overtook>> /\ (\A s \in Regions : Kept(s)' = Kept(s))
    BY DEF callVars, Kept, InCall
  <1>1. ASSUME pc[r] \in Busy \ {"addr"}
        PROVE  /\ tstate[T] = "asleep" /\ faulting_addr[r] = acc[T].addr
               /\ acc[T].addr[1] = r /\ acc[T].addr \notin resident /\ r \notin gone
               /\ unreg # None => unreg.step = "save"
    BY <1>1 DEF OneThreadInv, AtWork, Missing, Apart, CallOwn
  <1>2. CASE DropPrev(r)
    <2>1. /\ UNCHANGED <<reg, acc, tstate, prev, faulting_addr>>
          /\ resident' = resident \ {prev[r].addr} /\ pc' = [pc EXCEPT ![r] = "fetch"]
          /\ pc[r] = "drop"
      BY <1>2 DEF DropPrev, Discard, appVars, statics, locals
    <2>2. CallOwn(T)' /\ GoneWatched' /\ GoneOne' /\ LeftOnlyIfOvertaken' /\ Flushing'
      BY <1>0, <2>1
      DEF CallOwn, GoneWatched, GoneOne, LeftOnlyIfOvertaken, Flushing, InCall
    <2>3. SavedByCall'
      BY <1>0, <1>1, <2>1 DEF SavedByCall, Busy
    <2>4. /\ prev[r] # None /\ prev[r].addr[1] = r
          /\ \A s \in Regions \ {r} : prev[s] # None => prev[s].addr # prev[r].addr
          /\ \A s \in Regions \ {r} : pc[s] = "record" => faulting_addr[s] # prev[r].addr
      BY <2>1, UffdManAssumption DEF OneThreadInv, PrevOwn, PrevKnown
    <2>5. Kept(r) => faulting_addr[r] # prev[r].addr
      BY <1>1, <2>1, <2>4 DEF PrevMapped, Busy
    <2>6. PrevMapped'
      BY <1>0, <2>1, <2>4, <2>5 DEF PrevMapped, TypeOK
    <2> QED BY <2>2, <2>3, <2>6
  <1>3. CASE UffdioCopy(r)
    <2>1. /\ UNCHANGED <<reg, acc, prev, faulting_addr>>
          /\ resident' = resident \cup {faulting_addr[r]} /\ pc' = [pc EXCEPT ![r] = "record"]
          /\ pc[r] = "copy"
      BY <1>3 DEF UffdioCopy, Install, statics, locals
    <2>2. GoneWatched' /\ GoneOne' /\ LeftOnlyIfOvertaken'
      BY <1>0, <1>1, <2>1 DEF GoneWatched, GoneOne, LeftOnlyIfOvertaken, Busy
    <2>3. CallOwn(T)' /\ SavedByCall'
      BY <1>0, <1>1, <2>1 DEF CallOwn, SavedByCall, Busy
    <2>4. Flushing'
      BY <1>0, <1>1, <2>1 DEF CallOwn, Flushing, InCall, Busy
    <2>5. PrevMapped'
      BY <1>0, <2>1 DEF PrevMapped, TypeOK
    <2> QED BY <2>2, <2>3, <2>4, <2>5
  <1>4. CASE UffdioCopyFails(r)
    BY <1>1, <1>4 DEF UffdioCopyFails, Busy
  <1>5. CASE Record(r)
    <2>1. /\ UNCHANGED <<reg, acc, tstate, resident, local, remote>>
          /\ pc[r] = "record" /\ pc' = [pc EXCEPT ![r] = "poll"]
          /\ prev' = [prev EXCEPT ![r] = [addr |-> faulting_addr[r], op |-> faulting_op[r]]]
          /\ \A s \in Regions \ {r} : faulting_addr'[s] = faulting_addr[s]
      BY <1>5 DEF Record, Remember, appVars, pageVars, TypeOK
    <2>2. CallOwn(T)' /\ GoneWatched' /\ GoneOne' /\ LeftOnlyIfOvertaken' /\ Flushing'
      BY <1>0, <2>1
      DEF CallOwn, GoneWatched, GoneOne, LeftOnlyIfOvertaken, Flushing, InCall
    <2>3. PrevMapped'
      BY <1>0, <2>1 DEF PrevMapped, TypeOK
    <2>4. SavedByCall'
      <3> SUFFICES ASSUME unreg # None, unreg.step = "drop" PROVE SavedByCall'
        BY <1>0 DEF SavedByCall
      <3>1. unreg.region \in Regions
        BY CallFields
      <3>2. CASE unreg.region = r
        BY <1>0, <2>1, <3>2 DEF SavedByCall, TypeOK
      <3>3. CASE unreg.region # r
        BY <1>0, <2>1, <3>1, <3>3 DEF SavedByCall, TypeOK
      <3> QED BY <3>2, <3>3
    <2> QED BY <2>2, <2>3, <2>4
  <1> QED BY <1>2, <1>3, <1>4, <1>5

LEMMA CancelledKeeps ==
  ASSUME NEW T, Threads = {T}, RegionInv(T), NEW r \in Regions, Cancelled(r), UNCHANGED callVars
  PROVE  OneThreadInv(T, gone)' /\ Flushed(T)'
  <1> USE DEF RegionInv, Flushed, CallInv
  <1>0. UNCHANGED <<gone, unreg, overtook>> /\ (\A s \in Regions : Kept(s)' = Kept(s))
    BY DEF callVars, Kept, InCall
  <1>1. /\ \A s \in Regions : pc'[s] = pc[s] \/ (pc[s] = "poll" /\ pc'[s] = "dead" /\ s = r)
        /\ UNCHANGED <<reg, resident, local, acc, tstate, msg, prev, faulting_addr, faulting_op,
                       remote>>
        /\ r \in gone
    BY CancelledLeaves
  <1>2. OneThreadInv(T, gone)'
    <2>1. Registered' /\ AtWork(T)' /\ Missing(T)' /\ Apart(T, gone)' /\ Allocated' /\ PrevOwn'
          /\ SavedFirst'
      BY <1>0, <1>1
      DEF OneThreadInv, Registered, AtWork, Missing, Apart, Allocated, PrevOwn, SavedFirst, Busy
    <2>2. LatestOnly(gone)'
      BY <1>0, <1>1 DEF OneThreadInv, LatestOnly, Watched, TypeInv, TypeOK, Addr
    <2> QED BY <2>1, <2>2 DEF OneThreadInv
  <1>3. CallOwn(T)' /\ GoneWatched' /\ GoneOne' /\ LeftOnlyIfOvertaken' /\ Flushing'
    BY <1>0, <1>1
    DEF CallOwn, GoneWatched, GoneOne, LeftOnlyIfOvertaken, Flushing, InCall
  <1>4. PrevMapped'
    BY <1>0, <1>1 DEF PrevMapped, Kept
  <1>5. SavedByCall'
    BY <1>0, <1>1, CallFields DEF SavedByCall, CallOwn
  <1> QED BY <1>2, <1>3, <1>4, <1>5

-----------------------------------------------------------------------------
(***************************************************************************)
(* A call begins: T is idle, so no handler is busy, and the entry it finds *)
(* names the one mapped page unless the handler has yet to record it.      *)
(***************************************************************************)
LEMMA LookKeeps ==
  ASSUME NEW T, Threads = {T}, RegionInv(T), NEW r \in Regions, Calling(r), Look(T, r)
  PROVE  OneThreadInv(T, gone)' /\ Flushed(T)'
  <1> USE DEF RegionInv, Flushed
  <1>1. /\ UNCHANGED <<reg, resident, local, acc, tstate, msg, prev, pc, faulting_addr,
                       faulting_op, remote, gone>>
        /\ unreg' = [by |-> T, region |-> r, entry |-> prev[r], step |-> FirstStep(prev[r])]
        /\ unreg' # None /\ (prev[r] = None <=> unreg'.step = "erase")
        /\ unreg'.step = "save" => prev[r].op = "store"
        /\ unreg'.step = "drop" => prev[r].op = "load"
        /\ tstate[T] = "idle"
    BY LookLeaves DEF vars, appVars, pageVars, statics, locals
  <1>2. /\ unreg = None /\ r \notin gone /\ reg[r] = "watched" /\ Kept(r)
        /\ unreg'.region = r /\ unreg'.entry = prev[r]
        /\ overtook \subseteq overtook' /\ (pc[r] = "record" => r \in overtook')
    BY <1>1 DEF Calling, Look, Begin, Kept, InCall
  <1>3. OneThreadInv(T, gone)'
    BY <1>1
    DEF OneThreadInv, Registered, AtWork, Missing, Apart, Allocated, PrevOwn, LatestOnly, Watched,
        SavedFirst
  <1>4. CallOwn(T)'
    BY <1>1, <1>2 DEF CallOwn, OneThreadInv, PrevOwn
  <1>5. GoneWatched' /\ GoneOne' /\ LeftOnlyIfOvertaken'
    BY <1>1, <1>2 DEF GoneWatched, GoneOne, LeftOnlyIfOvertaken
  <1>6. Flushing'
    BY <1>1, <1>2 DEF Flushing, InCall, OneThreadInv, LatestOnly, Watched
  <1>7. PrevMapped'
    BY <1>1, <1>2 DEF PrevMapped, Kept, InCall
  <1>8. SavedByCall'
    BY <1>1, <1>2 DEF SavedByCall, PrevMapped
  <1> QED BY <1>3, <1>4, <1>5, <1>6, <1>7, <1>8

(***************************************************************************)
(* The other steps of a call.                                              *)
(***************************************************************************)
LEMMA ReadMissingKeeps ==
  ASSUME NEW T, Threads = {T}, RegionInv(T), ReadMissing
  PROVE  OneThreadInv(T, gone)' /\ Flushed(T)'
  <1> USE DEF RegionInv, Flushed, CallInv
  <1>1. unreg # None /\ unreg.step = "save" /\ unreg.by = T /\ unreg.region \notin gone
        /\ unreg.entry.addr[1] = unreg.region
    BY CallFields DEF ReadMissing, At, CallOwn
  <1>2. UNCHANGED <<gone, unreg, overtook>> /\ (\A s \in Regions : Kept(s)' = Kept(s))
    BY DEF ReadMissing, callVars, Kept, InCall
  <1>3. PICK a \in Access : a.addr = unreg.entry.addr /\ Issue(T, a)
    <2>1. PICK w \in Words :
             Issue(T, [op |-> "load", addr |-> unreg.entry.addr, word |-> w, val |-> Zero])
      BY <1>1 DEF ReadMissing
    <2> QED BY <1>1, <2>1, CallFields
  <1>4. OneThreadInv(T, gone)'
    <2>1. PICK G : G = gone
      OBVIOUS
    <2>2. OneThreadInv(T, G)
      BY <2>1
    <2>3. a.addr[1] \notin G
      BY <1>1, <1>3, <2>1
    <2>4. OneThreadInv(T, G)'
      BY <1>3, <2>2, <2>3, OneThreadApp
    <2> QED BY <1>2, <2>1, <2>4, OneThreadGone
  <1>5. UNCHANGED <<reg, resident, prev, pc, faulting_addr>> /\ acc'[T] = a
    BY <1>3 DEF Issue, pageVars, statics, locals, TypeInv, TypeOK
  <1>6. CallOwn(T)' /\ SavedByCall'
    BY <1>1, <1>2, <1>3, <1>5 DEF CallOwn, SavedByCall
  <1>7. GoneWatched' /\ GoneOne' /\ LeftOnlyIfOvertaken' /\ PrevMapped'
    BY <1>2, <1>5 DEF GoneWatched, GoneOne, LeftOnlyIfOvertaken, PrevMapped
  <1>8. Flushing'
    BY <1>2, <1>5 DEF Flushing, InCall
  <1> QED BY <1>4, <1>6, <1>7, <1>8

LEMMA SaveKeeps ==
  ASSUME NEW T, Threads = {T}, RegionInv(T), Save
  PROVE  OneThreadInv(T, gone)' /\ Flushed(T)'
  <1> USE DEF RegionInv, Flushed, CallInv
  <1>1. /\ unreg # None /\ unreg.step = "save" /\ unreg \in Call /\ unreg.entry.addr \in Addr
        /\ unreg.entry.addr[1] = unreg.region /\ unreg.entry.op = "store"
    BY CallFields DEF Save, At, CallOwn
  <1>2. \A s \in Regions : pc[s] \notin Busy
    BY NobodyBusy DEF Save
  <1>3. /\ UNCHANGED <<reg, resident, local, acc, tstate, msg, prev, pc, faulting_addr,
                       faulting_op, gone, overtook>>
        /\ unreg' = [unreg EXCEPT !.step = "drop"]
        /\ remote' = [remote EXCEPT ![unreg.entry.addr] = local[unreg.entry.addr]]
    BY <1>1 DEF Save, appVars, pageVars, statics, locals
  <1>4. /\ unreg'.region = unreg.region /\ unreg'.entry = unreg.entry /\ unreg'.step = "drop"
        /\ unreg' # None /\ tstate[T] = "idle"
    BY <1>1, <1>3, CallFields, UffdRegionsAssumption DEF Call, Steps, Save, At
  <1>5. OneThreadInv(T, gone)'
    BY <1>2, <1>3
    DEF OneThreadInv, Registered, AtWork, Missing, Apart, Allocated, PrevOwn, LatestOnly, Watched,
        SavedFirst, Busy
  <1>6. CallOwn(T)' /\ Flushing'
    BY <1>1, <1>3, <1>4 DEF CallOwn, Flushing, InCall
  <1>7. GoneWatched' /\ GoneOne' /\ LeftOnlyIfOvertaken'
    BY <1>3 DEF GoneWatched, GoneOne, LeftOnlyIfOvertaken
  <1>8. PrevMapped'
    BY <1>1, <1>3, <1>4 DEF PrevMapped, Kept, InCall
  <1>9. SavedByCall'
    BY <1>1, <1>3, <1>4 DEF SavedByCall, TypeInv, TypeOK
  <1> QED BY <1>5, <1>6, <1>7, <1>8, <1>9

LEMMA DropKeeps ==
  ASSUME NEW T, Threads = {T}, RegionInv(T), Drop
  PROVE  OneThreadInv(T, gone)' /\ Flushed(T)'
  <1> USE DEF RegionInv, Flushed, CallInv
  <1>1. /\ unreg # None /\ unreg.step = "drop" /\ unreg \in Call /\ unreg.entry.addr \in Addr
        /\ unreg.entry.addr[1] = unreg.region
    BY CallFields DEF Drop, At, CallOwn
  <1>2. \A s \in Regions : pc[s] \notin Busy
    BY NobodyBusy DEF Drop
  <1>3. /\ UNCHANGED <<reg, acc, tstate, msg, prev, pc, faulting_addr, faulting_op, remote,
                       gone, overtook>>
        /\ unreg' = [unreg EXCEPT !.step = "erase"]
        /\ resident' = resident \ {unreg.entry.addr}
    BY <1>1 DEF Drop, appVars, statics, locals
  <1>4. /\ unreg'.region = unreg.region /\ unreg'.entry = unreg.entry /\ unreg'.step = "erase"
        /\ unreg' # None /\ tstate[T] = "idle"
    BY <1>1, <1>3, CallFields, UffdRegionsAssumption DEF Call, Steps, Drop, At
  <1>5. OneThreadInv(T, gone)'
    BY <1>2, <1>3
    DEF OneThreadInv, Registered, AtWork, Missing, Apart, Allocated, PrevOwn, LatestOnly, Watched,
        SavedFirst, Busy
  <1>6. CallOwn(T)' /\ SavedByCall'
    BY <1>1, <1>3, <1>4 DEF CallOwn, SavedByCall
  <1>7. Flushing'
    BY <1>1, <1>3, <1>4 DEF Flushing, InCall
  <1>8. GoneWatched' /\ GoneOne' /\ LeftOnlyIfOvertaken'
    BY <1>3 DEF GoneWatched, GoneOne, LeftOnlyIfOvertaken
  <1>9. PrevMapped'
    <2> SUFFICES ASSUME NEW s \in Regions, Kept(s)'
                 PROVE  PrevMapped!(s)!2'
      BY DEF PrevMapped
    <2>1. s # unreg.region /\ Kept(s)
      BY <1>3, <1>4 DEF Kept, InCall
    <2>2. /\ prev[s] # None => prev[s].addr # unreg.entry.addr
          /\ pc[s] = "record" => faulting_addr[s] # unreg.entry.addr
      BY <1>1, <2>1 DEF OneThreadInv, PrevOwn
    <2> QED BY <1>3, <2>1, <2>2 DEF PrevMapped
  <1> QED BY <1>5, <1>6, <1>7, <1>8, <1>9

(***************************************************************************)
(* The region goes: what is still mapped in it is one page, and that only  *)
(* if the call overtook the handler.                                       *)
(***************************************************************************)
LEMMA ForgetKeeps ==
  ASSUME NEW T, Threads = {T}, RegionInv(T), At("erase"), Forget
  PROVE  OneThreadInv(T, gone)' /\ Flushed(T)'
  <1> USE DEF RegionInv, Flushed, CallInv
  <1>1. /\ unreg # None /\ unreg.step = "erase" /\ unreg.region \in Regions
        /\ unreg.region \notin gone /\ reg[unreg.region] = "watched"
    BY CallFields DEF At, CallOwn
  <1>2. (\A s \in Regions : pc[s] \notin Busy) /\ tstate[T] = "idle"
    BY NobodyBusy
  <1>3. /\ UNCHANGED <<reg, acc, tstate, resident, local, msg, pc, faulting_addr, faulting_op,
                       remote, overtook>>
        /\ unreg' = None /\ gone' = gone \cup {unreg.region}
        /\ prev' = [prev EXCEPT ![unreg.region] = None]
    BY DEF Forget, appVars, pageVars, locals
  <1>4. OneThreadInv(T, gone)'
    <2>1. Registered' /\ AtWork(T)' /\ Missing(T)' /\ Apart(T, gone)' /\ Allocated' /\ SavedFirst'
      BY <1>2, <1>3
      DEF OneThreadInv, Registered, AtWork, Missing, Apart, Allocated, SavedFirst, Busy
    <2>2. PrevOwn'
      BY <1>3 DEF OneThreadInv, PrevOwn, TypeInv, TypeOK
    <2>3. LatestOnly(gone)'
      BY <1>3 DEF OneThreadInv, LatestOnly, Watched, TypeInv, TypeOK, Addr
    <2> QED BY <2>1, <2>2, <2>3 DEF OneThreadInv
  <1>5. CallOwn(T)' /\ SavedByCall' /\ Flushing'
    BY <1>3 DEF CallOwn, SavedByCall, Flushing, InCall
  <1>6. GoneWatched' /\ LeftOnlyIfOvertaken'
    BY <1>1, <1>3 DEF GoneWatched, LeftOnlyIfOvertaken, Flushing, InCall
  <1>7. GoneOne'
    BY <1>1, <1>3 DEF GoneOne, OneThreadInv, LatestOnly, Watched
  <1>8. PrevMapped'
    <2>1. \A s \in Regions : Kept(s)' => Kept(s) /\ prev'[s] = prev[s]
      BY <1>3 DEF Kept, InCall, TypeInv, TypeOK
    <2> QED BY <1>3, <2>1 DEF PrevMapped
  <1> QED BY <1>4, <1>5, <1>6, <1>7, <1>8

-----------------------------------------------------------------------------
\* Steps of UffdMan, by the program or by a handler.
LEMMA UffdKeeps ==
  ASSUME NEW T, Threads = {T}, RegionInv(T), UNCHANGED callVars,
         Program(T) \/ \E r \in Regions : Handler(r)
  PROVE  OneThreadInv(T, gone)' /\ Flushed(T)'
  <1>1. PICK G : G = gone
    OBVIOUS
  <1>2. OneThreadInv(T, G) /\ TypeInv /\ gone' = gone
    BY <1>1 DEF RegionInv, CallInv, callVars
  <1>3. CASE Program(T)
    <2>1. \/ \E r \in Regions, outcome \in RegisterOutcomes : rmp_alloc(T, r, outcome)
          \/ \E a \in Access : a.addr[1] \notin G /\ Issue(T, a)
          \/ Execute(T)
      BY <1>1, <1>3, ProgramSteps
    <2>2. OneThreadInv(T, G)'
      BY <1>2, <2>1, OneThreadApp
    <2> QED BY <1>1, <1>2, <1>3, <2>2, OneThreadGone, ProgramFlushes
  <1>4. ASSUME NEW r \in Regions, Handler(r)
        PROVE  OneThreadInv(T, gone)' /\ Flushed(T)'
    <2>1. OneThreadInv(T, G)'
      BY <1>2, <1>4, OneThreadHandler
    <2>2. Flushed(T)'
      BY <1>4, QuietFlushes, ResolveFlushes DEF Handler
    <2> QED BY <1>1, <1>2, <2>1, <2>2, OneThreadGone
  <1> QED BY <1>3, <1>4

(***************************************************************************)
(* The invariant of a program with one thread that gives regions back.     *)
(***************************************************************************)
THEOREM RegionInvariant ==
  ASSUME NEW T, Threads = {T}
  PROVE  RegionSpec => []RegionInv(T)
  <1>1. RegionInit => RegionInv(T)
    <2> SUFFICES ASSUME RegionInit PROVE RegionInv(T)
      OBVIOUS
    <2>1. PICK G : G = gone
      OBVIOUS
    <2>2. OneThreadInv(T, G)
      BY OneThreadInit DEF RegionInit
    <2>3. Flushed(T)
      BY UffdManAssumption
      DEF RegionInit, Init, Flushed, CallOwn, GoneWatched, Flushing, GoneOne, PrevMapped,
          SavedByCall, LeftOnlyIfOvertaken
    <2> QED BY <2>1, <2>2, <2>3, CallInit DEF RegionInv
  <1>2. RegionInv(T) /\ [RegionNext]_regionVars => RegionInv(T)'
    <2> SUFFICES ASSUME RegionInv(T), [RegionNext]_regionVars
                 PROVE  OneThreadInv(T, gone)' /\ Flushed(T)'
      BY CallNext DEF RegionInv
    <2>1. CASE UNCHANGED <<vars, gone, unreg, overtook>>
      <3>1. UNCHANGED <<reg, acc, tstate, resident, local, msg, prev, pc, faulting_addr,
                        faulting_op, remote, gone, unreg, overtook>>
        BY <2>1 DEF vars, appVars, pageVars, statics, locals
      <3>2. OneThreadInv(T, gone)'
        BY <3>1
        DEF RegionInv, OneThreadInv, Registered, AtWork, Missing, Apart, Allocated, PrevOwn,
            LatestOnly, Watched, SavedFirst
      <3>3. Flushed(T)'
        BY <3>1
        DEF RegionInv, Flushed, CallOwn, GoneWatched, Flushing, GoneOne, PrevMapped, Kept, InCall,
            SavedByCall, LeftOnlyIfOvertaken
      <3> QED BY <3>2, <3>3
    <2>2. CASE \E r \in Regions : Cancelled(r) /\ UNCHANGED callVars
      BY <2>2, CancelledKeeps
    <2> QED
      BY <2>1, <2>2, RegionSteps, UffdKeeps, LookKeeps, ReadMissingKeeps, SaveKeeps, DropKeeps,
         ForgetKeeps
  <1> QED BY <1>1, <1>2, PTL DEF RegionSpec

(***************************************************************************)
(* "If no page fault occurs after resolving a write then invalidate during *)
(* unregistration": in a single-threaded program that is what happens, and *)
(* no page of the region stays mapped, unless the call came between        *)
(* UFFDIO_COPY and the handler's update of the maps.                       *)
(***************************************************************************)
THEOREM LeftPagesWereOvertaken ==
  ASSUME NEW T, Threads = {T}
  PROVE  RegionSpec => []LeftOnlyIfOvertaken
  <1>1. RegionInv(T) => LeftOnlyIfOvertaken
    BY DEF RegionInv, Flushed
  <1> QED BY <1>1, RegionInvariant, PTL

(***************************************************************************)
(* Giving regions back, at any time, breaks none of what single-threaded   *)
(* programs rely on: types, one mapped page for each region, and faults    *)
(* resolved by their own handlers, the one of the call itself included.    *)
(***************************************************************************)
THEOREM RegionsKeepPromises ==
  ASSUME NEW T, Threads = {T}
  PROVE  RegionSpec => [](TypeOK /\ OneResident /\ OwnFaults)
  <1>1. RegionInv(T) => TypeOK
    BY DEF RegionInv, CallInv, TypeInv
  <1>2. RegionInv(T) => OneResident
    BY DEF RegionInv, Flushed, GoneOne, OneThreadInv, LatestOnly, OneResident, Watched
  <1>3. RegionInv(T) => OwnFaults
    BY DEF RegionInv, OneThreadInv, AtWork, OwnFaults, Busy
  <1> QED BY <1>1, <1>2, <1>3, RegionInvariant, PTL

(***************************************************************************)
(* Whoever drops a page that was resolved for a store, the handler at the  *)
(* next fault or the program that unregisters the region, the server holds *)
(* it to the last word when it goes, also when the call overtook the       *)
(* handler and works on an entry that is no longer in the maps.            *)
(***************************************************************************)
THEOREM DroppedPagesAreSaved ==
  ASSUME NEW T, Threads = {T}
  PROVE  RegionSpec => DroppedStoresAreSaved
  <1> DEFINE Saved == \A a \in resident \ resident' :
                         prev[a[1]] = [addr |-> a, op |-> "store"] => remote'[a] = local[a]
  <1>1. RegionInv(T) /\ [RegionNext]_regionVars => [Saved]_regionVars
    <2> SUFFICES ASSUME RegionInv(T), [RegionNext]_regionVars,
                        NEW a \in resident \ resident',
                        prev[a[1]] = [addr |-> a, op |-> "store"]
                 PROVE  remote'[a] = local[a]
      OBVIOUS
    <2>1. (\E r \in Regions : DropPrev(r)) \/ Drop
      <3>1. ASSUME NEW t \in Threads, Program(t) PROVE FALSE
        BY <3>1 DEF Program, rmp_alloc, Issue, Execute, Load, Store, PageFault, pageVars
      <3>2. ASSUME NEW r \in Regions, Handler(r) \/ Cancelled(r), ~DropPrev(r) PROVE FALSE
        BY <3>2
        DEF Handler, CheckPage, MapPage, ReadMsg, Deliver, ReadAddr, ReadOp, Lock, Enter, SavePrev,
            SaveTo, PrevIsClean, NoPrev, ResolveLoad, SkipStore, UffdioCopy, Install,
            UffdioCopyFails, Record, Remember, Cancelled, Goto, pageVars
      <3>3. ASSUME NEW t \in Threads, NEW r \in Regions, Look(t, r) PROVE FALSE
        BY <3>3 DEF Look, Begin, vars, pageVars
      <3>4. ~(ReadMissing \/ Save \/ Forget \/ UNCHANGED vars)
        BY DEF ReadMissing, Issue, Save, Forget, vars, pageVars
      <3> QED BY <3>1, <3>2, <3>3, <3>4, RegionSteps
    <2>2. ASSUME NEW r \in Regions, DropPrev(r) PROVE remote'[a] = local[a]
      <3>1. a = prev[r].addr /\ pc[r] = "drop" /\ remote' = remote
        BY <2>2 DEF DropPrev, Discard
      <3>2. prev[r] \in Fault /\ prev[r] # None
        BY <3>1, UffdManAssumption DEF RegionInv, CallInv, TypeInv, PrevKnown
      <3>3. a[1] = r
        BY <3>1, <3>2 DEF RegionInv, OneThreadInv, PrevOwn
      <3>4. prev[r].op = "store"
        BY <3>3
      <3> QED BY <3>1, <3>4 DEF RegionInv, OneThreadInv, SavedFirst
    <2>3. CASE Drop
      <3>1. a = unreg.entry.addr /\ remote' = remote /\ unreg # None /\ unreg.step = "drop"
        BY <2>3 DEF Drop, At
      <3>2. unreg.entry.op \in Ops /\ unreg.entry.addr[1] = unreg.region
        BY <3>1, CallFields DEF RegionInv, CallInv, Flushed, CallOwn
      <3>3. unreg.entry.op # "load"
        BY <3>1, <3>2 DEF RegionInv, Flushed, SavedByCall
      <3> QED BY <3>1, <3>2, <3>3 DEF RegionInv, Flushed, SavedByCall, Ops
    <2> QED BY <2>1, <2>2, <2>3
  <1> QED BY <1>1, RegionInvariant, PTL DEF RegionSpec, DroppedStoresAreSaved
=============================================================================
