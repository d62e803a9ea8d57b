---------------------------- MODULE UffdManProofs ----------------------------
(***************************************************************************)
(* Theorems about UffdMan, for any number of threads, regions, pages and   *)
(* words.                                                                  *)
(***************************************************************************)
EXTENDS UffdMan, TLAPS

-----------------------------------------------------------------------------
(***************************************************************************)
(* Type correctness.  TypeOK alone is not inductive: what a step reads is  *)
(* set by an earlier step of the same handler, or by the kernel.           *)
(***************************************************************************)

\* A thread that is not idle has an access.
Executing == \A t \in Threads : tstate[t] # "idle" => acc[t] \in Access

\* The bounce buffer exists once a handler has left its prologue.
BufferMapped == \A r \in Regions : pc[r] \notin {"off"} \cup Prologue => page \in Content

\* The shared message has been filled by somebody before a handler looks at it.
MsgFilled == \A r \in Regions : pc[r] \in {"addr", "op"} => msg \in Fault

\* A handler has the address from "op" on, the operation from "lock" on.
FaultKnown ==
    \A r \in Regions :
        /\ pc[r] \in {"op", "lock"} \cup Locked => faulting_addr[r] \in Addr
        /\ pc[r] \in {"lock"} \cup Locked => faulting_op[r] \in Ops

\* Only a recorded page is dropped.
PrevKnown == \A r \in Regions : pc[r] = "drop" => prev[r] \in Fault

TypeInv ==
    /\ TypeOK
    /\ Executing
    /\ BufferMapped
    /\ MsgFilled
    /\ FaultKnown
    /\ PrevKnown

(***************************************************************************)
(* The initial state has its type.                                         *)
(***************************************************************************)
LEMMA TypeInit == Init => TypeInv
  BY UffdManAssumption
  DEF Init, TypeInv, TypeOK, Executing, BufferMapped, MsgFilled, FaultKnown, PrevKnown,
      Content, ZeroPage, PC, Locked, Prologue, Outcomes

(***************************************************************************)
(* An access is a record of its four fields, a message one of two.         *)
(***************************************************************************)
LEMMA AccessFields ==
  ASSUME NEW a \in Access
  PROVE  /\ a # None
         /\ a.op \in Ops /\ a.addr \in Addr /\ a.word \in Words /\ a.val \in Values
         /\ a.addr[1] \in Regions
         /\ [addr |-> a.addr, op |-> a.op] \in Fault
  BY UffdManAssumption DEF Access, Fault, Addr

(***************************************************************************)
(* Steps of the application and of the kernel keep the types.              *)
(***************************************************************************)
LEMMA TypeApp ==
  ASSUME TypeInv, NEW t \in Threads,
         \/ \E r \in Regions, outcome \in RegisterOutcomes : rmp_alloc(t, r, outcome)
         \/ \E a \in Access : Issue(t, a)
         \/ Execute(t)
  PROVE  TypeInv'
  <1> USE DEF TypeInv
  <1>1. ASSUME NEW r \in Regions, NEW outcome \in RegisterOutcomes, rmp_alloc(t, r, outcome)
        PROVE  TypeInv'
    <2>1. TypeOK'
      BY <1>1, UffdManAssumption
      DEF rmp_alloc, TypeOK, statics, locals, Addr, PC, Prologue
    <2>2. Executing' /\ BufferMapped' /\ MsgFilled' /\ FaultKnown' /\ PrevKnown'
      BY <1>1 DEF rmp_alloc, TypeOK, statics, locals, Executing, BufferMapped, MsgFilled,
                  FaultKnown, PrevKnown, Prologue, Locked
    <2> QED BY <2>1, <2>2
  <1>2. ASSUME NEW a \in Access, Issue(t, a)
        PROVE  TypeInv'
    BY <1>2, UffdManAssumption
    DEF Issue, TypeOK, pageVars, statics, locals, Executing, BufferMapped, MsgFilled,
        FaultKnown, PrevKnown
  <1>3. CASE Load(t)
    <2>1. local[acc[t].addr][acc[t].word] \in Values
      BY <1>3, AccessFields DEF Load, Executing, TypeOK, Content
    <2> QED
      BY <1>3, <2>1
      DEF Load, TypeOK, pageVars, statics, locals, Executing, BufferMapped, MsgFilled,
          FaultKnown, PrevKnown
  <1>4. CASE Store(t)
    <2>1. acc[t] \in Access
      BY <1>4 DEF Store, Executing
    <2>2. acc[t].addr \in Addr /\ acc[t].word \in Words /\ acc[t].val \in Values
      BY <2>1, AccessFields
    <2>3. local' \in [Addr -> Content] /\ mem' \in [Addr -> Content]
      BY <1>4, <2>2 DEF Store, TypeOK, Content
    <2> QED
      BY <1>4, <2>3
      DEF Store, TypeOK, statics, locals, Executing, BufferMapped, MsgFilled,
          FaultKnown, PrevKnown
  <1>5. CASE PageFault(t)
    BY <1>5
    DEF PageFault, TypeOK, pageVars, statics, locals, Executing, BufferMapped, MsgFilled,
        FaultKnown, PrevKnown
  <1> QED BY <1>1, <1>2, <1>3, <1>4, <1>5 DEF Execute

(***************************************************************************)
(* Steps of a fault handler keep the types.                                *)
(***************************************************************************)
LEMMA TypeHandler ==
  ASSUME TypeInv, NEW r \in Regions, Handler(r)
  PROVE  TypeInv'
  <1> USE DEF TypeInv
  <1>1. CASE CheckPage(r)
    BY <1>1
    DEF CheckPage, Goto, TypeOK, appVars, pageVars, statics, locals, Executing, BufferMapped,
        MsgFilled, FaultKnown, PrevKnown, Prologue, Locked, PC
  <1>2. CASE MapPage(r)
    BY <1>2, UffdManAssumption
    DEF MapPage, TypeOK, appVars, pageVars, locals, Executing, BufferMapped, MsgFilled,
        FaultKnown, PrevKnown, Prologue, Locked, PC, ZeroPage, Content
  <1>3. CASE ReadMsg(r)
    <2>1. PICK t \in Threads : tstate[t] = "pending" /\ Deliver(r, t)
      BY <1>3 DEF ReadMsg
    <2>2. msg' \in Fault
      BY <2>1, AccessFields DEF Deliver, Executing
    <2> QED
      BY <2>1, <2>2
      DEF Deliver, TypeOK, pageVars, locals, Executing, BufferMapped, MsgFilled,
          FaultKnown, PrevKnown, Prologue, Locked, Busy, PC
  <1>4. CASE ReadAddr(r)
    <2>1. msg.addr \in Addr
      BY <1>4 DEF ReadAddr, MsgFilled, Fault
    <2> QED
      BY <1>4, <2>1
      DEF ReadAddr, TypeOK, appVars, pageVars, statics, Executing, BufferMapped, MsgFilled,
          FaultKnown, PrevKnown, Prologue, Locked, Busy, PC
  <1>5. CASE ReadOp(r)
    <2>1. msg.op \in Ops
      BY <1>5 DEF ReadOp, MsgFilled, Fault
    <2> QED
      BY <1>5, <2>1
      DEF ReadOp, TypeOK, appVars, pageVars, statics, Executing, BufferMapped, MsgFilled,
          FaultKnown, PrevKnown, Prologue, Locked, Busy, PC
  <1>6. CASE Lock(r)
    BY <1>6
    DEF Lock, Enter, TypeOK, appVars, pageVars, locals, Executing, BufferMapped, MsgFilled,
        FaultKnown, PrevKnown, Prologue, Locked, Busy, PC
  <1>7. CASE SavePrev(r)
    <2>1. prev[r] \in Fault
      BY <1>7 DEF SavePrev, SaveTo, TypeOK
    <2>2. remote' \in [Addr -> Content]
      BY <1>7, <2>1 DEF SavePrev, SaveTo, TypeOK, Fault
    <2> QED
      BY <1>7, <2>1, <2>2
      DEF SavePrev, SaveTo, TypeOK, appVars, pageVars, statics, locals, Executing, BufferMapped,
          MsgFilled, FaultKnown, PrevKnown, Prologue, Locked, Busy, PC
  <1>8. CASE PrevIsClean(r) \/ NoPrev(r) \/ SkipStore(r)
    BY <1>8
    DEF PrevIsClean, NoPrev, SkipStore, Goto, TypeOK, appVars, pageVars, statics, locals,
        Executing, BufferMapped, MsgFilled, FaultKnown, PrevKnown, Prologue, Locked, Busy, PC
  <1>9. CASE DropPrev(r)
    <2>1. local' \in [Addr -> Content] /\ resident' \subseteq Addr
      BY <1>9, UffdManAssumption DEF DropPrev, Discard, TypeOK, ZeroPage, Content
    <2> QED
      BY <1>9, <2>1
      DEF DropPrev, Discard, TypeOK, appVars, statics, locals, Executing, BufferMapped,
          MsgFilled, FaultKnown, PrevKnown, Prologue, Locked, Busy, PC
  <1>10. CASE ResolveLoad(r)
    <2>1. faulting_addr[r] \in Addr
      BY <1>10 DEF ResolveLoad, FaultKnown, Locked
    <2>2. page' \in Content
      BY <1>10, <2>1 DEF ResolveLoad, TypeOK
    <2> QED
      BY <1>10, <2>2
      DEF ResolveLoad, TypeOK, appVars, pageVars, locals, Executing, BufferMapped,
          MsgFilled, FaultKnown, PrevKnown, Prologue, Locked, Busy, PC
  <1>11. CASE UffdioCopy(r)
    <2>1. faulting_addr[r] \in Addr /\ page \in Content
      BY <1>11 DEF UffdioCopy, Install, FaultKnown, BufferMapped, Locked, Prologue
    <2>2. local' \in [Addr -> Content] /\ resident' \subseteq Addr
      BY <1>11, <2>1 DEF UffdioCopy, Install, TypeOK
    <2>3. tstate' \in [Threads -> {"idle", "run", "pending", "asleep"}] /\ Executing'
      BY <1>11 DEF UffdioCopy, Install, TypeOK, Executing, Sleepers
    <2> QED
      BY <1>11, <2>2, <2>3
      DEF UffdioCopy, Install, TypeOK, statics, locals, BufferMapped,
          MsgFilled, FaultKnown, PrevKnown, Prologue, Locked, Busy, PC
  <1>12. CASE UffdioCopyFails(r)
    BY <1>12
    DEF UffdioCopyFails, TypeOK, appVars, pageVars, Executing, BufferMapped,
        MsgFilled, FaultKnown, PrevKnown, Prologue, Locked, Busy, PC
  <1>13. CASE Record(r)
    <2>1. [addr |-> faulting_addr[r], op |-> faulting_op[r]] \in Fault
      BY <1>13 DEF Record, Remember, FaultKnown, Locked, Fault
    <2> QED
      BY <1>13, <2>1
      DEF Record, Remember, TypeOK, appVars, pageVars, Executing, BufferMapped,
          MsgFilled, FaultKnown, PrevKnown, Prologue, Locked, Busy, PC
  <1> QED
    BY <1>1, <1>2, <1>3, <1>4, <1>5, <1>6, <1>7, <1>8, <1>9, <1>10, <1>11, <1>12, <1>13
    DEF Handler

(***************************************************************************)
(* A step that changes no variable keeps the types.                        *)
(***************************************************************************)
LEMMA TypeStutter == TypeInv /\ UNCHANGED vars => TypeInv'
  BY DEF TypeInv, TypeOK, Executing, BufferMapped, MsgFilled, FaultKnown, PrevKnown,
         vars, appVars, pageVars, statics, locals

\* No step leaves the strengthened type.
LEMMA TypeNext ==
  ASSUME TypeInv, [Next]_vars
  PROVE  TypeInv'
  <1>1. CASE Next
    BY <1>1, TypeApp, TypeHandler, UffdManAssumption DEF Next
  <1>2. CASE UNCHANGED vars
    BY <1>2, TypeStutter
  <1> QED BY <1>1, <1>2

(***************************************************************************)
(* Every reachable state has the strengthened type.                        *)
(***************************************************************************)
THEOREM TypeInvariant == Spec => []TypeInv
  BY TypeInit, TypeNext, PTL DEF Spec

(***************************************************************************)
(* TypeOK holds in every reachable state: no handler thread copies the     *)
(* bounce buffer before it is mapped, passes on a message nobody read, or  *)
(* drops a page nobody recorded.                                           *)
(***************************************************************************)
THEOREM TypeCorrect == Spec => []TypeOK
  <1>1. TypeInv => TypeOK
    BY DEF TypeInv
  <1> QED BY <1>1, TypeInvariant, PTL

-----------------------------------------------------------------------------
(***************************************************************************)
(* The mutex and the shared buffer, for any number of application threads. *)
(***************************************************************************)

\* Only a watched region has a handler thread.
Registered == \A r \in Regions : pc[r] # "off" => reg[r] = "watched"

\* A handler is between its lock_guard and the guard's end iff it is the holder.
Mutex == \A r \in Regions : pc[r] \in Locked <=> fault_handler_cr = r

\* With prompt start, one handler at a time is in its prologue, and the one that is
\* about to map the buffer is the first of all.
OneStarts ==
    /\ \A r, s \in Regions : pc[r] \in Prologue /\ pc[s] \in Prologue => r = s
    /\ \A r \in Regions : pc[r] = "mapping" => page = None

BufferInv == Registered /\ Mutex /\ OneStarts /\ FetchedPageIsCurrent

(***************************************************************************)
(* Steps of the application touch neither the mutex nor the buffer, and    *)
(* rmp_alloc starts a handler only when none is in its prologue.           *)
(***************************************************************************)
LEMMA BufferApp ==
  ASSUME PromptStart, TypeInv, BufferInv, NEW t \in Threads,
         \/ \E r \in Regions, outcome \in RegisterOutcomes : rmp_alloc(t, r, outcome)
         \/ \E a \in Access : Issue(t, a)
         \/ Execute(t)
  PROVE  BufferInv'
  <1>1. ASSUME NEW r \in Regions, NEW outcome \in RegisterOutcomes, rmp_alloc(t, r, outcome)
        PROVE  BufferInv'
    <2>1. pc[r] = "off"
      BY <1>1 DEF rmp_alloc, BufferInv, Registered
    <2> QED
      BY <1>1, <2>1
      DEF rmp_alloc, TypeInv, TypeOK, BufferInv, Registered, Mutex, OneStarts,
          FetchedPageIsCurrent, statics, locals, Prologue, Locked
  <1>2. CASE (\E a \in Access : Issue(t, a)) \/ Execute(t)
    BY <1>2
    DEF Issue, Execute, Load, Store, PageFault, BufferInv, Registered, Mutex, OneStarts,
        FetchedPageIsCurrent, pageVars, statics, locals
  <1> QED BY <1>1, <1>2

(***************************************************************************)
(* Handler steps that leave the buffer, the server's pages and the mutex   *)
(* alone.                                                                  *)
(***************************************************************************)
LEMMA BufferQuiet ==
  ASSUME TypeInv, BufferInv, NEW r \in Regions,
         \/ CheckPage(r) \/ ReadMsg(r) \/ ReadAddr(r) \/ ReadOp(r)
         \/ PrevIsClean(r) \/ NoPrev(r) \/ DropPrev(r) \/ SkipStore(r) \/ UffdioCopy(r)
  PROVE  BufferInv'
  <1> USE DEF BufferInv
  <1>1. CASE CheckPage(r)
    BY <1>1
    DEF CheckPage, Goto, TypeInv, TypeOK, Registered, Mutex, OneStarts, FetchedPageIsCurrent,
        appVars, pageVars, statics, locals, Prologue, Locked
  <1>2. CASE ReadMsg(r)
    BY <1>2
    DEF ReadMsg, Deliver, TypeInv, TypeOK, Registered, Mutex, OneStarts, FetchedPageIsCurrent,
        locals, Prologue, Locked
  <1>3. CASE ReadAddr(r)
    BY <1>3
    DEF ReadAddr, TypeInv, TypeOK, Registered, Mutex, OneStarts, FetchedPageIsCurrent,
        appVars, pageVars, statics, locals, Prologue, Locked
  <1>4. CASE ReadOp(r)
    BY <1>4
    DEF ReadOp, TypeInv, TypeOK, Registered, Mutex, OneStarts, FetchedPageIsCurrent,
        appVars, pageVars, statics, locals, Prologue, Locked
  <1>5. CASE PrevIsClean(r) \/ NoPrev(r)
    BY <1>5
    DEF PrevIsClean, NoPrev, Goto, TypeInv, TypeOK, Registered, Mutex, OneStarts,
        FetchedPageIsCurrent, appVars, pageVars, statics, locals, Prologue, Locked
  <1>6. CASE DropPrev(r)
    BY <1>6
    DEF DropPrev, Discard, TypeInv, TypeOK, Registered, Mutex, OneStarts, FetchedPageIsCurrent,
        appVars, statics, locals, Prologue, Locked
  <1>7. CASE SkipStore(r)
    BY <1>7
    DEF SkipStore, Goto, TypeInv, TypeOK, Registered, Mutex, OneStarts, FetchedPageIsCurrent,
        appVars, pageVars, statics, locals, Prologue, Locked
  <1>8. CASE UffdioCopy(r)
    BY <1>8
    DEF UffdioCopy, Install, TypeInv, TypeOK, Registered, Mutex, OneStarts,
        FetchedPageIsCurrent, statics, locals, Prologue, Locked
  <1> QED BY <1>1, <1>2, <1>3, <1>4, <1>5, <1>6, <1>7, <1>8

(***************************************************************************)
(* Steps that write the buffer or the server's pages, or take or release   *)
(* the mutex.  Whoever writes the buffer while another handler is about to *)
(* copy it would have to hold the mutex as well, or to be the first of all *)
(* handlers.                                                               *)
(***************************************************************************)
LEMMA BufferWriters ==
  ASSUME TypeInv, BufferInv, NEW r \in Regions,
         \/ MapPage(r) \/ Lock(r) \/ SavePrev(r) \/ ResolveLoad(r)
         \/ UffdioCopyFails(r) \/ Record(r)
  PROVE  BufferInv'
  <1> USE DEF BufferInv
  <1>1. CASE MapPage(r)
    <2>1. \A s \in Regions : pc[s] \in {"off"} \cup Prologue
      BY <1>1, UffdManAssumption DEF MapPage, OneStarts, TypeInv, BufferMapped
    <2> QED
      BY <1>1, <2>1
      DEF MapPage, TypeInv, TypeOK, Registered, Mutex, OneStarts, FetchedPageIsCurrent,
          appVars, locals, Prologue, Locked
  <1>2. CASE Lock(r)
    BY <1>2, UffdManAssumption
    DEF Lock, Enter, TypeInv, TypeOK, Registered, Mutex, OneStarts, FetchedPageIsCurrent,
        appVars, locals, Prologue, Locked
  <1>3. CASE SavePrev(r)
    <2>1. \A s \in Regions : pc[s] \in Locked => s = r
      BY <1>3 DEF SavePrev, SaveTo, Mutex, Locked
    <2> QED
      BY <1>3, <2>1
      DEF SavePrev, SaveTo, TypeInv, TypeOK, Registered, Mutex, OneStarts,
          FetchedPageIsCurrent, appVars, statics, locals, Prologue, Locked
  <1>4. CASE ResolveLoad(r)
    <2>1. \A s \in Regions : pc[s] \in Locked => s = r
      BY <1>4 DEF ResolveLoad, Mutex, Locked
    <2>2. page \in Content
      BY <1>4 DEF ResolveLoad, TypeInv, BufferMapped, Prologue
    <2> QED
      BY <1>4, <2>1, <2>2, UffdManAssumption
      DEF ResolveLoad, TypeInv, TypeOK, Registered, Mutex, OneStarts,
          FetchedPageIsCurrent, appVars, locals, Prologue, Locked
  <1>5. CASE UffdioCopyFails(r) \/ Record(r)
    <2>1. \A s \in Regions : pc[s] \in Locked => s = r
      BY <1>5 DEF UffdioCopyFails, Record, Remember, Mutex, Locked
    <2> QED
      BY <1>5, <2>1, UffdManAssumption
      DEF UffdioCopyFails, Record, Remember, TypeInv, TypeOK, Registered, Mutex, OneStarts,
          FetchedPageIsCurrent, appVars, Prologue, Locked
  <1> QED BY <1>1, <1>2, <1>3, <1>4, <1>5

LEMMA BufferInit == Init => BufferInv
  BY UffdManAssumption
  DEF Init, BufferInv, Registered, Mutex, OneStarts, FetchedPageIsCurrent, Prologue, Locked

LEMMA BufferNext ==
  ASSUME PromptStart, TypeInv, BufferInv, [Next]_vars
  PROVE  BufferInv'
  <1>1. CASE Next
    BY <1>1, BufferApp, BufferQuiet, BufferWriters, UffdManAssumption DEF Next, Handler
  <1>2. CASE UNCHANGED vars
    BY <1>2
    DEF BufferInv, Registered, Mutex, OneStarts, FetchedPageIsCurrent,
        vars, appVars, pageVars, statics, locals
  <1> QED BY <1>1, <1>2

(***************************************************************************)
(* With prompt start, the mutex and the buffer stay as described.          *)
(***************************************************************************)
THEOREM BufferInvariant ==
  ASSUME PromptStart
  PROVE  Spec => []BufferInv
  <1>1. TypeInv /\ BufferInv /\ [Next]_vars => BufferInv'
    BY BufferNext
  <1> QED BY <1>1, BufferInit, TypeInvariant, PTL DEF Spec

(***************************************************************************)
(* If every handler thread gets through its prologue before the next       *)
(* rmp_alloc returns, what a handler maps to resolve a load is the         *)
(* server's page, for any number of threads and regions, although all      *)
(* handlers share one buffer and one message.                              *)
(***************************************************************************)
THEOREM FetchedCurrent ==
  ASSUME PromptStart
  PROVE  Spec => []FetchedPageIsCurrent
  <1>1. BufferInv => FetchedPageIsCurrent
    BY DEF BufferInv
  <1> QED BY <1>1, BufferInvariant, PTL
=============================================================================
