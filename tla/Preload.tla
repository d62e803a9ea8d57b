------------------------------- MODULE Preload -------------------------------
(***************************************************************************)
(* preloadlib.cpp on top of the client library: the malloc that an         *)
(* LD_PRELOADed program calls, with its lazy hooking and connection, its   *)
(* global flag do_local_allocation and the mutex it shares with the fault  *)
(* handlers.  The library's own allocations call the same malloc again:    *)
(* stack[t] holds the steps at which the nested calls of thread t are, the *)
(* innermost first.  The interposed free does nothing.                     *)
(***************************************************************************)
EXTENDS RmpClient

VARIABLES
    hooked,              \* stdlib_malloc # NULL
    rmp_fd,              \* 0, or None while it is -1
    do_local_allocation,
    mainthread_id,
    stack,               \* steps of the calls of malloc that have not returned
    result,              \* region a thread's rmp_alloc returns, None if that fails
    handed               \* regions malloc has returned to the program

flags == <<hooked, rmp_fd, do_local_allocation, mainthread_id>>
callVars == <<result, handed>>
preVars == <<flags, stack, callVars>>
vars == <<wireVars, preVars>>

Init ==
    /\ WireInit
    /\ hooked = FALSE
    /\ rmp_fd = None
    /\ do_local_allocation = FALSE
    /\ mainthread_id = None
    /\ stack = [t \in Threads |-> <<>>]
    /\ result = [t \in Threads |-> None]
    /\ handed = {}

-----------------------------------------------------------------------------
\* Thread t is at step from of its innermost malloc; rest becomes its stack.
Moves(t, from, rest) ==
    /\ stack[t] # <<>>
    /\ Head(stack[t]) = from
    /\ stack' = [stack EXCEPT ![t] = rest \o Tail(@)]

Goto(t, from, rest) == Moves(t, from, rest) /\ UNCHANGED callVars

\* The program calls malloc.
Malloc(t) ==
    /\ stack[t] = <<>> /\ target[t] = None
    /\ stack' = [stack EXCEPT ![t] = <<"test">>]
    /\ UNCHANGED <<wireVars, flags, result, handed>>

\* if (do_local_allocation) return local_malloc(size), which hooks if it has to.
TestLocal(t) ==
    /\ Goto(t, "test", IF do_local_allocation THEN <<>> ELSE <<"hook">>)
    /\ hooked' = (hooked \/ do_local_allocation)
    /\ UNCHANGED <<wireVars, rmp_fd, do_local_allocation, mainthread_id>>

\* Bug: check_conn leaves the hooking to local_malloc.
HookLater(t) ==
    /\ Goto(t, "hook", <<"fd">>)
    /\ UNCHANGED <<wireVars, flags>>

\* check_conn: preloadlib_init if stdlib_malloc is not set.
Hook(t) ==
    /\ Goto(t, "hook", <<"fd">>)
    /\ hooked' = TRUE
    /\ UNCHANGED <<wireVars, rmp_fd, do_local_allocation, mainthread_id>>

\* check_conn: rmp_conn_init if rmp_fd is -1.
CheckFd(t) ==
    /\ Goto(t, "fd", IF rmp_fd = None THEN <<"init_lock">> ELSE <<"self">>)
    /\ UNCHANGED <<wireVars, flags>>

-----------------------------------------------------------------------------
(***************************************************************************)
(* rmp_conn_init                                                           *)
(***************************************************************************)
otherWire == <<libVars, userVars, netVars, srvVars, sent, tears, left, killed>>

Acquire(t) == fault_handler_cr = None /\ fault_handler_cr' = t

InitLock(t) ==
    /\ Goto(t, "init_lock", <<"init_flag">>)
    /\ Acquire(t)
    /\ UNCHANGED <<otherWire, flags>>

\* The flag and the main thread's id; then new rmp::Client, a nested malloc.
InitFlag(t) ==
    /\ Goto(t, "init_flag", <<"test", "init_conn">>)
    /\ do_local_allocation' = TRUE
    /\ mainthread_id' = t
    /\ UNCHANGED <<wireVars, hooked, rmp_fd>>

InitConnects(t) ==
    /\ Goto(t, "init_conn", <<"init_done">>)
    /\ rmp_init
    /\ rmp_fd' = 0
    /\ UNCHANGED <<hooked, do_local_allocation, mainthread_id>>

\* rmp_init returns -1 and leaves an unconnected socket behind.
InitFails(t) ==
    /\ Goto(t, "init_conn", <<"init_done">>)
    /\ socketfd' = 0
    /\ rmp_fd' = None
    /\ UNCHANGED <<addr_hndl_map, fault_handler_cr, userVars, netVars, srvVars, sent, tears, left,
                   killed, hooked, do_local_allocation, mainthread_id>>

InitEnds(t, holder) ==
    /\ Goto(t, "init_done", <<"ret">>)
    /\ do_local_allocation' = FALSE
    /\ fault_handler_cr' = holder
    /\ UNCHANGED <<otherWire, hooked, rmp_fd, mainthread_id>>

\* Bug: the mutex is locked by hand and not unlocked.
InitDoneKeepsLock(t) == InitEnds(t, fault_handler_cr)

\* The flag is cleared, then the guard's scope ends.
InitDone(t) == InitEnds(t, None)

\* check_conn returns rmp_fd != -1; malloc returns NULL if it is false.
CheckConnReturns(t) ==
    /\ Goto(t, "ret", IF rmp_fd = None THEN <<>> ELSE <<"self">>)
    /\ UNCHANGED <<wireVars, flags>>

-----------------------------------------------------------------------------
(***************************************************************************)
(* The remote allocation.                                                  *)
(***************************************************************************)

\* Threads other than the one that connected get local memory.
IsMain(t) ==
    /\ Goto(t, "self", IF mainthread_id = t THEN <<"lock">> ELSE <<>>)
    /\ UNCHANGED <<wireVars, flags>>

MallocLock(t) ==
    /\ Goto(t, "lock", <<"flag">>)
    /\ Acquire(t)
    /\ UNCHANGED <<otherWire, flags>>

\* The process ends.
Dies ==
    /\ killed' = TRUE
    /\ UNCHANGED <<libVars, fault_handler_cr, userVars, netVars, srvVars, sent, tears, left>>

(***************************************************************************)
(* do_local_allocation = 1, then rmp_alloc.  It fails when mmap finds no   *)
(* local address space, or is asked for none: a size of 0 is 0 pages.      *)
(* Once connected is set it sends, also on a socket that has replaced the  *)
(* connected one and did not connect itself: SIGPIPE.                      *)
(***************************************************************************)
CallsAlloc(t) ==
    /\ Moves(t, "flag", <<"alloc">>)
    /\ do_local_allocation' = TRUE
    /\ \/ \E r \in Regions \ handed :
             /\ \A u \in Threads : result[u] # r
             /\ rmp_alloc(t, r)
             /\ result' = [result EXCEPT ![t] = r]
       \/ UNCHANGED <<wireVars, result>>
       \/ socketfd = 0 /\ opened > 0 /\ Dies /\ UNCHANGED result
    /\ UNCHANGED <<hooked, rmp_fd, mainthread_id, handed>>

\* The end of rmp_alloc: the nodes of the maps and the thread's are nested mallocs.
AllocReturns(t) ==
    /\ pc[t] = "idle"
    /\ Goto(t, "alloc", <<"test", "unlock">>)
    /\ UNCHANGED <<wireVars, flags>>

\* fault_handler_cr.unlock() and, at the end, the guard's own unlock: whoever holds
\* the mutex then, it is free.
Unlock == fault_handler_cr' = None /\ UNCHANGED <<otherWire, flags>>

UnlockByHand(t) == Goto(t, "unlock", <<"clear">>) /\ Unlock

ClearFlag(t) ==
    /\ Goto(t, "clear", <<"guard">>)
    /\ do_local_allocation' = FALSE
    /\ UNCHANGED <<wireVars, hooked, rmp_fd, mainthread_id>>

\* The guard's unlock, and the program has the address.
GuardEnds(t) ==
    /\ Moves(t, "guard", <<>>)
    /\ Unlock
    /\ handed' = handed \cup ({result[t]} \ {None})
    /\ result' = [result EXCEPT ![t] = None]

(***************************************************************************)
(* The program touches memory that malloc gave it.  After a second         *)
(* rmp_init the new addr_hndl_map does not know the region: at() throws in *)
(* the handler, where nothing catches it, unless nothing is exchanged.     *)
(***************************************************************************)
Touch(t, r) ==
    /\ stack[t] = <<>>
    /\ r \in handed
    /\ \/ PageFault(t, r)
       \/ target[t] = None /\ addr_hndl_map[r] = None /\ Dies
    /\ UNCHANGED preVars

-----------------------------------------------------------------------------
InitStep(t) ==
    \/ InitLock(t) \/ InitFlag(t) \/ InitConnects(t) \/ InitFails(t) \/ InitDone(t)

MallocStep(t) ==
    /\ ~killed
    /\ \/ TestLocal(t) \/ Hook(t) \/ CheckFd(t) \/ InitStep(t) \/ CheckConnReturns(t)
       \/ IsMain(t) \/ MallocLock(t) \/ CallsAlloc(t) \/ AllocReturns(t)
       \/ UnlockByHand(t) \/ ClearFlag(t) \/ GuardEnds(t)

\* The library, the handlers and the server go on by themselves.
Library ==
    \/ \E t \in Threads : Allocation(t)
    \/ \E r \in Regions : Handler(r)
    \/ connection_handler

Next ==
    \/ \E t \in Threads :
          \/ ~killed /\ Malloc(t)
          \/ MallocStep(t)
          \/ ~killed /\ \E r \in Regions : Touch(t, r)
    \/ Library /\ UNCHANGED preVars

Spec == Init /\ [][Next]_vars

(***************************************************************************)
(* Threads that can run are scheduled, here and on the server.  The        *)
(* program need not call malloc or touch its memory.                       *)
(***************************************************************************)
Fairness ==
    /\ \A t \in Threads : WF_vars(MallocStep(t)) /\ WF_vars(Allocation(t) /\ UNCHANGED preVars)
    /\ \A r \in Regions : WF_vars(Handler(r) /\ UNCHANGED preVars)
    /\ WF_vars(connection_handler /\ UNCHANGED preVars)

FairSpec == Spec /\ Fairness

-----------------------------------------------------------------------------
(***************************************************************************)
(* Properties.                                                             *)
(***************************************************************************)

(***************************************************************************)
(* A local allocation has the C library's malloc to go to: the branch of   *)
(* local_malloc that returns NULL because nothing is hooked yet is never   *)
(* taken, whichever thread set the flag.                                   *)
(***************************************************************************)
LocalIsHooked == do_local_allocation => hooked

\* Two threads have found rmp_fd to be -1 and are in rmp_conn_init.
InConnInit(t) ==
    \E i \in 1 .. Len(stack[t]) :
        stack[t][i] \in {"init_lock", "init_flag", "init_conn", "init_done"}

Contended == \E t, u \in Threads : t # u /\ InConnInit(t) /\ InConnInit(u)

(***************************************************************************)
(* malloc returns to its caller: no thread is left waiting for the mutex,  *)
(* for itself or for the server, whichever threads connect or fail to, one *)
(* after the other, and although the mutex is unlocked twice.  Two threads *)
(* in rmp_conn_init at once may wait for ever: the second replaces the     *)
(* socket by one the server never accepts, and the flag the first clears   *)
(* without the mutex sends the second to the mutex it holds.               *)
(***************************************************************************)
MallocReturns ==
    []~Contended => \A t \in Threads : stack[t] # <<>> ~> stack[t] = <<>>

(***************************************************************************)
(* While the connection stands, a thread that leaves recv has the answer   *)
(* to its own request: a fault "will be resolved by requesting the server  *)
(* by sending the appropriate handle" (README.md).                         *)
(***************************************************************************)
ConnectedAnswersOwn == socketfd # 0 => AnswersOwn
=============================================================================
