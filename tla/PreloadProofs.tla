---------------------------- MODULE PreloadProofs ----------------------------
(***************************************************************************)
(* A theorem about the interposed malloc, for any number of threads.       *)
(***************************************************************************)
EXTENDS Preload, SequenceTheorems, TLAPS

\* Where a call of malloc can be.
Steps == {"test", "hook", "fd", "init_lock", "init_flag", "init_conn", "init_done", "ret", "self",
          "lock", "flag", "alloc", "unlock", "clear", "guard"}

\* What a step of malloc puts in its own place: the next step, a nested call, or nothing.
Rests == {<<>>, <<"hook">>, <<"fd">>, <<"init_lock">>, <<"self">>, <<"init_flag">>,
          <<"test", "init_conn">>, <<"init_done">>, <<"ret">>, <<"lock">>, <<"flag">>, <<"alloc">>,
          <<"test", "unlock">>, <<"clear">>, <<"guard">>}

\* Short tuples are sequences.
LEMMA Short ==
  ASSUME NEW S, NEW a \in S, NEW b \in S
  PROVE  <<>> \in Seq(S) /\ <<a>> \in Seq(S) /\ <<a, b>> \in Seq(S)
  OBVIOUS

\* Every such replacement is a sequence of steps.
LEMMA RestsAreSteps == Rests \subseteq Seq(Steps)
  <1>1. {"test", "hook", "fd", "init_lock", "self", "init_flag", "init_conn", "init_done", "ret",
         "lock", "flag", "alloc", "unlock", "clear", "guard"} \subseteq Steps
    BY DEF Steps
  <1> QED BY <1>1, Short DEF Rests

(***************************************************************************)
(* A step of a call of malloc: its own step is replaced, what is below it  *)
(* on the stack stays, and so do the stacks of the other threads.          *)
(***************************************************************************)
LEMMA MovedStack ==
  ASSUME stack \in [Threads -> Seq(Steps)], NEW t \in Threads, NEW from,
         NEW rest \in Seq(Steps), Moves(t, from, rest)
  PROVE  /\ stack' \in [Threads -> Seq(Steps)]
         /\ stack'[t] = rest \o Tail(stack[t])
         /\ stack[t] # <<>> /\ Head(stack[t]) = from
         /\ \A u \in Threads \ {t} : stack'[u] = stack[u]
  <1>1. stack[t] \in Seq(Steps) /\ stack[t] # <<>> /\ Head(stack[t]) = from
    BY DEF Moves
  <1>2. rest \o Tail(stack[t]) \in Seq(Steps)
    <2>1. Tail(stack[t]) \in Seq(Steps)
      BY <1>1
    <2> QED BY <2>1
  <1>3. stack' = [stack EXCEPT ![t] = rest \o Tail(stack[t])]
    BY DEF Moves
  <1> QED BY <1>1, <1>2, <1>3

-----------------------------------------------------------------------------
(***************************************************************************)
(* The C library's functions are hooked once some call of malloc is past   *)
(* the first lines of check_conn.                                          *)
(***************************************************************************)
HookInv ==
    /\ stack \in [Threads -> Seq(Steps)]
    /\ hooked \in BOOLEAN /\ do_local_allocation \in BOOLEAN
    /\ \A t \in Threads : \A i \in 1 .. Len(stack[t]) :
          stack[t][i] \notin {"test", "hook"} => hooked
    /\ LocalIsHooked

\* A thread moves on; if that takes its call past check_conn's hooking, hooked is set.
LEMMA HookedMove ==
  ASSUME HookInv, NEW t \in Threads, NEW from, NEW rest \in Seq(Steps), Moves(t, from, rest),
         hooked' \in BOOLEAN, do_local_allocation' \in BOOLEAN,
         hooked => hooked',
         do_local_allocation' => hooked',
         \A j \in 1 .. Len(rest) : rest[j] \notin {"test", "hook"} => hooked'
  PROVE  HookInv'
  <1>1. /\ stack' \in [Threads -> Seq(Steps)]
        /\ stack'[t] = rest \o Tail(stack[t])
        /\ stack[t] # <<>>
        /\ \A u \in Threads \ {t} : stack'[u] = stack[u]
    BY MovedStack DEF HookInv
  <1>2. ASSUME NEW i \in 1 .. Len(stack'[t]), stack'[t][i] \notin {"test", "hook"}
        PROVE  hooked'
    <2>1. stack[t] \in Seq(Steps)
      BY DEF HookInv
    <2>2. CASE i \in 1 .. Len(rest)
      BY <1>1, <1>2, <2>1, <2>2
    <2>3. CASE i \notin 1 .. Len(rest)
      <3> DEFINE j == i - Len(rest) + 1
      <3>1. j \in 1 .. Len(stack[t]) /\ stack'[t][i] = stack[t][j]
        BY <1>1, <2>1, <2>3
      <3> QED BY <1>2, <3>1 DEF HookInv
    <2> QED BY <2>2, <2>3
  <1>3. ASSUME NEW u \in Threads, NEW i \in 1 .. Len(stack'[u]), stack'[u][i] \notin {"test", "hook"}
        PROVE  hooked'
    BY <1>1, <1>2, <1>3 DEF HookInv
  <1> QED BY <1>1, <1>3 DEF HookInv, LocalIsHooked

\* A call that is past the hooking is at one of the later steps, so hooked is set.
LEMMA PastHook ==
  ASSUME HookInv, NEW t \in Threads, NEW from, stack[t] # <<>>, Head(stack[t]) = from,
         from \notin {"test", "hook"}
  PROVE  hooked
  <1>1. stack[t] \in Seq(Steps) /\ 1 \in 1 .. Len(stack[t]) /\ stack[t][1] = from
    BY DEF HookInv
  <1> QED BY <1>1 DEF HookInv

\* Every step of malloc keeps it.
LEMMA HookNext ==
  ASSUME HookInv, [Next]_vars
  PROVE  HookInv'
  <1>1. ASSUME NEW t \in Threads, Malloc(t)
        PROVE  HookInv'
    <2>1. UNCHANGED <<hooked, do_local_allocation>> /\ stack' = [stack EXCEPT ![t] = <<"test">>]
      BY <1>1 DEF Malloc, flags
    <2>2. \A u \in Threads \ {t} : stack'[u] = stack[u]
      BY <2>1 DEF HookInv
    <2>3. stack'[t] = <<"test">> /\ stack' \in [Threads -> Seq(Steps)]
      <3>1. "test" \in Steps
        BY DEF Steps
      <3>2. <<"test">> \in Seq(Steps)
        BY <3>1, Short
      <3> QED BY <2>1, <3>2 DEF HookInv
    <2> QED BY <2>1, <2>2, <2>3 DEF HookInv, LocalIsHooked
  <1>2. ASSUME NEW t \in Threads, TestLocal(t)
        PROVE  HookInv'
    <2>1. hooked' = (hooked \/ do_local_allocation) /\ do_local_allocation' = do_local_allocation
      BY <1>2 DEF TestLocal
    <2>2. PICK rest \in {<<>>, <<"hook">>} : Moves(t, "test", rest)
      BY <1>2 DEF TestLocal, Goto
    <2>3. rest \in Seq(Steps) /\ \A j \in 1 .. Len(rest) : rest[j] \in {"test", "hook"}
      <3>1. CASE rest = <<>>
        BY <3>1
      <3>2. CASE rest = <<"hook">>
        <4>1. "hook" \in Steps
          BY DEF Steps
        <4>2. rest \in Seq(Steps)
          BY <3>2, <4>1, Short
        <4> QED BY <3>2, <4>2
      <3> QED BY <3>1, <3>2
    <2>4. hooked' \in BOOLEAN /\ do_local_allocation' \in BOOLEAN /\ (hooked => hooked')
          /\ (do_local_allocation' => hooked')
      BY <2>1 DEF HookInv
    <2> QED BY <2>2, <2>3, <2>4, HookedMove
  <1>3. ASSUME NEW t \in Threads, Hook(t)
        PROVE  HookInv'
    <2>1. hooked' = TRUE /\ do_local_allocation' = do_local_allocation /\ Moves(t, "hook", <<"fd">>)
      BY <1>3 DEF Hook, Goto
    <2>2. do_local_allocation' \in BOOLEAN
      BY <2>1 DEF HookInv
    <2>3. <<"fd">> \in Seq(Steps)
      <3>1. "fd" \in Steps
        BY DEF Steps
      <3> QED BY <3>1, Short
    <2> QED BY <2>1, <2>2, <2>3, HookedMove
  <1>4. ASSUME NEW t \in Threads, NEW from, from \notin {"test", "hook"}, NEW rest \in Seq(Steps),
               Moves(t, from, rest), hooked' = hooked, do_local_allocation' \in BOOLEAN
        PROVE  HookInv'
    <2>1. hooked
      BY <1>4, MovedStack, PastHook DEF HookInv
    <2>2. hooked' \in BOOLEAN
      BY <1>4 DEF HookInv
    <2> QED BY <1>4, <2>1, <2>2, HookedMove
  <1>5. ASSUME NEW t \in Threads,
               \/ CheckFd(t) \/ InitStep(t) \/ CheckConnReturns(t) \/ IsMain(t) \/ MallocLock(t)
               \/ CallsAlloc(t) \/ AllocReturns(t) \/ UnlockByHand(t) \/ ClearFlag(t) \/ GuardEnds(t)
        PROVE  HookInv'
    <2>1. do_local_allocation' \in BOOLEAN /\ hooked' = hooked
      BY <1>5
      DEF CheckFd, InitStep, InitLock, InitFlag, InitConnects, InitFails, InitDone, InitEnds,
          CheckConnReturns, IsMain, MallocLock, CallsAlloc, AllocReturns, UnlockByHand, Unlock,
          ClearFlag, GuardEnds, flags, HookInv
    <2> DEFINE Froms == {"fd", "init_lock", "init_flag", "init_conn", "init_done", "ret", "self",
                         "lock", "flag", "alloc", "unlock", "clear", "guard"}
    <2>2. PICK from \in Froms, rest \in Rests : Moves(t, from, rest)
      BY <1>5
      DEF CheckFd, InitStep, InitLock, InitFlag, InitConnects, InitFails, InitDone, InitEnds,
          CheckConnReturns, IsMain, MallocLock, CallsAlloc, AllocReturns, UnlockByHand, Unlock,
          ClearFlag, GuardEnds, Goto, Rests
    <2>3. rest \in Seq(Steps)
      BY RestsAreSteps
    <2>4. from \notin {"test", "hook"}
      OBVIOUS
    <2> QED BY <1>4, <2>1, <2>2, <2>3, <2>4
  <1>6. ASSUME UNCHANGED preVars
        PROVE  HookInv'
    BY <1>6 DEF preVars, flags, HookInv, LocalIsHooked
  <1>7. ASSUME NEW t \in Threads, MallocStep(t)
        PROVE  HookInv'
    BY <1>2, <1>3, <1>5, <1>7 DEF MallocStep
  <1>8. CASE (Library /\ UNCHANGED preVars) \/ \E t \in Threads, r \in Regions : Touch(t, r)
    BY <1>6, <1>8 DEF Touch
  <1>9. CASE UNCHANGED vars
    BY <1>6, <1>9 DEF vars
  <1> QED BY <1>1, <1>6, <1>7, <1>8, <1>9 DEF Next

\* Nothing is hooked and no thread is in malloc at first.
LEMMA HookInit == Init => HookInv
  <1> SUFFICES ASSUME Init PROVE HookInv
    OBVIOUS
  <1>1. stack \in [Threads -> Seq(Steps)] /\ \A t \in Threads : stack[t] = <<>>
    BY DEF Init
  <1>2. ASSUME NEW t \in Threads PROVE Len(stack[t]) = 0
    <2>1. stack[t] \in Seq(Steps) /\ stack[t] = <<>>
      BY <1>1
    <2> QED BY <2>1, EmptySeq
  <1>3. hooked = FALSE /\ do_local_allocation = FALSE
    BY DEF Init
  <1>4. ASSUME NEW t \in Threads, NEW i \in 1 .. Len(stack[t]) PROVE FALSE
    BY <1>2
  <1> QED BY <1>1, <1>3, <1>4 DEF HookInv, LocalIsHooked

(***************************************************************************)
(* Whichever thread sets the flag and whichever sees it, local_malloc      *)
(* finds the C library's malloc: it never returns NULL for want of it.     *)
(***************************************************************************)
THEOREM LocalAllocationsAreHooked == Spec => []LocalIsHooked
  <1>1. HookInv => LocalIsHooked
    BY DEF HookInv
  <1> QED BY <1>1, HookInit, HookNext, PTL DEF Spec
=============================================================================
