------------------------------- MODULE Memory -------------------------------
(***************************************************************************)
(* What RMP promises an application: "Reading and writing is done just     *)
(* like a variable access in C" (README.md).  Threads issue loads and      *)
(* stores of words, and a load returns what was stored last.               *)
(***************************************************************************)

CONSTANTS Threads, Addr, Words, Values, Zero, Accesses, None

VARIABLES
    acc,  \* the access a thread is executing, or None
    got,  \* what the last load of a thread returned
    mem   \* the memory

vars == <<acc, got, mem>>

Init ==
    /\ acc = [t \in Threads |-> None]
    /\ got = [t \in Threads |-> Zero]
    /\ mem = [a \in Addr |-> [w \in Words |-> Zero]]

Issue(t, a) ==
    /\ acc[t] = None
    /\ acc' = [acc EXCEPT ![t] = a]
    /\ UNCHANGED <<got, mem>>

Load(t) ==
    /\ acc[t] # None
    /\ acc[t].op = "load"
    /\ got' = [got EXCEPT ![t] = mem[acc[t].addr][acc[t].word]]
    /\ acc' = [acc EXCEPT ![t] = None]
    /\ UNCHANGED mem

Store(t) ==
    /\ acc[t] # None
    /\ acc[t].op = "store"
    /\ mem' = [mem EXCEPT ![acc[t].addr][acc[t].word] = acc[t].val]
    /\ acc' = [acc EXCEPT ![t] = None]
    /\ UNCHANGED got

Next ==
    \E t \in Threads :
        \/ \E a \in Accesses : Issue(t, a)
        \/ Load(t)
        \/ Store(t)

Spec == Init /\ [][Next]_vars
=============================================================================
