------------------------------ MODULE WholePage ------------------------------
(***************************************************************************)
(* Programs that write whole pages.  Off-by-one invalidation fetches       *)
(* nothing for a store fault and saves nothing that a load brought in, so  *)
(* it serves only programs that access every region like client.cpp does,  *)
(* page after page: a page entered with a store is overwritten to its last *)
(* word before the program loads an unwritten word of it or goes to        *)
(* another page of the region, and a page entered with a load is not       *)
(* stored to before the program has been to another page of the region.    *)
(* This module composes such a program with UffdMan.                       *)
(***************************************************************************)
EXTENDS UffdMan

VARIABLES
    cur,   \* the page the program is on in each region, and how it came there
    stale  \* words of it that the program must still overwrite

progVars == <<cur, stale>>
wpVars == <<vars, progVars>>

WPInit ==
    /\ Init
    /\ cur = [r \in Regions |-> None]
    /\ stale = [r \in Regions |-> {}]

OnPage(a) == cur[a.addr[1]] # None /\ cur[a.addr[1]].addr = a.addr

\* The loops of client.cpp, any order of pages, words, regions and passes.
Disciplined(a) ==
    LET r == a.addr[1] IN
    \/ OnPage(a) /\ a.op = "store" /\ cur[r].op = "store"
    \/ OnPage(a) /\ a.op = "load" /\ a.word \notin stale[r]
    \/ ~OnPage(a) /\ stale[r] = {}

WPIssue(t, a) ==
    /\ Issue(t, a)
    /\ Disciplined(a)
    /\ IF OnPage(a)
       THEN UNCHANGED progVars
       ELSE /\ cur' = [cur EXCEPT ![a.addr[1]] = [addr |-> a.addr, op |-> a.op]]
            /\ stale' = [stale EXCEPT ![a.addr[1]] = IF a.op = "store" THEN Words ELSE {}]

WPStore(t) ==
    /\ Store(t)
    /\ stale' = [stale EXCEPT ![acc[t].addr[1]] = @ \ {acc[t].word}]
    /\ UNCHANGED cur

WPExecute(t) ==
    \/ (Load(t) \/ PageFault(t)) /\ UNCHANGED progVars
    \/ WPStore(t)

WPNext ==
    \/ \E t \in Threads :
          \/ \E r \in Regions, outcome \in RegisterOutcomes :
                rmp_alloc(t, r, outcome) /\ UNCHANGED progVars
          \/ \E a \in Accesses : WPIssue(t, a)
          \/ WPExecute(t)
    \/ (\E r \in Regions : Handler(r)) /\ UNCHANGED progVars

WPSpec == WPInit /\ [][WPNext]_wpVars

-----------------------------------------------------------------------------
(***************************************************************************)
(* The memory that the paging stands for, put together from the two places *)
(* a word can be in: the page mapped here, or the server while no page is  *)
(* mapped and for the words of a page, mapped for a store, that still hold *)
(* what the buffer held.                                                   *)
(***************************************************************************)
Unwritten(a) == IF cur[a[1]] # None /\ cur[a[1]].addr = a THEN stale[a[1]] ELSE {}

memBar ==
    [a \in Addr |-> [w \in Words |->
        IF a \in resident /\ (Watched(a) => w \notin Unwritten(a))
        THEN local[a][w]
        ELSE remote[a][w]]]

M == INSTANCE Memory WITH mem <- memBar

(***************************************************************************)
(* For these programs the paging is invisible: with one application thread *)
(* client and server together are a memory that loads and stores of the    *)
(* program act on and that no save, drop, fetch or UFFDIO_COPY changes,    *)
(* although each of them moves a page or overwrites the shared buffer.     *)
(***************************************************************************)
IsMemory == M!Spec
=============================================================================
