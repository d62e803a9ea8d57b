----------------------------- MODULE UffdRegions -----------------------------
(***************************************************************************)
(* UffdMan with programs that give regions back.                           *)
(* uffdman_unregister_region saves and drops the page that the region's    *)
(* entry in the uffd_prev_resolved maps names, erases the region from the  *)
(* maps and cancels its handler thread, which happens when that thread     *)
(* next waits in poll.  It takes no lock and looks at no handler, so it    *)
(* runs beside a handler that has mapped a page and woken the program but  *)
(* has not recorded the page yet.                                          *)
(*                                                                         *)
(* Two things are asked of the program, as by rmp_alloc: no thread is in   *)
(* the middle of an access or starts anything while another is in the      *)
(* call, whose exchange with the server is not under fault_handler_cr; and *)
(* no thread touches a region that was given back.                         *)
(***************************************************************************)
EXTENDS UffdMan

\* A call of uffdman_unregister_region: what it found in the maps, what it does next.
Steps == {"save", "drop", "erase"}
Call == [by : Threads, region : Regions, entry : Fault \cup {None}, step : Steps]

ASSUME UffdRegionsAssumption == None \notin Call

VARIABLES
    gone,     \* regions that start_addr_uffd_map had and has no more
    unreg,    \* the call under way, or None
    up,       \* FALSE once a data race on the maps has struck
    overtook  \* regions whose call read the maps before the handler had recorded

callVars == <<gone, unreg, up, overtook>>
regionVars == <<vars, callVars>>

RegionInit ==
    /\ Init
    /\ gone = {}
    /\ unreg = None
    /\ up = TRUE
    /\ overtook = {}

\* The handlers write the unordered_maps under the mutex, the call uses them without: when
\* both do at once, the behaviour is undefined and the model says nothing more.
DataRace ==
    /\ \E r \in Regions : pc[r] = "record"
    /\ up' = FALSE
    /\ UNCHANGED <<vars, gone, unreg, overtook>>

\* What invalidate_prev_resolved_page does with an entry, if there is one.
FirstStep(entry) ==
    CASE entry = None -> "erase"
      [] entry # None /\ entry.op = "store" -> "save"
      [] entry # None /\ entry.op = "load" -> "drop"

Calling(r) ==
    /\ unreg = None
    /\ \A u \in Threads : tstate[u] = "idle"
    /\ reg[r] = "watched" /\ r \notin gone

Begin(t, r, entry, step) ==
    /\ unreg' = [by |-> t, region |-> r, entry |-> entry, step |-> step]
    /\ overtook' = IF pc[r] = "record" THEN overtook \cup {r} ELSE overtook
    /\ UNCHANGED <<vars, gone, up>>

\* Bug: the maps are erased before the page is looked up in them.
LookTooLate(t, r) == Begin(t, r, None, "erase")

\* Bug: the page is taken for clean.
LookWithoutOp(t, r) == Begin(t, r, prev[r], IF prev[r] = None THEN "erase" ELSE "drop")

\* The three find() and at() of invalidate_prev_resolved_page.
Look(t, r) == Begin(t, r, prev[r], FirstStep(prev[r]))

\* A region that is in start_addr_uffd_map; for any other the function returns at once.
uffdman_unregister_region(t, r) == Calling(r) /\ (Look(t, r) \/ DataRace)

At(step) == unreg # None /\ unreg.step = step /\ tstate[unreg.by] = "idle"

(***************************************************************************)
(* rmp_write_page reads the page before it sends anything.  If the handler *)
(* has dropped it already, which it has when the call overtook it, the     *)
(* caller faults like any load and sleeps until that handler, once it has  *)
(* recorded the newer page, brings the older one back.                     *)
(***************************************************************************)
ReadMissing ==
    /\ At("save")
    /\ unreg.entry.addr \notin resident
    /\ \E w \in Words :
          Issue(unreg.by, [op |-> "load", addr |-> unreg.entry.addr, word |-> w, val |-> Zero])
    /\ UNCHANGED callVars

\* page_resolver: as in UffdMan, the server refuses a page outside the region.
Save ==
    /\ At("save")
    /\ unreg.entry.addr \in resident
    /\ remote' = IF unreg.entry.addr[1] = unreg.region
                 THEN [remote EXCEPT ![unreg.entry.addr] = local[unreg.entry.addr]]
                 ELSE remote
    /\ unreg' = [unreg EXCEPT !.step = "drop"]
    /\ UNCHANGED <<appVars, pageVars, statics, locals, pc, mem, gone, up, overtook>>

\* madvise(MADV_DONTNEED)
Drop ==
    /\ At("drop")
    /\ resident' = resident \ {unreg.entry.addr}
    /\ local' = [local EXCEPT ![unreg.entry.addr] = ZeroPage]
    /\ unreg' = [unreg EXCEPT !.step = "erase"]
    /\ UNCHANGED <<appVars, statics, locals, pc, remote, mem, gone, up, overtook>>

\* The region leaves the maps and pthread_cancel is called.  addr_tid_map.erase(tid) has the
\* wrong key and erases nothing, which nobody sees: start_addr_uffd_map is looked up first.
Forget ==
    /\ gone' = gone \cup {unreg.region}
    /\ prev' = [prev EXCEPT ![unreg.region] = None]
    /\ unreg' = None
    /\ UNCHANGED <<appVars, pageVars, msg, page, fault_handler_cr, locals, pc, remote, mem,
                   up, overtook>>

Erase == At("erase") /\ (Forget \/ DataRace)

Unregistering == ReadMissing \/ Save \/ Drop \/ Erase

\* Bug: pthread_cancel is called before the page is saved.
CancelledFirst(r) ==
    (r \in gone \/ (unreg # None /\ unreg.region = r)) /\ Goto(r, "poll", "dead")

\* pthread_cancel takes effect in poll; without DEBUG_PRINTS nothing before it can be cancelled.
Cancelled(r) == r \in gone /\ Goto(r, "poll", "dead")

Program(t) ==
    \/ /\ unreg = None
       /\ \/ \E r \in Regions, outcome \in RegisterOutcomes : rmp_alloc(t, r, outcome)
          \/ \E a \in Accesses : a.addr[1] \notin gone /\ Issue(t, a)
    \/ Execute(t)

RegionNext ==
    /\ up
    /\ \/ \E t \in Threads :
             \/ Program(t) /\ UNCHANGED callVars
             \/ \E r \in Regions : uffdman_unregister_region(t, r)
       \/ \E r \in Regions : (Handler(r) \/ Cancelled(r)) /\ UNCHANGED callVars
       \/ Unregistering

RegionSpec == RegionInit /\ [][RegionNext]_regionVars

\* As in UffdMan: threads that can run are scheduled, also inside the call.
RegionFairness ==
    /\ \A t \in Threads : WF_regionVars(up /\ Execute(t) /\ UNCHANGED callVars)
    /\ \A r \in Regions :
          WF_regionVars(up /\ (Handler(r) \/ Cancelled(r)) /\ UNCHANGED callVars)
    /\ WF_regionVars(up /\ Unregistering)

FairRegionSpec == RegionSpec /\ RegionFairness

-----------------------------------------------------------------------------
(***************************************************************************)
(* Properties.                                                             *)
(***************************************************************************)

(***************************************************************************)
(* "If no page fault occurs after resolving a write then invalidate during *)
(* unregistration" (uffdman.cpp).  The code does not always do that: a     *)
(* call that comes between UFFDIO_COPY and the handler's update of the     *)
(* maps leaves the page mapped and unsaved.  But that is the only way: a   *)
(* page stays mapped in a region that was given back only if its call came *)
(* there, whatever handlers and program do while the call runs.            *)
(***************************************************************************)
LeftOnlyIfOvertaken == \A a \in resident : a[1] \in gone => a[1] \in overtook

(***************************************************************************)
(* Whoever drops a page, the handler at the next fault or the program that *)
(* unregisters: if it was resolved for a store, the server holds it, to    *)
(* the last word, when it goes.                                            *)
(***************************************************************************)
DroppedStoresAreSaved ==
    [][\A a \in resident \ resident' :
          prev[a[1]] = [addr |-> a, op |-> "store"] => remote'[a] = local[a]]_regionVars

(***************************************************************************)
(* uffdman_unregister_region returns, also when it overtakes the handler   *)
(* and faults on a page that the handler dropped: it cancels the handler   *)
(* only after the last step that needs it.                                 *)
(***************************************************************************)
UnregisterReturns == unreg # None ~> unreg = None \/ ~up
=============================================================================
