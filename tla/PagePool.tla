------------------------------ MODULE PagePool ------------------------------
(***************************************************************************)
(* What the RMP server promises its clients: a pool of allocations, each a *)
(* handle with its pages, on which every request acts at once, exactly     *)
(* once, between the moment it is sent and the moment it is answered.      *)
(***************************************************************************)
EXTENDS Naturals

CONSTANTS Clients, Requests, Blank, Handles, Zero

VARIABLES
    pool,  \* function from the live handles to their pages
    pkt,   \* the request or the answer of a client, Blank between exchanges
    st     \* "idle", "asked" (sent, not yet effective) or "done"

vars == <<pool, pkt, st>>

Init ==
    /\ pool = [h \in {} |-> 0]
    /\ pkt = [c \in Clients |-> Blank]
    /\ st = [c \in Clients |-> "idle"]

Ask(c, request) ==
    /\ st[c] = "idle"
    /\ pkt' = [pkt EXCEPT ![c] = request]
    /\ st' = [st EXCEPT ![c] = "asked"]
    /\ UNCHANGED pool

Live(h) == h \in DOMAIN pool
InRange(h, offset) == Live(h) /\ offset \in DOMAIN pool[h]

\* The request takes effect: the pool becomes newPool, the packet its answer.
Effect(c, answer, newPool) ==
    /\ pkt' = [pkt EXCEPT ![c] = answer]
    /\ pool' = newPool
    /\ st' = [st EXCEPT ![c] = "done"]

Refuse(c, error) == Effect(c, [pkt[c] EXCEPT !.error = error], pool)

Map(c) ==
    \/ Refuse(c, "ALLOC_FAILED")
    \/ \E h \in Handles \ DOMAIN pool :
          Effect(c, [pkt[c] EXCEPT !.hndl = h],
                 [x \in DOMAIN pool \cup {h} |->
                     IF x = h THEN [i \in 0 .. pkt[c].npages - 1 |-> Zero] ELSE pool[x]])

Get(c) ==
    LET h == pkt[c].hndl  o == pkt[c].offset IN
    \/ ~Live(h) /\ Refuse(c, "INVALID_HANDLE")
    \/ Live(h) /\ ~InRange(h, o) /\ Refuse(c, "READ_FAILED")
    \/ InRange(h, o) /\ Effect(c, [pkt[c] EXCEPT !.data = pool[h][o]], pool)

Put(c) ==
    LET h == pkt[c].hndl  o == pkt[c].offset IN
    \/ ~Live(h) /\ Refuse(c, "INVALID_HANDLE")
    \/ Live(h) /\ ~InRange(h, o) /\ Refuse(c, "WRITE_FAILED")
    \/ InRange(h, o) /\ Effect(c, pkt[c], [pool EXCEPT ![h][o] = pkt[c].data])

Free(c) ==
    LET h == pkt[c].hndl IN
    \/ ~Live(h) /\ Refuse(c, "INVALID_HANDLE")
    \/ Live(h) /\ Effect(c, pkt[c], [x \in DOMAIN pool \ {h} |-> pool[x]])

Act(c) ==
    /\ st[c] = "asked"
    /\ CASE pkt[c].action = "map" -> Map(c)
         [] pkt[c].action = "get" -> Get(c)
         [] pkt[c].action = "put" -> Put(c)
         [] pkt[c].action = "free" -> Free(c)
         [] OTHER -> Refuse(c, "UNKNOWN_ACTION")

Answer(c) ==
    /\ st[c] = "done"
    /\ st' = [st EXCEPT ![c] = "idle"]
    /\ pkt' = [pkt EXCEPT ![c] = Blank]
    /\ UNCHANGED pool

Next ==
    \E c \in Clients :
        \/ \E request \in Requests : Ask(c, request)
        \/ Act(c)
        \/ Answer(c)

Spec == Init /\ [][Next]_vars
=============================================================================
