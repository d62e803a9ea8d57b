------------------------------ MODULE RmpClient ------------------------------
(***************************************************************************)
(* The client library of RMP and its TCP connection: rmp_init, rmp_alloc   *)
(* and the exchanges that the fault handler threads make through           *)
(* rmp_write_page and rmp_read_page, all on the one global socketfd, and   *)
(* the connection_handler of the server at the other end.                  *)
(*                                                                         *)
(* TCP is a stream: send puts a packet of PacketLen units into it, and one *)
(* recv returns any number of the units that have arrived.  Both sides     *)
(* take what one recv returns for a packet.  The server answers in place:  *)
(* it sends back the buffer it received into, so that a unit is named by   *)
(* the request and the position it comes from, in either direction.        *)
(***************************************************************************)
EXTENDS Naturals, Sequences

CONSTANTS
    Threads,      \* application threads
    Regions,      \* regions the application may allocate, and their handlers
    PacketLen,    \* units of a packet
    MaxTorn,      \* bound: recvs that return less than a packet although one was sent
    MaxConns,     \* bound: connections made
    MaxRequests,  \* bound: packets sent
    AllocAlone,   \* the program accesses no region while a thread is in rmp_alloc
    ServerFaults, \* "refuses": mmap fails on the server; "dies": it ends at any time
    Junk,         \* uninitialised memory
    None

Users == Threads \cup Regions
Kinds == {"map", "get", "put"}
Conns == 1 .. MaxConns
Ids == 1 .. MaxRequests
Unit == Ids \X (1 .. PacketLen)
Buffer == [1 .. PacketLen -> Unit \cup {Junk}]
Packet(n) == [i \in 1 .. PacketLen |-> <<n, i>>]
Garbage == [i \in 1 .. PacketLen |-> Junk]

\* What a handler exchanges under the mutex for one fault: it saves the previous
\* page if that was resolved for a store, and fetches the new one for a load.
FaultPlans == {<<"put">>, <<"get">>, <<"put", "get">>}

ASSUME RmpClientAssumption ==
    /\ PacketLen \in Nat \ {0}
    /\ MaxTorn \in Nat
    /\ MaxConns \in Nat \ {0} /\ MaxRequests \in Nat
    /\ AllocAlone \in BOOLEAN
    /\ ServerFaults \subseteq {"refuses", "dies"}
    /\ Threads \cap Regions = {}
    /\ None \notin Users \cup Ids \cup {Junk}
    /\ Junk \notin (Nat \X (1 .. PacketLen)) \cup Ids

VARIABLES
    \* globals of rmp_client.cpp and uffdman.cpp
    socketfd,         \* the connection in use, 0 before rmp_init
    addr_hndl_map,    \* handle of a region: the id of the request it was granted to
    fault_handler_cr, \* holder of the mutex
    \* each thread of the client
    pc,               \* "idle", "lock", "send", "recv" or "use"
    plan,             \* kinds of the exchanges it has still to make
    target,           \* region an rmp_alloc is for; region whose fault it sleeps on
    my,               \* id of its last request
    return_pkt,       \* what its recv filled
    \* the connections and the server
    opened,           \* connections made so far
    c2s, s2c,         \* units under way
    req,              \* the packet of connection_handler
    spc,              \* "recv", "send" or "down"
    granted,          \* requests the server allocated for
    \* history and bounds
    sent,             \* the requests, in the order of their ids
    tears,            \* recvs that may still return less than a packet
    left,             \* requests that may still be started
    killed            \* the client process got SIGPIPE

libVars == <<socketfd, addr_hndl_map>>
userVars == <<pc, plan, target, my, return_pkt>>
netVars == <<opened, c2s, s2c>>
srvVars == <<req, spc, granted>>
wireVars == <<libVars, fault_handler_cr, userVars, netVars, srvVars, sent, tears, left, killed>>

WireInit ==
    /\ socketfd = 0
    /\ addr_hndl_map = [r \in Regions |-> None]
    /\ fault_handler_cr = None
    /\ pc = [x \in Users |-> "idle"]
    /\ plan = [x \in Users |-> <<>>]
    /\ target = [t \in Threads |-> None]
    /\ my = [x \in Users |-> 0]
    /\ return_pkt = [x \in Users |-> Garbage]
    /\ opened = 0
    /\ c2s = [k \in Conns |-> <<>>]
    /\ s2c = [k \in Conns |-> <<>>]
    /\ req = Garbage
    /\ spc = "recv"
    /\ granted = {}
    /\ sent = <<>>
    /\ tears = MaxTorn
    /\ left = MaxRequests
    /\ killed = FALSE

-----------------------------------------------------------------------------
(***************************************************************************)
(* The stream.                                                             *)
(***************************************************************************)

\* The most units one recv can return from stream s.
Most(s) == IF Len(s) < PacketLen THEN Len(s) ELSE PacketLen

\* The numbers of units it may return.
Pieces(s) == IF s = <<>> THEN {} ELSE IF tears > 0 THEN 1 .. Most(s) ELSE {Most(s)}

\* A recv of k units from stream s.
Took(k, s) == tears' = IF k < Most(s) THEN tears - 1 ELSE tears

\* A buffer after a recv of k units of s into it.
Filled(buffer, s, k) == [i \in 1 .. PacketLen |-> IF i <= k THEN s[i] ELSE buffer[i]]

Rest(s, k) == SubSeq(s, k + 1, Len(s))

-----------------------------------------------------------------------------
(***************************************************************************)
(* The threads of the client.                                              *)
(***************************************************************************)

\* rmp_init that connects: the global socket and the maps are replaced.
rmp_init ==
    /\ opened < MaxConns
    /\ opened' = opened + 1
    /\ socketfd' = opened + 1
    /\ addr_hndl_map' = [r \in Regions |-> None]
    /\ UNCHANGED <<fault_handler_cr, userVars, c2s, s2c, srvVars, sent, tears, left, killed>>

\* rmp_alloc up to its send.  Without a connection, or when mmap fails, it returns.
rmp_alloc(t, r) ==
    /\ socketfd # 0
    /\ pc[t] = "idle" /\ target[t] = None
    /\ addr_hndl_map[r] = None
    /\ \A u \in Threads : target[u] # r
    /\ AllocAlone => \A x \in Users : pc[x] = "idle"
    /\ left > 0
    /\ left' = left - 1
    /\ pc' = [pc EXCEPT ![t] = "send"]
    /\ plan' = [plan EXCEPT ![t] = <<"map">>]
    /\ target' = [target EXCEPT ![t] = r]
    /\ UNCHANGED <<libVars, fault_handler_cr, my, return_pkt, netVars, srvVars, sent, tears, killed>>

\* An access of thread t faults in region r and the handler of r reads the message.
PageFault(t, r) ==
    /\ pc[t] = "idle" /\ target[t] = None
    /\ addr_hndl_map[r] # None
    /\ pc[r] = "idle"
    /\ AllocAlone => \A u \in Threads : pc[u] = "idle"
    /\ pc' = [pc EXCEPT ![r] = "lock"]
    /\ \E p \in FaultPlans :
          /\ Len(p) <= left
          /\ left' = left - Len(p)
          /\ plan' = [plan EXCEPT ![r] = p]
    /\ target' = [target EXCEPT ![t] = r]
    /\ UNCHANGED <<libVars, fault_handler_cr, my, return_pkt, netVars, srvVars, sent, tears, killed>>

Enter(r) ==
    /\ pc[r] = "lock"
    /\ fault_handler_cr' = r
    /\ pc' = [pc EXCEPT ![r] = "send"]
    /\ UNCHANGED <<libVars, plan, target, my, return_pkt, netVars, srvVars, sent, tears, left, killed>>

\* Bug: the handler does not wait for the mutex.
LockWithoutWaiting(r) == Enter(r)

Lock(r) == fault_handler_cr = None /\ Enter(r)

\* Nobody is at the other end of the socket: the server ended, or connect failed.
PeerGone == spc = "down" \/ socketfd = 0

\* Bug: the answer to a saved page is not waited for.
RequestedUnanswered(x) ==
    /\ pc[x] = "send"
    /\ sent' = Append(sent, [kind |-> Head(plan[x]),
                             region |-> IF x \in Threads THEN target[x] ELSE x])
    /\ my' = [my EXCEPT ![x] = Len(sent) + 1]
    /\ pc' = [pc EXCEPT ![x] = IF Head(plan[x]) = "put" THEN "use" ELSE "recv"]
    /\ UNCHANGED <<libVars, fault_handler_cr, plan, target, return_pkt, opened, s2c, srvVars,
                   tears, left, killed>>

\* The thread (or handler) x has handed over its next request.
Requested(x) ==
    /\ pc[x] = "send"
    /\ sent' = Append(sent, [kind |-> Head(plan[x]),
                             region |-> IF x \in Threads THEN target[x] ELSE x])
    /\ my' = [my EXCEPT ![x] = Len(sent) + 1]
    /\ pc' = [pc EXCEPT ![x] = "recv"]
    /\ UNCHANGED <<libVars, fault_handler_cr, plan, target, return_pkt, opened, s2c, srvVars,
                   tears, left, killed>>

\* send(socketfd, &send_pkt, ...)
Send(x) ==
    /\ pc[x] = "send"
    /\ ~PeerGone
    /\ c2s' = [c2s EXCEPT ![socketfd] = @ \o Packet(Len(sent) + 1)]
    /\ Requested(x)

\* To a server that is gone, send still succeeds once, or the process gets SIGPIPE.
SendLost(x) == spc = "down" /\ socketfd # 0 /\ UNCHANGED c2s /\ Requested(x)

SendKills(x) ==
    /\ PeerGone
    /\ pc[x] = "send"
    /\ killed' = TRUE
    /\ UNCHANGED <<libVars, fault_handler_cr, userVars, netVars, srvVars, sent, tears, left>>

\* recv(socketfd, &return_pkt, ...) into a packet on the stack.
Recv(x) ==
    /\ pc[x] = "recv"
    /\ socketfd # 0
    /\ \E k \in Pieces(s2c[socketfd]) :
          /\ return_pkt' = [return_pkt EXCEPT ![x] = Filled(Garbage, s2c[socketfd], k)]
          /\ s2c' = [s2c EXCEPT ![socketfd] = Rest(@, k)]
          /\ Took(k, s2c[socketfd])
    /\ pc' = [pc EXCEPT ![x] = "use"]
    /\ UNCHANGED <<libVars, fault_handler_cr, plan, target, my, opened, c2s, srvVars, sent, left, killed>>

\* recv returns 0 or -1; nobody looks.
RecvEnds(x) ==
    /\ pc[x] = "recv"
    /\ PeerGone
    /\ socketfd # 0 => s2c[socketfd] = <<>>
    /\ return_pkt' = [return_pkt EXCEPT ![x] = Garbage]
    /\ pc' = [pc EXCEPT ![x] = "use"]
    /\ UNCHANGED <<libVars, fault_handler_cr, plan, target, my, netVars, srvVars, sent, tears, left, killed>>

\* What the hndl field of an answer that begins with unit u may hold: the handle
\* of an allocation, the handle a get or put carried, or bytes of something else.
HandlesIn(u) ==
    LET n == u[1] IN
    IF u # Junk /\ u[2] = 1 /\ sent[n].kind # "map"
    THEN {addr_hndl_map[sent[n].region]}
    ELSE IF u # Junk /\ u[2] = 1 /\ n \in granted
    THEN {n}
    ELSE granted \cup {Junk}

\* rmp_alloc after its recv: neither error nor the length received is looked at.
Allocated(t) ==
    /\ pc[t] = "use"
    /\ \E h \in HandlesIn(return_pkt[t][1]) :
          addr_hndl_map' = [addr_hndl_map EXCEPT ![target[t]] = h]
    /\ pc' = [pc EXCEPT ![t] = "idle"]
    /\ plan' = [plan EXCEPT ![t] = <<>>]
    /\ target' = [target EXCEPT ![t] = None]
    /\ my' = [my EXCEPT ![t] = 0]
    /\ return_pkt' = [return_pkt EXCEPT ![t] = Garbage]
    /\ UNCHANGED <<socketfd, fault_handler_cr, netVars, srvVars, sent, tears, left, killed>>

\* rmp_write_page or rmp_read_page returns and the handler makes its next exchange.
NextExchange(r) ==
    /\ pc[r] = "use"
    /\ Len(plan[r]) > 1
    /\ pc' = [pc EXCEPT ![r] = "send"]
    /\ plan' = [plan EXCEPT ![r] = Tail(@)]
    /\ my' = [my EXCEPT ![r] = 0]
    /\ return_pkt' = [return_pkt EXCEPT ![r] = Garbage]
    /\ UNCHANGED <<libVars, fault_handler_cr, target, netVars, srvVars, sent, tears, left, killed>>

\* The last exchange of a fault: the page is mapped, the thread woken, the mutex freed.
FaultResolved(r) ==
    /\ pc[r] = "use"
    /\ Len(plan[r]) = 1
    /\ fault_handler_cr' = None
    /\ pc' = [pc EXCEPT ![r] = "idle"]
    /\ plan' = [plan EXCEPT ![r] = <<>>]
    /\ target' = [t \in Threads |-> IF target[t] = r THEN None ELSE target[t]]
    /\ my' = [my EXCEPT ![r] = 0]
    /\ return_pkt' = [return_pkt EXCEPT ![r] = Garbage]
    /\ UNCHANGED <<libVars, netVars, srvVars, sent, tears, left, killed>>

-----------------------------------------------------------------------------
(***************************************************************************)
(* The server.  Its accept loop joins the thread of a connection before it *)
(* accepts the next, and the client closes no connection: only the first   *)
(* one is ever served.                                                     *)
(***************************************************************************)
Served == 1

\* recv() > 0 and Server::handle on whatever the buffer now holds.  A buffer that does
\* not begin with a header may do anything to the pool, but grants nobody a handle.
ServerRecv ==
    /\ spc = "recv"
    /\ \E k \in Pieces(c2s[Served]) :
          LET b == Filled(req, c2s[Served], k)
              alloc == b[1][2] = 1 /\ sent[b[1][1]].kind = "map" IN
          /\ req' = b
          /\ c2s' = [c2s EXCEPT ![Served] = Rest(@, k)]
          /\ Took(k, c2s[Served])
          /\ \/ alloc /\ granted' = granted \cup {b[1][1]}
             \/ (alloc => "refuses" \in ServerFaults) /\ UNCHANGED granted
    /\ spc' = "send"
    /\ UNCHANGED <<libVars, fault_handler_cr, userVars, opened, s2c, sent, left, killed>>

\* Bug: no answer to what was not received whole.
AnswerWholeOnly ==
    /\ spc = "send"
    /\ s2c' = [s2c EXCEPT ![Served] = IF \E n \in Ids : req = Packet(n) THEN @ \o req ELSE @]
    /\ spc' = "recv"
    /\ UNCHANGED <<libVars, fault_handler_cr, userVars, opened, c2s, req, granted, sent, tears,
                   left, killed>>

\* send(sock, req, sizeof(rmp::packet), 0), the whole buffer however much was received.
ServerSend ==
    /\ spc = "send"
    /\ s2c' = [s2c EXCEPT ![Served] = @ \o req]
    /\ spc' = "recv"
    /\ UNCHANGED <<libVars, fault_handler_cr, userVars, opened, c2s, req, granted, sent, tears,
                   left, killed>>

\* The server process ends.  A reset may also discard answers not yet read.
ServerDies ==
    /\ "dies" \in ServerFaults
    /\ opened > 0 /\ spc # "down"
    /\ spc' = "down"
    /\ c2s' = [k \in Conns |-> <<>>]
    /\ \/ UNCHANGED s2c
       \/ s2c' = [k \in Conns |-> <<>>]
    /\ UNCHANGED <<libVars, fault_handler_cr, userVars, opened, req, granted, sent, tears, left, killed>>

-----------------------------------------------------------------------------
Exchange(x) == Send(x) \/ SendLost(x) \/ SendKills(x) \/ Recv(x) \/ RecvEnds(x)

Handler(r) == ~killed /\ (Lock(r) \/ Exchange(r) \/ NextExchange(r) \/ FaultResolved(r))

\* rmp_alloc once it has been called.
Allocation(t) == ~killed /\ (Exchange(t) \/ Allocated(t))

connection_handler == ServerRecv \/ ServerSend

WireNext ==
    \/ socketfd = 0 /\ rmp_init
    \/ \E t \in Threads, r \in Regions : ~killed /\ (rmp_alloc(t, r) \/ PageFault(t, r))
    \/ \E t \in Threads : Allocation(t)
    \/ \E r \in Regions : Handler(r)
    \/ connection_handler
    \/ ServerDies

WireSpec == WireInit /\ [][WireNext]_wireVars

(***************************************************************************)
(* Threads that can run are scheduled, on both sides, and TCP delivers     *)
(* what was sent while the server lives.  The application need not do      *)
(* anything.  The bound on requests ends all contention for the mutex, so  *)
(* weak fairness is enough for it.                                         *)
(***************************************************************************)
WireFairness ==
    /\ \A t \in Threads : WF_wireVars(Allocation(t))
    /\ \A r \in Regions : WF_wireVars(Handler(r))
    /\ WF_wireVars(connection_handler)

FairWireSpec == WireSpec /\ WireFairness

-----------------------------------------------------------------------------
(***************************************************************************)
(* Properties.                                                             *)
(***************************************************************************)

(***************************************************************************)
(* A thread that leaves recv has the answer to the request it sent: "this  *)
(* read/write will be resolved by requesting the server" (README.md).      *)
(***************************************************************************)
AnswersOwn == \A x \in Users : pc[x] = "use" => return_pkt[x] = Packet(my[x])

\* No packet has been torn and the server has not gone.
Sound == tears = MaxTorn /\ spc # "down"

(***************************************************************************)
(* While every recv returned a whole packet, the one socket shared by all  *)
(* threads never hands a thread the answer to another's request, whatever  *)
(* faults are resolved at the same time.                                   *)
(***************************************************************************)
WholeAnswersOwn == Sound => AnswersOwn

(***************************************************************************)
(* Client and server stay in step: when nobody waits for an answer, there  *)
(* is none under way that the next exchange would take for its own, no     *)
(* request the server has still to see, and none it is working on.         *)
(***************************************************************************)
InStep ==
    Sound /\ (\A x \in Users : pc[x] # "recv")
        => /\ \A k \in Conns : c2s[k] = <<>> /\ s2c[k] = <<>>
           /\ spc = "recv"

(***************************************************************************)
(* "Server allocates the n pages in memory and returns a mapped handle.    *)
(* Client stores the handle by mapping it to the local address"            *)
(* (README.md): the handle of a region is one the server granted to the    *)
(* rmp_alloc of that region, so no two regions share their pages.          *)
(***************************************************************************)
HandlesGranted ==
    \A r \in Regions :
        addr_hndl_map[r] # None =>
            /\ addr_hndl_map[r] \in granted
            /\ sent[addr_hndl_map[r]].region = r

(***************************************************************************)
(* No thread waits forever for the server, not even when packets are torn, *)
(* and client and server out of step, or when the server dies: every       *)
(* exchange that was started ends, or the whole process does.              *)
(***************************************************************************)
ExchangesComplete == \A x \in Users : pc[x] # "idle" ~> pc[x] = "idle" \/ killed
=============================================================================
