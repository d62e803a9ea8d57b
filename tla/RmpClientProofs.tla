--------------------------- MODULE RmpClientProofs ---------------------------
(***************************************************************************)
(* Theorems about the client library and its connection, for any number of *)
(* threads, regions and requests and packets of any length.  What keeps    *)
(* the exchanges on the one socket apart is fault_handler_cr among the     *)
(* handlers, and nothing at all against rmp_alloc: hence AllocAlone.       *)
(***************************************************************************)
EXTENDS RmpClient, Integers, SequenceTheorems, TLAPS

\* The steps during which a thread uses the socket.
Talking == {"send", "recv", "use"}

\* The variables that the proofs rely on have these domains; the one connection is 1.
Shape ==
    /\ tears \in Int /\ tears <= MaxTorn
    /\ DOMAIN pc = Users /\ DOMAIN my = Users /\ DOMAIN return_pkt = Users
    /\ DOMAIN c2s = Conns /\ DOMAIN s2c = Conns
    /\ socketfd = opened /\ opened \in {0, 1}
    /\ socketfd = 0 =>
          /\ \A x \in Users : pc[x] = "idle"
          /\ \A r \in Regions : addr_hndl_map[r] = None

\* One thread at a time uses the socket.
TakeTurns ==
    /\ \A r \in Regions : pc[r] \in Talking => fault_handler_cr = r
    /\ \A t \in Threads : pc[t] # "idle" => \A x \in Users \ {t} : pc[x] = "idle"

\* The one request of thread x is on its way, at the server, or its answer on its way back.
UnderWay(x) ==
    \/ c2s[Served] = Packet(my[x]) /\ s2c[Served] = <<>> /\ spc = "recv"
    \/ c2s[Served] = <<>> /\ s2c[Served] = <<>> /\ spc = "send" /\ req = Packet(my[x])
    \/ c2s[Served] = <<>> /\ s2c[Served] = Packet(my[x]) /\ spc = "recv"

WireInv ==
    /\ Shape
    /\ TakeTurns
    /\ Sound =>
          /\ \A k \in Conns \ {Served} : c2s[k] = <<>> /\ s2c[k] = <<>>
          /\ \A x \in Users : pc[x] = "recv" => UnderWay(x)
    /\ InStep
    /\ WholeAnswersOwn

-----------------------------------------------------------------------------
(***************************************************************************)
(* A packet that is sent and received whole arrives as it was sent, and    *)
(* leaves the stream empty.                                                *)
(***************************************************************************)
LEMMA WholePacket ==
  ASSUME NEW n
  PROVE  /\ Packet(n) # <<>>
         /\ Most(Packet(n)) = PacketLen
         /\ <<>> \o Packet(n) = Packet(n)
         /\ \A buffer : Filled(buffer, Packet(n), PacketLen) = Packet(n)
         /\ Rest(Packet(n), PacketLen) = <<>>
  <1> DEFINE S == {<<n, i>> : i \in 1 .. PacketLen}
  <1>1. Packet(n) \in [1 .. PacketLen -> S]
    BY DEF Packet
  <1>2. Packet(n) \in Seq(S) /\ Len(Packet(n)) = PacketLen
    <2> HIDE DEF S
    <2>1. PacketLen \in Nat
      BY RmpClientAssumption
    <2>2. Packet(n) \in Seq(S)
      BY <1>1, <2>1
    <2> QED BY <1>1, <2>1, <2>2
  <1>3. Packet(n) # <<>>
    BY <1>2, RmpClientAssumption
  <1>4. Most(Packet(n)) = PacketLen
    BY <1>2, RmpClientAssumption DEF Most
  <1>5. <<>> \o Packet(n) = Packet(n)
    BY <1>2, ConcatEmptySeq
  <1>6. ASSUME NEW buffer PROVE Filled(buffer, Packet(n), PacketLen) = Packet(n)
    BY RmpClientAssumption DEF Filled, Packet
  <1>7. Rest(Packet(n), PacketLen) = <<>>
    BY <1>2, SubSeqEmpty, RmpClientAssumption DEF Rest
  <1> QED BY <1>3, <1>4, <1>5, <1>6, <1>7

\* A recv can only use up the tears there are; while none is, it returns a whole packet.
LEMMA WholeRecv ==
  ASSUME NEW n, tears \in Int, tears <= MaxTorn, tears' = MaxTorn,
         NEW k \in Pieces(Packet(n)), Took(k, Packet(n))
  PROVE  k = PacketLen
  <1>1. k \in 1 .. PacketLen
    BY WholePacket, RmpClientAssumption DEF Pieces
  <1>2. ~(k < PacketLen)
    BY WholePacket, RmpClientAssumption DEF Took
  <1> QED BY <1>1, <1>2, RmpClientAssumption

\* Torn packets are never made good: once a recv returned a part, tears stays below MaxTorn.
LEMMA TearsFall ==
  ASSUME NEW k, NEW s, tears \in Int, tears <= MaxTorn, Took(k, s)
  PROVE  tears' \in Int /\ tears' <= MaxTorn /\ (tears' = MaxTorn => tears = MaxTorn)
  BY RmpClientAssumption DEF Took

\* Before rmp_init there is no connection and nobody waits.
LEMMA WireInitInv == WireInit => WireInv
  <1> SUFFICES ASSUME WireInit PROVE WireInv
    OBVIOUS
  <1> USE DEF WireInit
  <1>1. Shape
    BY RmpClientAssumption DEF Shape
  <1>2. TakeTurns
    BY DEF TakeTurns, Talking, Users
  <1>3. InStep /\ WholeAnswersOwn
    BY DEF InStep, WholeAnswersOwn, AnswersOwn
  <1> QED BY <1>1, <1>2, <1>3 DEF WireInv

-----------------------------------------------------------------------------
(***************************************************************************)
(* The program connects, calls rmp_alloc, or faults; a handler waits for   *)
(* the mutex.  Nothing is sent.                                            *)
(***************************************************************************)
LEMMA StartSteps ==
  ASSUME AllocAlone, WireInv,
         \/ socketfd = 0 /\ rmp_init
         \/ \E t \in Threads, r \in Regions : rmp_alloc(t, r) \/ PageFault(t, r)
         \/ \E r \in Regions : Lock(r)
  PROVE  WireInv'
  <1> USE DEF WireInv
  <1>1. CASE socketfd = 0 /\ rmp_init
    <2>1. UNCHANGED <<fault_handler_cr, pc, my, return_pkt, c2s, s2c, req, spc, tears>>
      BY <1>1 DEF rmp_init, userVars, srvVars
    <2>a. socketfd' = opened' /\ opened' = 1
      <3>1. opened = 0
        BY <1>1 DEF Shape
      <3>2. opened' = opened + 1 /\ socketfd' = opened + 1
        BY <1>1 DEF rmp_init
      <3> QED BY <3>1, <3>2
    <2>2. Shape'
      BY <1>1, <2>1, <2>a DEF Shape
    <2>3. TakeTurns' /\ InStep' /\ WholeAnswersOwn' /\ Sound' = Sound
          /\ \A x \in Users : UnderWay(x)' = UnderWay(x)
      BY <2>1 DEF TakeTurns, InStep, WholeAnswersOwn, AnswersOwn, Sound, UnderWay
    <2> QED BY <2>1, <2>2, <2>3
  <1>2. ASSUME NEW t \in Threads, NEW r \in Regions, rmp_alloc(t, r)
        PROVE  WireInv'
    <2>1. UNCHANGED <<socketfd, addr_hndl_map, opened, fault_handler_cr, my, return_pkt, c2s, s2c,
                      req, spc, tears>>
      BY <1>2 DEF rmp_alloc, libVars, netVars, srvVars
    <2>2. /\ t \in Users /\ DOMAIN pc' = Users /\ pc'[t] = "send"
          /\ \A x \in Users : pc[x] = "idle"
          /\ \A x \in Users \ {t} : pc'[x] = "idle"
      BY <1>2 DEF rmp_alloc, Shape, Users
    <2>3. Shape'
      BY <1>2, <2>1, <2>2 DEF Shape, rmp_alloc
    <2>4. TakeTurns'
      BY <2>2, RmpClientAssumption DEF TakeTurns, Talking, Users
    <2>5. Sound' = Sound /\ InStep' /\ WholeAnswersOwn'
      BY <2>1, <2>2 DEF InStep, WholeAnswersOwn, AnswersOwn, Sound
    <2>6. \A x \in Users : pc'[x] # "recv"
      BY <2>2
    <2> QED BY <2>1, <2>3, <2>4, <2>5, <2>6
  <1>3. ASSUME NEW t \in Threads, NEW r \in Regions, PageFault(t, r)
        PROVE  WireInv'
    <2>1. UNCHANGED <<socketfd, addr_hndl_map, opened, fault_handler_cr, my, return_pkt, c2s, s2c,
                      req, spc, tears>>
      BY <1>3 DEF PageFault, libVars, netVars, srvVars
    <2>2. /\ r \in Users /\ DOMAIN pc' = Users /\ pc'[r] = "lock" /\ pc[r] = "idle"
          /\ \A u \in Threads : pc'[u] = "idle"
          /\ \A x \in Users \ {r} : pc'[x] = pc[x]
      BY <1>3, RmpClientAssumption DEF PageFault, Shape, Users
    <2>3. Shape'
      BY <1>3, <2>1, <2>2 DEF Shape, PageFault
    <2>4. TakeTurns'
      BY <2>1, <2>2, RmpClientAssumption DEF TakeTurns, Talking, Users
    <2>5. Sound' = Sound /\ InStep' /\ WholeAnswersOwn'
      BY <2>1, <2>2 DEF InStep, WholeAnswersOwn, AnswersOwn, Sound
    <2>6. \A x \in Users : pc'[x] = "recv" => pc[x] = "recv" /\ UnderWay(x)' = UnderWay(x)
      BY <2>1, <2>2 DEF UnderWay
    <2> QED BY <2>1, <2>3, <2>4, <2>5, <2>6
  <1>4. ASSUME NEW r \in Regions, Lock(r)
        PROVE  WireInv'
    <2>1. UNCHANGED <<socketfd, addr_hndl_map, opened, my, return_pkt, c2s, s2c, req, spc, tears>>
      BY <1>4 DEF Lock, Enter, libVars, netVars, srvVars
    <2>2. /\ r \in Users /\ DOMAIN pc' = Users /\ pc'[r] = "send" /\ pc[r] = "lock"
          /\ \A x \in Users \ {r} : pc'[x] = pc[x]
          /\ fault_handler_cr = None /\ fault_handler_cr' = r
      BY <1>4 DEF Lock, Enter, Shape, Users
    <2>3. Shape'
      BY <2>1, <2>2 DEF Shape
    <2>4. TakeTurns'
      <3>1. \A s \in Regions : pc[s] \notin Talking
        BY <2>2, RmpClientAssumption DEF TakeTurns, Users
      <3>2. \A t \in Threads : pc[t] = "idle"
        BY <2>2, RmpClientAssumption DEF TakeTurns, Users
      <3> QED BY <2>2, <3>1, <3>2, RmpClientAssumption DEF TakeTurns, Talking, Users
    <2>5. Sound' = Sound /\ InStep' /\ WholeAnswersOwn'
      BY <2>1, <2>2 DEF InStep, WholeAnswersOwn, AnswersOwn, Sound
    <2>6. \A x \in Users : pc'[x] = "recv" => pc[x] = "recv" /\ UnderWay(x)' = UnderWay(x)
      BY <2>1, <2>2 DEF UnderWay
    <2> QED BY <2>1, <2>3, <2>4, <2>5, <2>6
  <1> QED BY <1>1, <1>2, <1>3, <1>4

-----------------------------------------------------------------------------
\* A step by which nobody starts to use the socket keeps the turns.
LEMMA TurnsKept ==
  ASSUME TakeTurns, fault_handler_cr' = fault_handler_cr,
         \A y \in Users : /\ pc'[y] \in Talking => pc[y] \in Talking
                          /\ pc[y] = "idle" => pc'[y] = "idle"
  PROVE  TakeTurns'
  <1>1. ASSUME NEW r \in Regions, pc'[r] \in Talking
        PROVE  fault_handler_cr' = r
    <2>1. r \in Users
      BY DEF Users
    <2>2. pc[r] \in Talking
      BY <1>1, <2>1
    <2> QED BY <2>2 DEF TakeTurns
  <1>2. ASSUME NEW t \in Threads, pc'[t] # "idle", NEW x \in Users \ {t}
        PROVE  pc'[x] = "idle"
    <2>1. t \in Users
      BY DEF Users
    <2>2. pc[t] # "idle"
      BY <1>2, <2>1
    <2>3. pc[x] = "idle"
      BY <2>2 DEF TakeTurns
    <2> QED BY <2>3
  <1> QED BY <1>1, <1>2 DEF TakeTurns

(***************************************************************************)
(* send: the thread that talks is alone, so both streams are empty and the *)
(* server waits; the packet is all there is on the connection.             *)
(***************************************************************************)
LEMMA SendSteps ==
  ASSUME WireInv, NEW x \in Users, Send(x) \/ SendLost(x) \/ SendKills(x)
  PROVE  WireInv'
  <1> USE DEF WireInv
  <1>1. CASE SendKills(x)
    <2>1. UNCHANGED <<socketfd, addr_hndl_map, opened, fault_handler_cr, pc, my, return_pkt,
                      c2s, s2c, req, spc, tears>>
      BY <1>1 DEF SendKills, libVars, userVars, netVars, srvVars
    <2> QED BY <2>1
        DEF Shape, TakeTurns, InStep, WholeAnswersOwn, AnswersOwn, Sound, UnderWay
  <1>2. CASE Send(x) \/ SendLost(x)
    <2>1. UNCHANGED <<socketfd, addr_hndl_map, opened, fault_handler_cr, return_pkt, s2c, req, spc,
                      tears>>
      BY <1>2 DEF Send, SendLost, Requested, libVars, srvVars
    <2>2. /\ DOMAIN pc' = Users /\ DOMAIN my' = Users
          /\ pc[x] = "send" /\ pc'[x] = "recv" /\ my'[x] = Len(sent) + 1
          /\ \A y \in Users \ {x} : pc'[y] = pc[y] /\ my'[y] = my[y]
      BY <1>2 DEF Send, SendLost, Requested, Shape
    <2>3. socketfd = 1 /\ 1 \in Conns
      BY <2>2, RmpClientAssumption DEF Shape, Conns
    <2>4. DOMAIN c2s' = Conns
      BY <1>2 DEF Send, SendLost, Shape
    <2>5. Shape'
      BY <2>1, <2>2, <2>3, <2>4 DEF Shape
    <2>6. TakeTurns'
      <3>1. \A y \in Users : /\ pc'[y] \in Talking => pc[y] \in Talking
                             /\ pc[y] = "idle" => pc'[y] = "idle"
        BY <2>2 DEF Talking
      <3> QED BY <2>1, <3>1, TurnsKept
    <2>7. \A y \in Users \ {x} : pc[y] \notin Talking
      BY <2>2 DEF TakeTurns, Talking, Users
    <2>8. ASSUME Sound'
          PROVE  /\ \A k \in Conns \ {Served} : c2s'[k] = <<>> /\ s2c'[k] = <<>>
                 /\ \A y \in Users : pc'[y] = "recv" => UnderWay(y)'
                 /\ InStep' /\ WholeAnswersOwn'
      <3>1. Sound /\ Send(x)
        BY <1>2, <2>1, <2>8 DEF Sound, SendLost
      <3>2. (\A k \in Conns : c2s[k] = <<>> /\ s2c[k] = <<>>) /\ spc = "recv"
        BY <2>2, <2>7, <3>1 DEF InStep, Talking
      <3>3. c2s'[1] = Packet(my'[x]) /\ \A k \in Conns \ {1} : c2s'[k] = c2s[k]
        <4>1. c2s' = [c2s EXCEPT ![1] = c2s[1] \o Packet(Len(sent) + 1)]
          BY <2>3, <3>1 DEF Send
        <4>2. c2s[1] \o Packet(Len(sent) + 1) = Packet(my'[x])
          BY <2>2, <2>3, <3>2, WholePacket
        <4> QED BY <2>3, <4>1, <4>2 DEF Shape
      <3>4. UnderWay(x)'
        BY <2>1, <2>3, <3>2, <3>3 DEF UnderWay, Served
      <3>5. WholeAnswersOwn'
        BY <2>2, <2>7 DEF WholeAnswersOwn, AnswersOwn, Talking
      <3>6. InStep'
        BY <2>2 DEF InStep
      <3> QED BY <2>1, <2>2, <2>7, <3>2, <3>3, <3>4, <3>5, <3>6 DEF Served, Talking
    <2> QED BY <2>5, <2>6, <2>8 DEF InStep, WholeAnswersOwn
  <1> QED BY <1>1, <1>2

(***************************************************************************)
(* recv: the only packet on the connection is the answer to the request of *)
(* the thread that waits.                                                  *)
(***************************************************************************)
LEMMA RecvSteps ==
  ASSUME WireInv, NEW x \in Users, Recv(x) \/ RecvEnds(x)
  PROVE  WireInv'
  <1> USE DEF WireInv
  <1>1. UNCHANGED <<socketfd, addr_hndl_map, opened, fault_handler_cr, my, c2s, req, spc>>
    BY DEF Recv, RecvEnds, libVars, netVars, srvVars
  <1>2. /\ DOMAIN pc' = Users /\ DOMAIN return_pkt' = Users
        /\ pc[x] = "recv" /\ pc'[x] = "use"
        /\ \A y \in Users \ {x} : pc'[y] = pc[y]
    BY DEF Recv, RecvEnds, Shape
  <1>3. socketfd = 1 /\ 1 \in Conns /\ DOMAIN s2c' = Conns
    BY <1>2, RmpClientAssumption DEF Shape, Conns, Recv, RecvEnds, netVars
  <1>4. tears' \in Int /\ tears' <= MaxTorn /\ (tears' = MaxTorn => tears = MaxTorn)
    <2>1. CASE Recv(x)
      <3>1. PICK k : Took(k, s2c[socketfd])
        BY <2>1 DEF Recv
      <3> QED BY <3>1, TearsFall DEF Shape
    <2>2. CASE RecvEnds(x)
      BY <2>2 DEF RecvEnds, Shape
    <2> QED BY <2>1, <2>2
  <1>5. Shape'
    BY <1>1, <1>2, <1>3, <1>4 DEF Shape
  <1>6. TakeTurns'
    <2>1. \A y \in Users : /\ pc'[y] \in Talking => pc[y] \in Talking
                           /\ pc[y] = "idle" => pc'[y] = "idle"
      BY <1>2 DEF Talking
    <2> QED BY <1>1, <2>1, TurnsKept
  <1>7. \A y \in Users \ {x} : pc[y] \notin Talking
    BY <1>2 DEF TakeTurns, Talking, Users
  <1>8. ASSUME Sound'
        PROVE  /\ \A k \in Conns \ {Served} : c2s'[k] = <<>> /\ s2c'[k] = <<>>
               /\ \A y \in Users : pc'[y] # "recv"
               /\ InStep' /\ WholeAnswersOwn'
    <2>1. Sound /\ Recv(x)
      BY <1>1, <1>3, <1>4, <1>8 DEF Sound, RecvEnds, PeerGone
    <2>2. PICK k \in Pieces(s2c[1]) :
             /\ return_pkt' = [return_pkt EXCEPT ![x] = Filled(Garbage, s2c[1], k)]
             /\ s2c' = [s2c EXCEPT ![1] = Rest(s2c[1], k)]
             /\ Took(k, s2c[1])
      BY <1>3, <2>1 DEF Recv
    <2>3. c2s[1] = <<>> /\ s2c[1] = Packet(my[x]) /\ spc = "recv"
      <3>1. s2c[1] # <<>>
        BY <2>2 DEF Pieces
      <3> QED BY <1>2, <2>1, <3>1 DEF UnderWay, Served
    <2>4. k = PacketLen
      BY <1>8, <2>2, <2>3, WholeRecv DEF Shape, Sound
    <2>5. return_pkt'[x] = Packet(my[x]) /\ s2c'[1] = <<>> /\ \A j \in Conns \ {1} : s2c'[j] = s2c[j]
      BY <1>3, <2>2, <2>3, <2>4, WholePacket DEF Shape
    <2>6. WholeAnswersOwn'
      BY <1>1, <1>2, <1>7, <2>5 DEF WholeAnswersOwn, AnswersOwn, Talking
    <2>7. \A j \in Conns : c2s'[j] = <<>> /\ s2c'[j] = <<>>
      BY <1>1, <2>1, <2>3, <2>5 DEF Served
    <2>8. InStep'
      BY <1>1, <2>3, <2>7 DEF InStep
    <2> QED BY <1>2, <1>7, <2>6, <2>7, <2>8 DEF Talking
  <1> QED BY <1>5, <1>6, <1>8 DEF InStep, WholeAnswersOwn

-----------------------------------------------------------------------------
(***************************************************************************)
(* A thread uses its answer and goes on: the connection is left as it is,  *)
(* and nobody but this thread changes state.                               *)
(***************************************************************************)
LEMMA AnswerUsed ==
  ASSUME WireInv, NEW x \in Users, pc[x] = "use", pc'[x] \in {"idle", "send"},
         DOMAIN pc' = Users, DOMAIN my' = Users, DOMAIN return_pkt' = Users,
         \A y \in Users \ {x} : pc'[y] = pc[y] /\ my'[y] = my[y] /\ return_pkt'[y] = return_pkt[y],
         UNCHANGED <<socketfd, opened, c2s, s2c, req, spc, tears>>,
         TakeTurns'
  PROVE  WireInv'
  <1> USE DEF WireInv
  <1>1. Shape'
    BY DEF Shape
  <1>2. Sound' = Sound
    BY DEF Sound
  <1>3. \A y \in Users : pc'[y] = "recv" => pc[y] = "recv" /\ UnderWay(y)' = UnderWay(y)
    BY DEF UnderWay
  <1>4. \A y \in Users : pc[y] = "recv" => pc'[y] = "recv"
    OBVIOUS
  <1>5. InStep'
    BY <1>2, <1>4 DEF InStep
  <1>6. WholeAnswersOwn'
    BY <1>2 DEF WholeAnswersOwn, AnswersOwn
  <1> QED BY <1>1, <1>2, <1>3, <1>5, <1>6

\* rmp_alloc stores its handle; a handler goes on to its next exchange or wakes the thread.
LEMMA UseSteps ==
  ASSUME WireInv,
         \/ \E t \in Threads : Allocated(t)
         \/ \E r \in Regions : NextExchange(r) \/ FaultResolved(r)
  PROVE  WireInv'
  <1> USE DEF WireInv
  <1>1. ASSUME NEW t \in Threads, Allocated(t) PROVE WireInv'
    <2>1. /\ t \in Users /\ pc[t] = "use" /\ pc'[t] = "idle"
          /\ DOMAIN pc' = Users /\ DOMAIN my' = Users /\ DOMAIN return_pkt' = Users
          /\ \A y \in Users \ {t} : /\ pc'[y] = pc[y] /\ my'[y] = my[y]
                                    /\ return_pkt'[y] = return_pkt[y]
      BY <1>1 DEF Allocated, Shape, Users
    <2>2. UNCHANGED <<socketfd, opened, fault_handler_cr, c2s, s2c, req, spc, tears>>
      BY <1>1 DEF Allocated, netVars, srvVars
    <2>3. \A y \in Users : /\ pc'[y] \in Talking => pc[y] \in Talking
                           /\ pc[y] = "idle" => pc'[y] = "idle"
      BY <2>1 DEF Talking
    <2>4. TakeTurns'
      BY <2>2, <2>3, TurnsKept
    <2> QED BY <2>1, <2>2, <2>4, AnswerUsed
  <1>2. ASSUME NEW r \in Regions, NextExchange(r) PROVE WireInv'
    <2>1. /\ r \in Users /\ pc[r] = "use" /\ pc'[r] = "send"
          /\ DOMAIN pc' = Users /\ DOMAIN my' = Users /\ DOMAIN return_pkt' = Users
          /\ \A y \in Users \ {r} : /\ pc'[y] = pc[y] /\ my'[y] = my[y]
                                    /\ return_pkt'[y] = return_pkt[y]
      BY <1>2 DEF NextExchange, Shape, Users
    <2>2. UNCHANGED <<socketfd, opened, fault_handler_cr, c2s, s2c, req, spc, tears>>
      BY <1>2 DEF NextExchange, libVars, netVars, srvVars
    <2>3. \A y \in Users : /\ pc'[y] \in Talking => pc[y] \in Talking
                           /\ pc[y] = "idle" => pc'[y] = "idle"
      BY <2>1 DEF Talking
    <2>4. TakeTurns'
      BY <2>2, <2>3, TurnsKept
    <2> QED BY <2>1, <2>2, <2>4, AnswerUsed
  <1>3. ASSUME NEW r \in Regions, FaultResolved(r) PROVE WireInv'
    <2>1. /\ r \in Users /\ pc[r] = "use" /\ pc'[r] = "idle"
          /\ DOMAIN pc' = Users /\ DOMAIN my' = Users /\ DOMAIN return_pkt' = Users
          /\ \A y \in Users \ {r} : /\ pc'[y] = pc[y] /\ my'[y] = my[y]
                                    /\ return_pkt'[y] = return_pkt[y]
      BY <1>3 DEF FaultResolved, Shape, Users
    <2>2. UNCHANGED <<socketfd, opened, c2s, s2c, req, spc, tears>>
      BY <1>3 DEF FaultResolved, libVars, netVars, srvVars
    <2>3. fault_handler_cr = r
      BY <2>1 DEF TakeTurns, Talking
    <2>4. \A s \in Regions : pc'[s] \notin Talking
      BY <2>1, <2>3 DEF TakeTurns, Talking, Users
    <2>5. \A t \in Threads : pc'[t] = "idle"
      BY <2>1, RmpClientAssumption DEF TakeTurns, Users
    <2>6. TakeTurns'
      BY <2>4, <2>5 DEF TakeTurns
    <2> QED BY <2>1, <2>2, <2>6, AnswerUsed
  <1> QED BY <1>1, <1>2, <1>3

-----------------------------------------------------------------------------
(***************************************************************************)
(* The server: with whole packets the buffer of connection_handler holds   *)
(* exactly the one request that is under way.                              *)
(***************************************************************************)
LEMMA ServerRecvStep ==
  ASSUME WireInv, ServerRecv
  PROVE  WireInv'
  <1> USE DEF WireInv
  <1>1. UNCHANGED <<socketfd, addr_hndl_map, opened, fault_handler_cr, pc, my, return_pkt, s2c>>
    BY DEF ServerRecv, libVars, userVars
  <1>2. PICK k \in Pieces(c2s[1]) :
           /\ req' = Filled(req, c2s[1], k)
           /\ c2s' = [c2s EXCEPT ![1] = Rest(c2s[1], k)]
           /\ Took(k, c2s[1])
    BY DEF ServerRecv, Served
  <1>3. spc = "recv" /\ spc' = "send"
    BY DEF ServerRecv
  <1>4. tears' \in Int /\ tears' <= MaxTorn /\ (tears' = MaxTorn => tears = MaxTorn)
    BY <1>2, TearsFall DEF Shape
  <1>5. Shape'
    BY <1>1, <1>2, <1>4 DEF Shape
  <1>6. TakeTurns'
    BY <1>1 DEF TakeTurns
  <1>7. 1 \in Conns
    BY RmpClientAssumption DEF Conns
  <1>8. ASSUME Sound'
        PROVE  /\ \A j \in Conns \ {Served} : c2s'[j] = <<>> /\ s2c'[j] = <<>>
               /\ \A y \in Users : pc'[y] = "recv" => UnderWay(y)'
               /\ InStep' /\ WholeAnswersOwn'
    <2>1. Sound
      BY <1>3, <1>4, <1>8 DEF Sound
    <2>2. c2s[1] # <<>>
      BY <1>2 DEF Pieces
    <2>3. ~ \A y \in Users : pc[y] # "recv"
      BY <1>7, <2>1, <2>2 DEF InStep
    <2>4. ASSUME NEW y \in Users, pc[y] = "recv"
          PROVE  UnderWay(y)'
      <3>1. c2s[1] = Packet(my[y]) /\ s2c[1] = <<>>
        BY <2>1, <2>2, <2>4 DEF UnderWay, Served
      <3>2. k = PacketLen
        BY <1>2, <1>8, <3>1, WholeRecv DEF Shape, Sound
      <3>3. req' = Packet(my[y]) /\ c2s'[1] = <<>>
        BY <1>2, <1>7, <3>1, <3>2, WholePacket DEF Shape
      <3> QED BY <1>1, <1>3, <3>1, <3>3 DEF UnderWay, Served
    <2>5. \A j \in Conns \ {Served} : c2s'[j] = <<>> /\ s2c'[j] = <<>>
      BY <1>1, <1>2, <2>1 DEF Shape, Served
    <2>6. InStep'
      BY <1>1, <2>3 DEF InStep
    <2>7. WholeAnswersOwn'
      BY <1>1, <2>1 DEF WholeAnswersOwn, AnswersOwn
    <2> QED BY <1>1, <2>4, <2>5, <2>6, <2>7
  <1> QED BY <1>5, <1>6, <1>8 DEF InStep, WholeAnswersOwn

\* The server answers with the buffer: the request is then under way back.
LEMMA ServerSendStep ==
  ASSUME WireInv, ServerSend
  PROVE  WireInv'
  <1> USE DEF WireInv
  <1>1. UNCHANGED <<socketfd, addr_hndl_map, opened, fault_handler_cr, pc, my, return_pkt, c2s,
                    req, tears>>
    BY DEF ServerSend, libVars, userVars
  <1>2. s2c' = [s2c EXCEPT ![1] = s2c[1] \o req] /\ spc = "send" /\ spc' = "recv"
    BY DEF ServerSend, Served
  <1>3. Shape'
    BY <1>1, <1>2 DEF Shape
  <1>4. TakeTurns'
    BY <1>1 DEF TakeTurns
  <1>5. 1 \in Conns
    BY RmpClientAssumption DEF Conns
  <1>6. ASSUME Sound'
        PROVE  /\ \A j \in Conns \ {Served} : c2s'[j] = <<>> /\ s2c'[j] = <<>>
               /\ \A y \in Users : pc'[y] = "recv" => UnderWay(y)'
               /\ InStep' /\ WholeAnswersOwn'
    <2>1. Sound
      BY <1>1, <1>2, <1>6 DEF Sound
    <2>2. ASSUME NEW y \in Users, pc[y] = "recv"
          PROVE  UnderWay(y)'
      <3>1. c2s[1] = <<>> /\ s2c[1] = <<>> /\ req = Packet(my[y])
        BY <1>2, <2>1, <2>2 DEF UnderWay, Served
      <3>2. s2c[1] \o req = Packet(my[y])
        BY <3>1, WholePacket
      <3>3. s2c'[1] = Packet(my[y])
        BY <1>2, <1>5, <3>2 DEF Shape
      <3> QED BY <1>1, <1>2, <3>1, <3>3 DEF UnderWay, Served
    <2>3. \A j \in Conns \ {Served} : c2s'[j] = <<>> /\ s2c'[j] = <<>>
      BY <1>1, <1>2, <2>1 DEF Shape, Served
    <2>4. InStep'
      BY <1>1, <1>2, <2>1 DEF InStep
    <2>5. WholeAnswersOwn'
      BY <1>1, <2>1 DEF WholeAnswersOwn, AnswersOwn
    <2> QED BY <1>1, <2>2, <2>3, <2>4, <2>5
  <1> QED BY <1>3, <1>4, <1>6 DEF InStep, WholeAnswersOwn

-----------------------------------------------------------------------------
\* Every step preserves the invariant; once the server is down it asks little.
LEMMA WireNextInv ==
  ASSUME AllocAlone, WireInv, [WireNext]_wireVars
  PROVE  WireInv'
  <1>1. CASE socketfd = 0 /\ rmp_init
    BY <1>1, StartSteps
  <1>2. ASSUME NEW t \in Threads, NEW r \in Regions, rmp_alloc(t, r) \/ PageFault(t, r)
        PROVE  WireInv'
    BY <1>2, StartSteps
  <1>3. ASSUME NEW x \in Users, Exchange(x)
        PROVE  WireInv'
    BY <1>3, SendSteps, RecvSteps DEF Exchange
  <1>4. ASSUME NEW t \in Threads, Allocation(t)
        PROVE  WireInv'
    BY <1>3, <1>4, UseSteps DEF Allocation, Users
  <1>5. ASSUME NEW r \in Regions, Handler(r)
        PROVE  WireInv'
    BY <1>3, <1>5, StartSteps, UseSteps DEF Handler, Users
  <1>6. CASE connection_handler
    BY <1>6, ServerRecvStep, ServerSendStep DEF connection_handler
  <1>7. CASE ServerDies
    <2>1. UNCHANGED <<socketfd, addr_hndl_map, opened, fault_handler_cr, pc, my, return_pkt, tears>>
      BY <1>7 DEF ServerDies, libVars, userVars
    <2>2. spc' = "down" /\ DOMAIN c2s' = Conns /\ DOMAIN s2c' = Conns
      BY <1>7 DEF ServerDies, WireInv, Shape
    <2>3. Shape' /\ TakeTurns'
      BY <2>1, <2>2 DEF WireInv, Shape, TakeTurns
    <2>4. ~Sound'
      BY <2>2 DEF Sound
    <2> QED BY <2>3, <2>4 DEF WireInv, InStep, WholeAnswersOwn
  <1>8. CASE UNCHANGED wireVars
    BY <1>8 DEF wireVars, libVars, userVars, netVars, srvVars, WireInv, Shape, TakeTurns, Sound,
                UnderWay, InStep, WholeAnswersOwn, AnswersOwn
  <1> QED BY <1>1, <1>2, <1>4, <1>5, <1>6, <1>7, <1>8 DEF WireNext

(***************************************************************************)
(* While every recv returned a whole packet and the server lives, a thread *)
(* that leaves recv holds the answer to its own request, for any number of *)
(* handlers that fault at once: the mutex of uffdman.cpp is enough for     *)
(* them.  It is not held by rmp_alloc, whence the hypothesis.              *)
(***************************************************************************)
THEOREM AnswersAreOwn ==
  ASSUME AllocAlone
  PROVE  WireSpec => []WholeAnswersOwn
  <1>1. WireInv => WholeAnswersOwn
    BY DEF WireInv
  <1>2. AllocAlone /\ WireInv /\ [WireNext]_wireVars => WireInv'
    BY WireNextInv
  <1>3. AllocAlone
    OBVIOUS
  <1> QED BY <1>1, <1>2, <1>3, WireInitInv, PTL DEF WireSpec

(***************************************************************************)
(* Between exchanges the connection is empty in both directions and        *)
(* connection_handler waits in recv.                                       *)
(***************************************************************************)
THEOREM StaysInStep ==
  ASSUME AllocAlone
  PROVE  WireSpec => []InStep
  <1>1. WireInv => InStep
    BY DEF WireInv
  <1>2. AllocAlone /\ WireInv /\ [WireNext]_wireVars => WireInv'
    BY WireNextInv
  <1>3. AllocAlone
    OBVIOUS
  <1> QED BY <1>1, <1>2, <1>3, WireInitInv, PTL DEF WireSpec

-----------------------------------------------------------------------------
(***************************************************************************)
(* With whole packets and a server that neither refuses nor dies, the      *)
(* handle of a region is the one granted to its own rmp_alloc.             *)
(***************************************************************************)

\* What a packet asks for, and for which region.
Asked == [kind : Kinds, region : Regions]

\* Nothing has gone wrong on the connection.
Faultless == tears = 0 /\ spc # "down"

\* A thread that is not idle is in rmp_alloc for some region; a handler has exchanges to make.
Planned ==
    /\ DOMAIN plan = Users /\ DOMAIN target = Threads
    /\ \A t \in Threads : pc[t] # "idle" => target[t] \in Regions /\ plan[t] = <<"map">>
    /\ \A r \in Regions : pc[r] # "idle" => plan[r] \in FaultPlans

\* The last request of a thread that waits, or has its answer, asks for its own region,
\* and once the server has seen it the server has granted it.
OwnAllocation ==
    \A t \in Threads :
        /\ pc[t] \in {"recv", "use"} =>
              my[t] \in 1 .. Len(sent) /\ sent[my[t]] = [kind |-> "map", region |-> target[t]]
        /\ pc[t] = "use" \/ (pc[t] = "recv" /\ c2s[1] = <<>>) => my[t] \in granted

\* The handles that are stored were granted, to a request that was sent for that region.
Stored ==
    \A r \in Regions : addr_hndl_map[r] # None =>
        /\ addr_hndl_map[r] \in granted
        /\ addr_hndl_map[r] \in 1 .. Len(sent)
        /\ sent[addr_hndl_map[r]].region = r

GrantInv ==
    /\ WireInv
    /\ Faultless
    /\ sent \in Seq(Asked) /\ DOMAIN addr_hndl_map = Regions
    /\ Planned
    /\ OwnAllocation
    /\ Stored

\* Without tears to spend, a recv of a packet that has arrived takes the whole of it.
LEMMA NoTear ==
  ASSUME NEW n, tears = 0, NEW k \in Pieces(Packet(n)), Took(k, Packet(n))
  PROVE  tears' = 0 /\ k = PacketLen
  <1>1. Packet(n) # <<>> /\ Most(Packet(n)) = PacketLen
    BY WholePacket
  <1>2. k = PacketLen
    BY <1>1 DEF Pieces
  <1>3. ~(k < Most(Packet(n)))
    BY <1>1, <1>2, RmpClientAssumption
  <1> QED BY <1>2, <1>3 DEF Took

\* Steps that start something; nothing is sent, granted or stored.
LEMMA GrantStart ==
  ASSUME GrantInv,
         \/ socketfd = 0 /\ rmp_init
         \/ \E t \in Threads, r \in Regions : rmp_alloc(t, r) \/ PageFault(t, r)
         \/ \E r \in Regions : Lock(r)
         \/ \E x \in Users : SendKills(x)
  PROVE  Faultless' /\ sent' \in Seq(Asked) /\ DOMAIN addr_hndl_map' = Regions
         /\ Planned' /\ OwnAllocation' /\ Stored'
  <1> USE DEF GrantInv
  <1>0. DOMAIN pc = Users
    BY DEF WireInv, Shape
  <1>1. CASE socketfd = 0 /\ rmp_init
    <2>1. UNCHANGED <<pc, plan, target, my, c2s, spc, granted, sent, tears>>
          /\ addr_hndl_map' = [r \in Regions |-> None]
      BY <1>1 DEF rmp_init, userVars, srvVars
    <2> QED BY <2>1 DEF Faultless, Planned, OwnAllocation, Stored
  <1>2. ASSUME NEW t \in Threads, NEW r \in Regions, rmp_alloc(t, r)
        PROVE  Faultless' /\ sent' \in Seq(Asked) /\ DOMAIN addr_hndl_map' = Regions
               /\ Planned' /\ OwnAllocation' /\ Stored'
    <2>1. UNCHANGED <<addr_hndl_map, my, c2s, spc, granted, sent, tears>>
      BY <1>2 DEF rmp_alloc, libVars, netVars, srvVars
    <2>2. /\ t \in Users /\ t \notin Regions /\ pc'[t] = "send"
          /\ \A x \in Users \ {t} : pc'[x] = pc[x] /\ plan'[x] = plan[x]
          /\ \A u \in Threads \ {t} : target'[u] = target[u]
          /\ plan'[t] = <<"map">> /\ target'[t] = r
          /\ DOMAIN plan' = Users /\ DOMAIN target' = Threads
      BY <1>0, <1>2, RmpClientAssumption DEF rmp_alloc, Planned, Users
    <2>3. Planned'
      BY <2>2 DEF Planned, Users
    <2>4. OwnAllocation'
      BY <2>1, <2>2 DEF OwnAllocation, Users
    <2> QED BY <2>1, <2>3, <2>4 DEF Faultless, Stored
  <1>3. ASSUME NEW t \in Threads, NEW r \in Regions, PageFault(t, r)
        PROVE  Faultless' /\ sent' \in Seq(Asked) /\ DOMAIN addr_hndl_map' = Regions
               /\ Planned' /\ OwnAllocation' /\ Stored'
    <2>1. UNCHANGED <<addr_hndl_map, my, c2s, spc, granted, sent, tears>>
      BY <1>3 DEF PageFault, libVars, netVars, srvVars
    <2>2. /\ r \in Users /\ r \notin Threads /\ pc[t] = "idle" /\ plan'[r] \in FaultPlans
          /\ \A x \in Users \ {r} : pc'[x] = pc[x] /\ plan'[x] = plan[x]
          /\ \A u \in Threads \ {t} : target'[u] = target[u]
          /\ DOMAIN plan' = Users /\ DOMAIN target' = Threads
      BY <1>0, <1>3, RmpClientAssumption DEF PageFault, Planned, Users
    <2>3. Planned'
      BY <2>2 DEF Planned, Users
    <2>4. OwnAllocation'
      BY <2>1, <2>2 DEF OwnAllocation, Users
    <2> QED BY <2>1, <2>3, <2>4 DEF Faultless, Stored
  <1>4. ASSUME NEW r \in Regions, Lock(r)
        PROVE  Faultless' /\ sent' \in Seq(Asked) /\ DOMAIN addr_hndl_map' = Regions
               /\ Planned' /\ OwnAllocation' /\ Stored'
    <2>1. UNCHANGED <<addr_hndl_map, plan, target, my, c2s, spc, granted, sent, tears>>
      BY <1>4 DEF Lock, Enter, libVars, netVars, srvVars
    <2>2. /\ r \in Users /\ r \notin Threads /\ pc[r] = "lock"
          /\ \A x \in Users \ {r} : pc'[x] = pc[x]
      BY <1>0, <1>4, RmpClientAssumption DEF Lock, Enter, Users
    <2>3. Planned'
      BY <2>1, <2>2 DEF Planned, Users
    <2>4. OwnAllocation'
      BY <2>1, <2>2 DEF OwnAllocation, Users
    <2> QED BY <2>1, <2>3, <2>4 DEF Faultless, Stored
  <1>5. ASSUME NEW x \in Users, SendKills(x)
        PROVE  Faultless' /\ sent' \in Seq(Asked) /\ DOMAIN addr_hndl_map' = Regions
               /\ Planned' /\ OwnAllocation' /\ Stored'
    <2>1. UNCHANGED <<addr_hndl_map, pc, plan, target, my, c2s, spc, granted, sent, tears>>
      BY <1>5 DEF SendKills, libVars, userVars, netVars, srvVars
    <2> QED BY <2>1 DEF Faultless, Planned, OwnAllocation, Stored
  <1> QED BY <1>1, <1>2, <1>3, <1>4, <1>5

\* A request is sent: the list grows, and keeps what was in it.
LEMMA GrantSend ==
  ASSUME MaxTorn = 0, GrantInv, NEW x \in Users, Send(x) \/ SendLost(x)
  PROVE  Faultless' /\ sent' \in Seq(Asked) /\ DOMAIN addr_hndl_map' = Regions
         /\ Planned' /\ OwnAllocation' /\ Stored'
  <1> USE DEF GrantInv
  <1>1. Send(x) /\ Requested(x)
    BY DEF Send, SendLost, Faultless
  <1>2. UNCHANGED <<addr_hndl_map, plan, target, spc, granted, tears>>
    BY <1>1 DEF Requested, libVars, srvVars
  <1>3. /\ pc[x] = "send" /\ pc'[x] = "recv" /\ my'[x] = Len(sent) + 1
        /\ \A y \in Users \ {x} : pc'[y] = pc[y] /\ my'[y] = my[y]
    BY <1>1 DEF Requested, WireInv, Shape
  <1> DEFINE e == [kind |-> Head(plan[x]), region |-> IF x \in Threads THEN target[x] ELSE x]
  <1>4. sent' = Append(sent, e)
    BY <1>1 DEF Requested
  <1>5. e \in Asked
    <2>1. CASE x \in Threads
      <3>1. target[x] \in Regions /\ plan[x] = <<"map">>
        BY <1>3, <2>1 DEF Planned
      <3>2. Head(<<"map">>) = "map"
        OBVIOUS
      <3> QED BY <2>1, <3>1, <3>2 DEF Asked, Kinds
    <2>2. CASE x \notin Threads
      <3>1. x \in Regions /\ plan[x] \in FaultPlans
        BY <1>3, <2>2 DEF Planned, Users
      <3>2. \A p \in FaultPlans : Head(p) \in Kinds
        BY DEF FaultPlans, Kinds
      <3> QED BY <2>2, <3>1, <3>2 DEF Asked
    <2> QED BY <2>1, <2>2
  <1>6. x \in Threads => e = [kind |-> "map", region |-> target[x]]
    <2>1. x \in Threads => plan[x] = <<"map">>
      BY <1>3 DEF Planned
    <2>2. Head(<<"map">>) = "map"
      OBVIOUS
    <2> QED BY <2>1, <2>2
  <1>7. /\ sent' \in Seq(Asked) /\ Len(sent') = Len(sent) + 1 /\ Len(sent) \in Nat
        /\ sent'[Len(sent) + 1] = e
        /\ \A i \in 1 .. Len(sent) : i \in 1 .. Len(sent') /\ sent'[i] = sent[i]
    <2> HIDE DEF e
    <2> QED BY <1>4, <1>5
  <1>8. c2s'[1] # <<>>
    <2>1. WireInv'
      BY SendSteps
    <2>2. \A y \in Users \ {x} : pc[y] \notin Talking
      BY <1>3 DEF WireInv, TakeTurns, Talking, Users
    <2>3. \A y \in Users : pc[y] # "recv"
      BY <1>3, <2>2 DEF Talking
    <2>4. socketfd = 1 /\ 1 \in Conns /\ Sound
      BY <1>3, RmpClientAssumption DEF WireInv, Shape, Conns, Faultless, Sound
    <2>5. c2s[1] = <<>>
      BY <2>3, <2>4 DEF WireInv, InStep
    <2>6. c2s'[1] = c2s[1] \o Packet(Len(sent) + 1)
      BY <1>1, <2>4 DEF Send, WireInv, Shape
    <2> QED BY <2>5, <2>6, WholePacket
  <1>9. OwnAllocation'
    <2> HIDE DEF e
    <2> SUFFICES ASSUME NEW t \in Threads
                 PROVE  /\ pc'[t] \in {"recv", "use"} =>
                              /\ my'[t] \in 1 .. Len(sent')
                              /\ sent'[my'[t]] = [kind |-> "map", region |-> target[t]]
                        /\ pc'[t] = "use" => my'[t] \in granted
      BY <1>2, <1>8 DEF OwnAllocation
    <2>1. CASE t = x
      BY <1>3, <1>6, <1>7, <2>1
    <2>2. CASE t # x
      BY <1>3, <1>7, <2>2 DEF OwnAllocation, Users
    <2> QED BY <2>1, <2>2
  <1>10. Planned'
    BY <1>2, <1>3 DEF Planned, Users
  <1>11. Stored'
    BY <1>2, <1>7 DEF Stored
  <1> QED BY <1>2, <1>7, <1>9, <1>10, <1>11 DEF Faultless

\* An answer is received: the server has seen the request.
LEMMA GrantRecv ==
  ASSUME MaxTorn = 0, GrantInv, NEW x \in Users, Recv(x) \/ RecvEnds(x)
  PROVE  Faultless' /\ sent' \in Seq(Asked) /\ DOMAIN addr_hndl_map' = Regions
         /\ Planned' /\ OwnAllocation' /\ Stored'
  <1> USE DEF GrantInv
  <1>1. pc[x] = "recv" /\ socketfd = 1
    BY DEF Recv, RecvEnds, WireInv, Shape
  <1>2. Recv(x)
    BY <1>1 DEF RecvEnds, PeerGone, Faultless
  <1>3. UNCHANGED <<addr_hndl_map, plan, target, my, c2s, spc, granted, sent>>
    BY <1>2 DEF Recv, libVars, srvVars
  <1>4. pc'[x] = "use" /\ \A y \in Users \ {x} : pc'[y] = pc[y]
    BY <1>2 DEF Recv, WireInv, Shape
  <1>5. PICK k \in Pieces(s2c[1]) : Took(k, s2c[1])
    BY <1>1, <1>2 DEF Recv
  <1>6. c2s[1] = <<>> /\ s2c[1] = Packet(my[x])
    <2>1. s2c[1] # <<>>
      BY <1>5 DEF Pieces
    <2>2. Sound
      BY DEF Faultless, Sound
    <2> QED BY <1>1, <2>1, <2>2 DEF WireInv, UnderWay, Served
  <1>7. tears' = 0
    BY <1>5, <1>6, NoTear DEF Faultless
  <1>8. Planned'
    BY <1>1, <1>3, <1>4 DEF Planned, Users
  <1>9. OwnAllocation'
    BY <1>1, <1>3, <1>4, <1>6 DEF OwnAllocation, Users
  <1> QED BY <1>3, <1>7, <1>8, <1>9 DEF Faultless, Stored

\* The answer is used: rmp_alloc stores the handle granted to its own request.
LEMMA GrantUse ==
  ASSUME MaxTorn = 0, GrantInv,
         \/ \E t \in Threads : Allocated(t)
         \/ \E r \in Regions : NextExchange(r) \/ FaultResolved(r)
  PROVE  Faultless' /\ sent' \in Seq(Asked) /\ DOMAIN addr_hndl_map' = Regions
         /\ Planned' /\ OwnAllocation' /\ Stored'
  <1> USE DEF GrantInv
  <1>0. DOMAIN pc = Users /\ DOMAIN my = Users /\ Sound
    BY DEF WireInv, Shape, Faultless, Sound
  <1>1. ASSUME NEW t \in Threads, Allocated(t)
        PROVE  Faultless' /\ sent' \in Seq(Asked) /\ DOMAIN addr_hndl_map' = Regions
               /\ Planned' /\ OwnAllocation' /\ Stored'
    <2>1. UNCHANGED <<c2s, spc, granted, sent, tears>>
      BY <1>1 DEF Allocated, netVars, srvVars
    <2>2. /\ t \in Users /\ t \notin Regions /\ pc[t] = "use" /\ pc'[t] = "idle"
          /\ \A x \in Users \ {t} : pc'[x] = pc[x] /\ plan'[x] = plan[x] /\ my'[x] = my[x]
          /\ \A u \in Threads \ {t} : target'[u] = target[u]
          /\ DOMAIN plan' = Users /\ DOMAIN target' = Threads
      BY <1>0, <1>1, RmpClientAssumption DEF Allocated, Planned, Users
    <2>3. /\ my[t] \in granted /\ my[t] \in 1 .. Len(sent) /\ target[t] \in Regions
          /\ sent[my[t]] = [kind |-> "map", region |-> target[t]]
      BY <2>2 DEF OwnAllocation, Planned
    <2>4. return_pkt[t][1] = <<my[t], 1>>
      <3>1. return_pkt[t] = Packet(my[t])
        BY <1>0, <2>2 DEF WireInv, WholeAnswersOwn, AnswersOwn
      <3> QED BY <3>1, RmpClientAssumption DEF Packet
    <2>5. HandlesIn(<<my[t], 1>>) = {my[t]}
      <3>1. <<my[t], 1>> # Junk
        <4>1. my[t] \in Nat /\ 1 \in 1 .. PacketLen
          BY <2>3, RmpClientAssumption
        <4> QED BY <4>1, RmpClientAssumption
      <3>2. sent[my[t]].kind = "map"
        BY <2>3
      <3> QED BY <2>3, <3>1, <3>2 DEF HandlesIn
    <2>6. addr_hndl_map' = [addr_hndl_map EXCEPT ![target[t]] = my[t]]
      BY <1>1, <2>4, <2>5 DEF Allocated
    <2>7. Stored' /\ DOMAIN addr_hndl_map' = Regions
      BY <2>1, <2>3, <2>6 DEF Stored
    <2>8. Planned'
      BY <2>2 DEF Planned, Users
    <2>9. OwnAllocation'
      BY <2>1, <2>2 DEF OwnAllocation, Users
    <2> QED BY <2>1, <2>7, <2>8, <2>9 DEF Faultless
  <1>2. ASSUME NEW r \in Regions, NextExchange(r) \/ FaultResolved(r)
        PROVE  Faultless' /\ sent' \in Seq(Asked) /\ DOMAIN addr_hndl_map' = Regions
               /\ Planned' /\ OwnAllocation' /\ Stored'
    <2>1. UNCHANGED <<addr_hndl_map, c2s, spc, granted, sent, tears>>
      BY <1>2 DEF NextExchange, FaultResolved, libVars, netVars, srvVars
    <2>2. /\ r \in Users /\ r \notin Threads /\ pc[r] = "use"
          /\ \A x \in Users \ {r} : pc'[x] = pc[x] /\ plan'[x] = plan[x]
          /\ DOMAIN plan' = Users
      BY <1>0, <1>2, RmpClientAssumption DEF NextExchange, FaultResolved, Planned, Users
    <2>3. DOMAIN target' = Threads
      BY <1>2 DEF NextExchange, FaultResolved, Planned
    <2>4. \A t \in Threads : pc'[t] = "idle"
      BY <2>2 DEF WireInv, TakeTurns, Users
    <2>5. pc'[r] # "idle" => plan'[r] \in FaultPlans
      <3>1. CASE NextExchange(r)
        <4>1. plan[r] \in FaultPlans /\ Len(plan[r]) > 1 /\ plan'[r] = Tail(plan[r])
          BY <2>2, <3>1 DEF NextExchange, Planned
        <4>2. plan[r] = <<"put", "get">>
          <5>1. Len(<<"put">>) = 1 /\ Len(<<"get">>) = 1
            OBVIOUS
          <5>2. ~(1 > 1)
            OBVIOUS
          <5>3. plan[r] # <<"put">> /\ plan[r] # <<"get">>
            BY <4>1, <5>1, <5>2, Zenon
          <5> QED BY <4>1, <5>3 DEF FaultPlans
        <4>3. Tail(<<"put", "get">>) = <<"get">>
          OBVIOUS
        <4> QED BY <4>1, <4>2, <4>3 DEF FaultPlans
      <3>2. CASE FaultResolved(r)
        BY <1>0, <2>2, <3>2 DEF FaultResolved
      <3> QED BY <1>2, <3>1, <3>2
    <2>6. Planned'
      BY <2>2, <2>3, <2>4, <2>5 DEF Planned, Users
    <2>7. OwnAllocation'
      BY <2>4 DEF OwnAllocation
    <2> QED BY <2>1, <2>6, <2>7 DEF Faultless, Stored
  <1> QED BY <1>1, <1>2

\* The server grants every allocation it receives.
LEMMA GrantServer ==
  ASSUME MaxTorn = 0, ServerFaults = {}, GrantInv, connection_handler \/ ServerDies
  PROVE  Faultless' /\ sent' \in Seq(Asked) /\ DOMAIN addr_hndl_map' = Regions
         /\ Planned' /\ OwnAllocation' /\ Stored'
  <1> USE DEF GrantInv
  <1>1. CASE ServerSend
    <2>1. UNCHANGED <<addr_hndl_map, pc, plan, target, my, c2s, granted, sent, tears>>
          /\ spc' = "recv"
      BY <1>1 DEF ServerSend, libVars, userVars
    <2> QED BY <2>1 DEF Faultless, Planned, OwnAllocation, Stored
  <1>2. CASE ServerRecv
    <2>1. UNCHANGED <<addr_hndl_map, pc, plan, target, my, sent>> /\ spc' = "send"
      BY <1>2 DEF ServerRecv, libVars, userVars
    <2>2. PICK k \in Pieces(c2s[1]) :
             LET b == Filled(req, c2s[1], k)
                 alloc == b[1][2] = 1 /\ sent[b[1][1]].kind = "map" IN
             /\ Took(k, c2s[1])
             /\ \/ alloc /\ granted' = granted \cup {b[1][1]}
                \/ (alloc => "refuses" \in ServerFaults) /\ UNCHANGED granted
      BY <1>2 DEF ServerRecv, Served
    <2>3. granted \subseteq granted'
      BY <2>2
    <2>4. Sound /\ 1 \in Conns /\ c2s[1] # <<>>
      BY <2>2, RmpClientAssumption DEF Faultless, Sound, Conns, Pieces
    <2>5. \A y \in Users : pc[y] = "recv" => c2s[1] = Packet(my[y])
      BY <2>4 DEF WireInv, UnderWay, Served
    <2>6. tears' = 0
      <3>1. PICK y \in Users : pc[y] = "recv"
        BY <2>4 DEF WireInv, InStep
      <3> QED BY <2>2, <2>5, <3>1, NoTear DEF Faultless
    <2>7. ASSUME NEW t \in Threads, pc[t] = "recv"
          PROVE  my[t] \in granted'
      <3>1. t \in Users /\ c2s[1] = Packet(my[t])
        BY <2>5, <2>7 DEF Users
      <3>2. k = PacketLen
        BY <2>2, <3>1, NoTear DEF Faultless
      <3>3. Filled(req, c2s[1], k) = Packet(my[t])
        BY <3>1, <3>2, WholePacket
      <3>4. Packet(my[t])[1] = <<my[t], 1>>
        BY RmpClientAssumption DEF Packet
      <3>5. sent[my[t]].kind = "map"
        <4>1. sent[my[t]] = [kind |-> "map", region |-> target[t]]
          BY <2>7 DEF OwnAllocation
        <4> QED BY <4>1
      <3> QED BY <2>2, <3>3, <3>4, <3>5
    <2>8. OwnAllocation'
      BY <2>1, <2>3, <2>7 DEF OwnAllocation
    <2>9. Planned'
      BY <2>1 DEF Planned
    <2>10. Stored'
      BY <2>1, <2>3 DEF Stored
    <2> QED BY <2>1, <2>6, <2>8, <2>9, <2>10 DEF Faultless
  <1>3. CASE ServerDies
    BY <1>3 DEF ServerDies
  <1> QED BY <1>1, <1>2, <1>3 DEF connection_handler

(***************************************************************************)
(* "Client stores the handle by mapping it to the local address"           *)
(* (README.md): true for any number of threads and regions as long as each *)
(* recv returns a whole packet and the server neither refuses nor dies.    *)
(* A torn packet (MaxTorn > 0) or a refusal is enough to break it.         *)
(***************************************************************************)
THEOREM HandlesAreGranted ==
  ASSUME AllocAlone, MaxTorn = 0, ServerFaults = {}
  PROVE  WireSpec => []HandlesGranted
  <1>1. WireInit => GrantInv
    <2> SUFFICES ASSUME WireInit PROVE GrantInv
      OBVIOUS
    <2>1. sent \in Seq(Asked)
      BY DEF WireInit
    <2> QED BY <2>1, WireInitInv
        DEF WireInit, GrantInv, Faultless, Planned, OwnAllocation, Stored, Users
  <1>2. GrantInv /\ [WireNext]_wireVars => GrantInv'
    <2> SUFFICES ASSUME GrantInv, [WireNext]_wireVars PROVE GrantInv'
      OBVIOUS
    <2>1. WireInv'
      BY WireNextInv DEF GrantInv
    <2>2. CASE socketfd = 0 /\ rmp_init
      BY <2>1, <2>2, GrantStart DEF GrantInv
    <2>3. ASSUME NEW t \in Threads, NEW r \in Regions, rmp_alloc(t, r) \/ PageFault(t, r)
          PROVE  GrantInv'
      BY <2>1, <2>3, GrantStart DEF GrantInv
    <2>4. ASSUME NEW x \in Users, Exchange(x)
          PROVE  GrantInv'
      BY <2>1, <2>4, GrantStart, GrantSend, GrantRecv DEF GrantInv, Exchange
    <2>5. ASSUME NEW t \in Threads, Allocation(t)
          PROVE  GrantInv'
      BY <2>1, <2>4, <2>5, GrantUse DEF GrantInv, Allocation, Users
    <2>6. ASSUME NEW r \in Regions, Handler(r)
          PROVE  GrantInv'
      BY <2>1, <2>4, <2>6, GrantStart, GrantUse DEF GrantInv, Handler, Users
    <2>7. CASE connection_handler \/ ServerDies
      BY <2>1, <2>7, GrantServer DEF GrantInv
    <2>8. CASE UNCHANGED wireVars
      BY <2>1, <2>8
      DEF GrantInv, Faultless, Planned, OwnAllocation, Stored, wireVars, libVars, userVars,
          netVars, srvVars
    <2> QED BY <2>2, <2>3, <2>5, <2>6, <2>7, <2>8 DEF WireNext
  <1>3. GrantInv => HandlesGranted
    BY DEF GrantInv, Stored, HandlesGranted
  <1> QED BY <1>1, <1>2, <1>3, PTL DEF WireSpec
=============================================================================
