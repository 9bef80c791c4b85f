----------------------- MODULE KeyServiceThreadProofs -----------------------
(***************************************************************************)
(* Proofs about KeyService, first part: how a step of a thread of the       *)
(* server keeps the invariant of KeyServiceProtocol. The types of           *)
(* everything, where the server has the connections, and the phases of the  *)
(* clients.                                                                 *)
(***************************************************************************)
EXTENDS KeyServiceProtocol, SpinLockProofs, SequenceTheorems

-----------------------------------------------------------------------------
(* The service uses the lock as the lock is specified *)

(* A step of a server thread is a step of the spinlock or does not touch    *)
(* it: the handlers construct a SpinLock, wait in its constructor, and      *)
(* destroy it, in that order, and do nothing else to the lock.              *)
LEMMA ThreadLockStep ==
  ASSUME NEW p \in Ports, ServerStep(p)
  PROVE  [LockNext]_lockVars
<1> USE ThreadPerPort
<1>1. CASE ServerDispatchStore(p)
  BY <1>1 DEF ServerDispatchStore, LockNext
<1>2. CASE ServerAcquire(p)
  BY <1>2 DEF ServerAcquire, LockNext
<1>3. CASE ServerUnlock(p)
  BY <1>3 DEF ServerUnlock, LockNext
<1>4. CASE ServerListen(p) \/ ServerOpenLog(p) \/ ServerAccept(p)
  BY <1>4 DEF ServerListen, ServerOpenLog, ServerAccept
<1>5. CASE ServerRecvHead(p) \/ ServerBadMark(p) \/ ServerRecvBody(p)
             \/ ServerRecvFails(p)
  BY <1>5 DEF ServerRecvHead, ServerBadMark, ServerRecvBody, ServerRecvFails
<1>6. CASE ServerDispatchReply(p) \/ ServerDispatchUnknown(p)
  BY <1>6 DEF ServerDispatchReply, ServerDispatchUnknown
<1>7. CASE ServerStoreOp(p) \/ ServerStoreRace(p)
  BY <1>7 DEF ServerStoreOp, ServerStoreRace
<1>8. CASE ServerReplyHead(p) \/ ServerReplyBody(p) \/ ServerSigpipe(p)
             \/ ServerFree(p)
  BY <1>8 DEF ServerReplyHead, ServerReplyBody, ServerSigpipe, ServerDies,
              ServerFree
<1>9. CASE ServerClose(p) \/ ServerStop(p)
  BY <1>9 DEF ServerClose, ServerStop
<1> QED
  BY <1>1, <1>2, <1>3, <1>4, <1>5, <1>6, <1>7, <1>8, <1>9 DEF ServerStep

(* The same of any step of the service: clients, main and faults leave the  *)
(* lock alone.                                                              *)
LEMMA ServiceLockStep ==
  ASSUME [Next]_vars
  PROVE  [LockNext]_lockVars
<1>1. ASSUME NEW p \in Ports, Thread(p)
      PROVE  [LockNext]_lockVars
  BY <1>1, ThreadLockStep DEF Thread
<1>2. ASSUME NEW k \in Clients, Clientele(k)
      PROVE  UNCHANGED lockVars
  BY <1>2 DEF Clientele, serverVars
<1>3. CASE Main
  BY <1>3 DEF Main, ServerExit
<1>4. CASE Fault
  BY <1>4 DEF Fault, ServerFault, ServerListenFails, ServerOpenLogFails,
              ServerDies, serverVars
<1>5. CASE UNCHANGED vars
  BY <1>5 DEF vars, serverVars
<1> QED
  BY <1>1, <1>2, <1>3, <1>4, <1>5 DEF Next, Quiet

-----------------------------------------------------------------------------
(* Streams and jobs *)

(* Streams of at most a head and a body, and what is put on them and taken  *)
(* off.                                                                     *)
LEMMA ShortSequences ==
  ASSUME NEW x, NEW y
  PROVE  /\ <<x>> \o <<>> = <<x>> /\ <<x>> \o <<y>> = <<x, y>>
         /\ Append(<<>>, x) = <<x>> /\ Append(<<x>>, y) = <<x, y>>
         /\ Tail(<<x>>) = <<>> /\ Tail(<<x, y>>) = <<y>>
         /\ <<x>>[1] = x /\ <<x, y>>[1] = x
         /\ <<x>> # <<>> /\ <<x, y>> # <<>>
  <1>1. <<x>> \o <<>> = <<x>>
    OBVIOUS
  <1>2. Append(<<>>, x) = <<x>>
    OBVIOUS
  <1>3. Tail(<<x>>) = <<>>
    OBVIOUS
  <1>4. Tail(<<x, y>>) = <<y>>
    OBVIOUS
  <1>5. <<x>>[1] = x /\ <<x, y>>[1] = x /\ <<x, y>>[2] = y
    OBVIOUS
  <1>6. <<x>> # <<>> /\ <<x, y>> # <<>>
    OBVIOUS
  <1> DEFINE S == {x, y}
  <1>7. x \in S /\ y \in S
    OBVIOUS
  <1> HIDE DEF S
  <1>8. /\ <<x>> \in Seq(S) /\ Len(<<x>>) = 1
        /\ <<x, y>> \in Seq(S) /\ Len(<<x, y>>) = 2
    BY <1>7
  <1>9. Append(<<x>>, y) = <<x, y>>
    <2>1. /\ Append(<<x>>, y) \in Seq(S) /\ Len(Append(<<x>>, y)) = 2
          /\ Append(<<x>>, y)[1] = x /\ Append(<<x>>, y)[2] = y
      BY <1>5, <1>7, <1>8, AppendProperties
    <2>2. \A i \in 1 .. 2 : Append(<<x>>, y)[i] = <<x, y>>[i]
      <3> SUFFICES ASSUME NEW i \in 1 .. 2
                   PROVE  Append(<<x>>, y)[i] = <<x, y>>[i]
        OBVIOUS
      <3>1. i = 1 \/ i = 2
        OBVIOUS
      <3> QED
        BY <1>5, <2>1, <3>1
    <2> DEFINE s == Append(<<x>>, y)
               t == <<x, y>>
    <2>3. s \in Seq(S) /\ t \in Seq(S) /\ Len(s) = 2 /\ Len(t) = 2
      BY <1>8, <2>1
    <2>4. \A i \in 1 .. 2 : s[i] = t[i]
      BY <2>2
    <2> HIDE DEF s, t
    <2>5. s = t
      BY <2>3, <2>4, SeqEqual
    <2> QED
      BY <2>5 DEF s, t
  <1>10. <<x>> \o <<y>> = <<x, y>>
    BY <1>7, <1>8, <1>9, AppendIsConcat
  <1> QED
    BY <1>1, <1>2, <1>3, <1>4, <1>5, <1>6, <1>9, <1>10

(* A sequence is empty if its length is nought.                             *)
LEMMA EmptyLength ==
  ASSUME NEW S, NEW s \in Seq(S)
  PROVE  (s = <<>>) <=> (Len(s) = 0)
BY EmptySeq

(* The jobs of clients are command lines.                                   *)
LEMMA JobType ==
  ASSUME DataTypeOK, NEW k \in Clients
  PROVE  /\ job[k].port \in Ports /\ job[k].method \in Methods /\ job[k].data \in Datas
         /\ job[k].method = "read" => Len(job[k].data) = 1 /\ job[k].data[1] \in Keys
         /\ job[k].method = "write" /\ ParsesAsWrite(job[k].data) =>
              job[k].data[1] \in Keys /\ job[k].data[2] \in Vals
         /\ job[k].conns \in 1 .. MaxConns
  <1>1. job[k] \in CommandLines
    BY AssignmentsAssumption DEF DataTypeOK, ClientTypeOK
  <1> QED
    BY <1>1, AssignmentsAssumption DEF DataTypeOK, ClientTypeOK, CommandLines, Datas

(* What is written on a stream is a segment.                                *)
LEMMA SegTypes ==
  ASSUME NEW id \in Nat, NEW method \in Methods, NEW status \in Statuses, NEW data \in Datas
  PROVE  /\ HeadSeg(id, method, status, data) \in Heads
         /\ HeadSeg(id, method, status, data) \in Segments
         /\ BodySeg(data) \in Segments
         /\ Part \in Segments
         /\ Len(data) \in Nat
  BY LenProperties DEF HeadSeg, BodySeg, Segments, Heads, Datas

(* The types of streams, after a write and after a read.                    *)
LEMMA StreamTypes ==
  ASSUME NEW s \in Seq(Segments), NEW seg \in Segments, NEW result, NEW n
  PROVE  /\ Stored(s, seg, result) \in Seq(Segments)
         /\ BodyReady(s, n) => BodyTaken(s, n) \in Seq(Segments) /\ BodyData(s, n) \in Datas
         /\ HeadReady(s) => Tail(s) \in Seq(Segments) /\ s[1] \in Heads
  <1>1. Part \in Segments
    BY DEF Segments
  <1>2. Stored(s, seg, result) \in Seq(Segments)
    BY <1>1, AppendProperties DEF Stored
  <1>3. ASSUME s # <<>>
        PROVE  s[1] \in Segments /\ Tail(s) \in Seq(Segments)
    BY <1>3, HeadTailProperties, ElementOfSeq, EmptySeq
  <1>4. HeadReady(s) => Tail(s) \in Seq(Segments) /\ s[1] \in Heads
    BY <1>3 DEF HeadReady, Segments, Part
  <1>5. BodyReady(s, n) => BodyTaken(s, n) \in Seq(Segments) /\ BodyData(s, n) \in Datas
    <2>1. CASE n = 0
      BY <2>1, EmptySeq DEF BodyReady, BodyTaken, BodyData, Datas
    <2>2. CASE n # 0
      BY <2>2, <1>3 DEF BodyReady, BodyTaken, BodyData, Segments, Heads, Part
    <2> QED
      BY <2>1, <2>2
  <1> QED
    BY <1>2, <1>4, <1>5

-----------------------------------------------------------------------------
(* What the invariant says of the thread of a connection *)

(* The connection a thread serves, and the two cases of it.                 *)
LEMMA ConnectionOf ==
  ASSUME ProtocolInv, NEW p \in Ports, proc = "up", spc[p] \in Serving
  PROVE  \E k \in Clients, i \in 1 .. MaxConns :
           /\ cur[p] = <<k, i>> /\ cur[p] \in Conns /\ cur[p][1] = k /\ job[k].port = p
           /\ Where(<<k, i>>) = spc[p] /\ Served(<<k, i>>)
           /\ \/ i = conn_i[k] /\ <<k, i>> = ConnOf(k)
              \/ i < conn_i[k] /\ Past(<<k, i>>)
  <1>1. cur[p] # NoConn /\ PortOf(cur[p]) = p
    BY DEF ProtocolInv, NetInv, QueueInv
  <1>2. cur[p] \in Conns
    BY <1>1 DEF ProtocolInv, DataTypeOK, ServerTypeOK
  <1>3. PICK k \in Clients, i \in 1 .. MaxConns : cur[p] = <<k, i>>
    BY <1>2 DEF Conns
  <1>4. cur[p][1] = k /\ job[k].port = p /\ PortOf(<<k, i>>) = p
    BY <1>1, <1>3 DEF PortOf
  <1>5. Where(<<k, i>>) = spc[p]
    BY <1>3, <1>4 DEF Where
  <1>6. Served(<<k, i>>)
    BY <1>5 DEF Served, Serving
  <1>7. ~Fresh(<<k, i>>)
    BY <1>6 DEF Fresh
  <1>8. ~(i > conn_i[k]) /\ (i < conn_i[k] => Past(<<k, i>>))
    BY <1>7 DEF ProtocolInv, OthersInv
  <1>9. i \in Int /\ conn_i[k] \in Int
    BY DEF ProtocolInv, DataTypeOK, ClientTypeOK
  <1>10. i = conn_i[k] \/ i < conn_i[k]
    BY <1>8, <1>9
  <1> QED
    BY <1>2, <1>3, <1>4, <1>5, <1>6, <1>8, <1>10 DEF ConnOf

(* A thread past recv_head is on the current connection of its client, with *)
(* the client's request in hand.                                            *)
LEMMA ThreadHandles ==
  ASSUME ProtocolInv, NEW p \in Ports, proc = "up",
         spc[p] \in {"recv_body", "dispatch", "store_op", "unlock", "reply_head"}
  PROVE  \E k \in Clients :
           /\ cur[p] = ConnOf(k) /\ cur[p] \in Conns /\ cur[p][1] = k /\ job[k].port = p
           /\ Where(ConnOf(k)) = spc[p] /\ creq[k] # NoReq
           /\ spc[p] = "recv_body" => HeadTaken(k)
           /\ spc[p] # "recv_body" => Handled(k)
  <1>1. PICK k \in Clients, i \in 1 .. MaxConns :
           /\ cur[p] = <<k, i>> /\ cur[p] \in Conns /\ cur[p][1] = k /\ job[k].port = p
           /\ Where(<<k, i>>) = spc[p] /\ Served(<<k, i>>)
           /\ \/ i = conn_i[k] /\ <<k, i>> = ConnOf(k)
              \/ i < conn_i[k] /\ Past(<<k, i>>)
    BY ConnectionOf DEF Serving
  <1>2. ~Past(<<k, i>>)
    BY <1>1 DEF Past, Late
  <1>3. <<k, i>> = ConnOf(k)
    BY <1>1, <1>2
  <1>4. \/ Idle(k) \/ Underway(k) \/ HeadTaken(k) \/ Handled(k)
        \/ Replying(k) \/ Replied(k) \/ Refused(k)
    BY <1>1, <1>3 DEF ProtocolInv, PhaseInv, Phase
  <1>5. ~Idle(k) /\ ~Underway(k) /\ ~Replying(k) /\ ~Replied(k) /\ ~Refused(k)
    BY <1>1, <1>3 DEF Idle, Underway, Replying, Replied, Refused, Late
  <1>6. /\ spc[p] = "recv_body" => HeadTaken(k)
        /\ spc[p] # "recv_body" => Handled(k)
    BY <1>1, <1>3, <1>4, <1>5 DEF HeadTaken, Handled
  <1>7. creq[k] # NoReq
    BY <1>4, <1>5 DEF HeadTaken, Handled
  <1> QED
    BY <1>1, <1>3, <1>6, <1>7

(* A thread at recv_head that finds a head finds that of a request underway.*)
LEMMA ThreadTakes ==
  ASSUME ProtocolInv, NEW p \in Ports, proc = "up", spc[p] = "recv_head", HeadReady(up[cur[p]])
  PROVE  \E k \in Clients :
           /\ cur[p] = ConnOf(k) /\ cur[p] \in Conns /\ cur[p][1] = k /\ job[k].port = p
           /\ Where(ConnOf(k)) = spc[p] /\ Underway(k)
  <1>1. PICK k \in Clients, i \in 1 .. MaxConns :
           /\ cur[p] = <<k, i>> /\ cur[p] \in Conns /\ cur[p][1] = k /\ job[k].port = p
           /\ Where(<<k, i>>) = spc[p] /\ Served(<<k, i>>)
           /\ \/ i = conn_i[k] /\ <<k, i>> = ConnOf(k)
              \/ i < conn_i[k] /\ Past(<<k, i>>)
    BY ConnectionOf DEF Serving
  <1>2. up[cur[p]] # <<>>
    BY DEF HeadReady
  <1>3. <<k, i>> = ConnOf(k)
    BY <1>1, <1>2 DEF Past
  <1>4. \/ Idle(k) \/ Underway(k) \/ HeadTaken(k) \/ Handled(k)
        \/ Replying(k) \/ Replied(k) \/ Refused(k)
    BY <1>1, <1>3 DEF ProtocolInv, PhaseInv, Phase
  <1>5. ~Idle(k) /\ ~HeadTaken(k) /\ ~Handled(k) /\ ~Replying(k) /\ ~Replied(k) /\ ~Refused(k)
    BY <1>1, <1>2, <1>3 DEF Idle, HeadTaken, Handled, Replying, Replied, Refused
  <1> QED
    BY <1>1, <1>3, <1>4, <1>5

(* What such a thread takes.                                                *)
LEMMA RequestTaken ==
  ASSUME NEW k \in Clients, Underway(k)
  PROVE  /\ HeadReady(up[ConnOf(k)])
         /\ up[ConnOf(k)][1] = RequestHead(k)
         /\ Tail(up[ConnOf(k)]) \in Tails(creq[k].data)
         /\ Requested(k, Tail(up[ConnOf(k)]))
  <1>1. PICK tail \in Tails(creq[k].data) :
          up[ConnOf(k)] = <<RequestHead(k)>> \o tail /\ Requested(k, tail)
    BY DEF Underway
  <1>2. tail = <<>> \/ \E x : tail = <<x>>
    BY DEF Tails
  <1>3. /\ up[ConnOf(k)][1] = RequestHead(k) /\ Tail(up[ConnOf(k)]) = tail
        /\ up[ConnOf(k)] # <<>>
    <2>1. CASE tail = <<>>
      <3>1. up[ConnOf(k)] = <<RequestHead(k)>>
        BY <1>1, <2>1, ShortSequences
      <3> QED
        BY <2>1, <3>1, ShortSequences
    <2>2. ASSUME NEW x, tail = <<x>>
          PROVE  <1>3
      <3>1. up[ConnOf(k)] = <<RequestHead(k), x>>
        BY <1>1, <2>2, ShortSequences
      <3> QED
        BY <2>2, <3>1, ShortSequences
    <2> QED
      BY <1>2, <2>1, <2>2
  <1>4. RequestHead(k).seg = "head"
    BY DEF RequestHead, HeadSeg
  <1> QED
    BY <1>1, <1>3, <1>4 DEF HeadReady

-----------------------------------------------------------------------------
(* Types *)

(* What write() of the server puts on a stream, by type.                    *)
LEMMA ServerWritesTyped ==
  ASSUME DataTypeOK, NEW p \in Ports, NEW seg \in Segments, NEW result,
         cur[p] \in Conns, ServerWrites(p, seg, result)
  PROVE  NetTypeOK'
  <1>1. Stored(down[cur[p]], seg, result) \in Seq(Segments)
    BY StreamTypes DEF DataTypeOK, NetTypeOK
  <1>2. down' \in [Conns -> Seq(Segments)]
    BY <1>1 DEF ServerWrites, DataTypeOK, NetTypeOK
  <1>3. reset' \subseteq Conns
    BY DEF ServerWrites, Sent, DataTypeOK, NetTypeOK
  <1> QED
    BY <1>2, <1>3 DEF ServerWrites, DataTypeOK, NetTypeOK

(* The kernel's work when an end is closed, by type.                        *)
LEMMA ClosingTyped ==
  ASSUME DataTypeOK
  PROVE  /\ \A c \in Conns : ClientEndClosed(c) => NetTypeOK'
         /\ \A c \in Conns : ServerEndClosed(c) => NetTypeOK'
         /\ \A p \in Ports : ListenClosed(p) => NetTypeOK'
         /\ ServerHostClosed => NetTypeOK'
  <1>1. ASSUME NEW p \in Ports
        PROVE  Unaccepted({p}) \subseteq Conns
    <2>1. queue[p] \in Seq(Conns)
      BY DEF DataTypeOK, NetTypeOK
    <2> QED
      BY <2>1, LenProperties, ElementOfSeq DEF Unaccepted
  <1>2. Unaccepted(Ports) \subseteq Conns
    <2>1. \A p \in Ports : queue[p] \in Seq(Conns)
      BY DEF DataTypeOK, NetTypeOK
    <2> QED
      BY <2>1, LenProperties, ElementOfSeq DEF Unaccepted
  <1>3. <<>> \in Seq(Conns)
    BY EmptySeq
  <1>4. ASSUME NEW c \in Conns, ClientEndClosed(c) PROVE NetTypeOK'
    BY <1>4 DEF ClientEndClosed, DataTypeOK, NetTypeOK
  <1>5. ASSUME NEW c \in Conns, ServerEndClosed(c) PROVE NetTypeOK'
    BY <1>5 DEF ServerEndClosed, DataTypeOK, NetTypeOK
  <1>6. ASSUME NEW p \in Ports, ListenClosed(p) PROVE NetTypeOK'
    <2>1. reset' \subseteq Conns
      BY <1>6, <1>1 DEF ListenClosed, DataTypeOK, NetTypeOK
    <2>2. sv_open' \in [Conns -> BOOLEAN]
      BY <1>6 DEF ListenClosed, DataTypeOK, NetTypeOK
    <2> QED
      BY <1>6, <1>3, <2>1, <2>2 DEF ListenClosed, DataTypeOK, NetTypeOK
  <1>7. ASSUME ServerHostClosed PROVE NetTypeOK'
    <2>1. reset' \subseteq Conns
      BY <1>7, <1>2 DEF ServerHostClosed, DataTypeOK, NetTypeOK
    <2> QED
      BY <1>7, <1>3, <2>1 DEF ServerHostClosed, DataTypeOK, NetTypeOK
  <1> QED
    BY <1>4, <1>5, <1>6, <1>7

(* What a request is answered with, by type.                                *)
LEMMA ResultsTyped ==
  ASSUME DataTypeOK, NEW k \in Clients
  PROVE  /\ Immediate(job[k].method, job[k].data) =>
              ImmediateResult(job[k].method, job[k].data) \in Responses
         /\ job[k].method \in {"read", "write"} /\ ~Immediate(job[k].method, job[k].data) =>
              /\ StoreAfter(keystore, job[k].method, job[k].data) \in [Keys -> Vals \cup {NoVal}]
              /\ StoreResult(keystore, job[k].method, job[k].data) \in Responses
              /\ SomeResult(job[k].method) \subseteq Responses
  <1>1. keystore \in [Keys -> Vals \cup {NoVal}]
    BY DEF DataTypeOK, ServerTypeOK
  <1>2. <<>> \in Datas /\ \A v \in Vals : <<v>> \in Datas
    <2>1. <<>> \in Datas
      BY EmptySeq DEF Datas
    <2>2. ASSUME NEW v \in Vals PROVE <<v>> \in Datas
      <3>1. v \in Keys \cup Vals
        OBVIOUS
      <3> DEFINE S == Keys \cup Vals
      <3> HIDE DEF S
      <3>2. <<v>> \in Seq(S)
        BY <3>1 DEF S
      <3> QED
        BY <3>2 DEF S, Datas
    <2> QED
      BY <2>1, <2>2
  <1>3. ASSUME NEW status \in Statuses, NEW data \in Datas
        PROVE  [status |-> status, data |-> data] \in Responses
    BY DEF Responses, Datas
  <1>4. job[k].data \in Datas
    BY JobType
  <1>5. Immediate(job[k].method, job[k].data) =>
          ImmediateResult(job[k].method, job[k].data) \in Responses
    BY <1>2, <1>3, <1>4 DEF ImmediateResult, Statuses
  <1>6. ASSUME job[k].method \in {"read", "write"}, ~Immediate(job[k].method, job[k].data)
        PROVE  /\ StoreAfter(keystore, job[k].method, job[k].data)
                    \in [Keys -> Vals \cup {NoVal}]
               /\ StoreResult(keystore, job[k].method, job[k].data) \in Responses
               /\ SomeResult(job[k].method) \subseteq Responses
    <2>1. job[k].data[1] \in Keys
      BY <1>6, JobType DEF Immediate
    <2>2. job[k].method = "write" => job[k].data[2] \in Vals
      BY <1>6, JobType DEF Immediate
    <2>3. StoreAfter(keystore, job[k].method, job[k].data) \in [Keys -> Vals \cup {NoVal}]
      BY <1>1, <2>1, <2>2 DEF StoreAfter
    <2>4. StoreResult(keystore, job[k].method, job[k].data) \in Responses
      BY <1>1, <1>2, <1>3, <2>1 DEF StoreResult, Statuses
    <2>5. SomeResult(job[k].method) \subseteq Responses
      BY <1>2, <1>3 DEF SomeResult, Statuses
    <2> QED
      BY <2>3, <2>4, <2>5
  <1> QED
    BY <1>5, <1>6

(* What a thread that handles a request has in hand is its client's job.    *)
LEMMA HandlesJob ==
  ASSUME ProtocolInv, NEW p \in Ports, proc = "up",
         spc[p] \in {"dispatch", "store_op", "unlock", "reply_head"}
  PROVE  \E k \in Clients :
           /\ cur[p] = ConnOf(k) /\ cur[p] \in Conns /\ cur[p][1] = k /\ job[k].port = p
           /\ Where(ConnOf(k)) = spc[p] /\ Handled(k)
           /\ req[p].method = job[k].method /\ req[p].data = job[k].data
           /\ req[p].id = creq[k].id /\ creq[k] \in Requests
           /\ creq[k].method = job[k].method /\ creq[k].data = job[k].data
  <1>1. PICK k \in Clients :
           /\ cur[p] = ConnOf(k) /\ cur[p] \in Conns /\ cur[p][1] = k /\ job[k].port = p
           /\ Where(ConnOf(k)) = spc[p] /\ Handled(k) /\ creq[k] # NoReq
    BY ThreadHandles
  <1>2. creq[k] \in Requests
    BY <1>1 DEF ProtocolInv, DataTypeOK, ClientTypeOK
  <1>3. creq[k].method = job[k].method /\ creq[k].data = job[k].data
    BY <1>1 DEF ProtocolInv, ClientInv, ClientOK
  <1> QED
    BY <1>1, <1>2, <1>3 DEF Handled, InHand

(* Every step of a thread, and every fault of the server, keeps the types.  *)
LEMMA ServerTypes ==
  ASSUME ProtocolInv, NEW p \in Ports, ServerStep(p)
  PROVE  NetTypeOK' /\ ServerTypeOK'
  <1> USE DEF ServerPC
  <1>1. DataTypeOK /\ NetTypeOK /\ ServerTypeOK
    BY DEF ProtocolInv, DataTypeOK
  <1>2. CASE ServerListen(p) \/ ServerOpenLog(p)
    BY <1>1, <1>2
       DEF ServerListen, ServerOpenLog, Goto, TcpListen, NetTypeOK, ServerTypeOK,
           netVars
  <1>3. CASE ServerAccept(p)
    <2>1. queue[p] \in Seq(Conns) /\ queue[p] # <<>>
      BY <1>1, <1>3 DEF ServerAccept, TcpAccept, NetTypeOK
    <2>2. queue[p][1] \in Conns /\ Tail(queue[p]) \in Seq(Conns)
      BY <2>1, HeadTailProperties, EmptySeq, ElementOfSeq
    <2> QED
      BY <1>1, <1>3, <2>2 DEF ServerAccept, TcpAccept, Goto, NetTypeOK, ServerTypeOK
  <1>4. CASE ServerRecvHead(p)
    <2>1. cur[p] \in Conns
      BY <1>4, ThreadTakes DEF ServerRecvHead, Goto
    <2>2. /\ Tail(up[cur[p]]) \in Seq(Segments) /\ up[cur[p]][1] \in Heads
      BY <1>1, <1>4, <2>1, StreamTypes, EmptySeq DEF ServerRecvHead, NetTypeOK, Segments
    <2>3. <<>> \in Datas
      BY EmptySeq DEF Datas
    <2>4. NetTypeOK'
      BY <1>1, <1>4, <2>2 DEF ServerRecvHead, NetTypeOK
    <2>5. HeadIn(p).id \in Nat /\ HeadIn(p).method \in Methods /\ HeadIn(p).data_len \in Nat
      BY <2>2 DEF HeadIn, Heads
    <2> QED
      BY <1>1, <1>4, <2>3, <2>4, <2>5 DEF ServerRecvHead, Goto, ServerTypeOK
  <1>5. CASE ServerBadMark(p) \/ ServerRecvFails(p)
    BY <1>1, <1>5
       DEF ServerBadMark, ServerRecvFails, Goto, NetTypeOK, ServerTypeOK, netVars
  <1>6. CASE ServerRecvBody(p)
    <2>1. cur[p] \in Conns /\ cur[p][1] \in Clients
      BY <1>6, ThreadHandles DEF ServerRecvBody, Goto
    <2> DEFINE n == req[p].data_len
    <2>2. /\ BodyTaken(up[cur[p]], n) \in Seq(Segments) /\ BodyData(up[cur[p]], n) \in Datas
      <3>1. Part \in Segments /\ BodyReady(up[cur[p]], n)
        BY <1>6 DEF Segments, ServerRecvBody
      <3> QED
        BY <1>1, <2>1, <3>1, StreamTypes DEF NetTypeOK
    <2>3. NetTypeOK'
      BY <1>1, <1>6, <2>2 DEF ServerRecvBody, NetTypeOK
    <2>4. req' \in [Ports -> [id : Nat, method : Methods \cup {"none"}, data_len : Nat, data : Datas]]
      BY <1>1, <1>6, <2>2 DEF ServerRecvBody, ServerTypeOK
    <2>5. LogRecord(p, "Request") \in {"Request", "Response"} \X Clients \X Nat \X (Methods \cup {"none"})
      BY <1>1, <2>1 DEF LogRecord, ServerTypeOK
    <2>6. slog' \in [Ports -> Seq({"Request", "Response"} \X Clients \X Nat \X (Methods \cup {"none"}))]
      BY <1>1, <1>6, <2>5, AppendProperties DEF ServerRecvBody, ServerTypeOK
    <2> QED
      BY <1>1, <1>6, <2>3, <2>4, <2>6 DEF ServerRecvBody, Goto, ServerTypeOK
  <1>7. CASE ServerDispatchReply(p)
    <2>1. ImmediateResult(req[p].method, req[p].data) \in Responses
      BY <1>1, <1>7, HandlesJob, ResultsTyped DEF ServerDispatchReply, Goto
    <2> QED
      BY <1>1, <1>7, <2>1
         DEF ServerDispatchReply, Goto, NetTypeOK, ServerTypeOK, netVars
  <1>8. CASE ServerDispatchStore(p) \/ ServerDispatchUnknown(p) \/ ServerUnlock(p)
    BY <1>1, <1>8
       DEF ServerDispatchStore, ServerDispatchUnknown, ServerUnlock, Goto, NetTypeOK,
           ServerTypeOK, netVars
  <1>9. CASE ServerAcquire(p)
    BY <1>1, <1>9 DEF ServerAcquire, NetTypeOK, ServerTypeOK, netVars
  <1>10. CASE ServerStoreOp(p) \/ ServerStoreRace(p)
    <2>1. PICK k \in Clients :
            /\ req[p].method = job[k].method /\ req[p].data = job[k].data
            /\ Where(ConnOf(k)) = "store_op" /\ Handled(k)
            /\ creq[k].method = job[k].method /\ creq[k].data = job[k].data
      BY <1>10, HandlesJob DEF ServerStoreOp, ServerStoreRace, Goto
    <2>2. job[k].method \in {"read", "write"} /\ ~Immediate(job[k].method, job[k].data)
      BY <2>1 DEF Handled
    <2>3. /\ StoreAfter(keystore, req[p].method, req[p].data) \in [Keys -> Vals \cup {NoVal}]
          /\ StoreResult(keystore, req[p].method, req[p].data) \in Responses
          /\ SomeResult(req[p].method) \subseteq Responses
      BY <1>1, <2>1, <2>2, ResultsTyped
    <2>4. CASE ServerStoreOp(p)
      BY <1>1, <2>3, <2>4 DEF ServerStoreOp, Goto, NetTypeOK, ServerTypeOK, netVars
    <2>5. CASE ServerStoreRace(p)
      BY <1>1, <2>3, <2>5 DEF ServerStoreRace, Goto, NetTypeOK, ServerTypeOK, netVars
    <2> QED
      BY <1>10, <2>4, <2>5
  <1>11. CASE ServerReplyHead(p)
    <2>1. cur[p] \in Conns /\ req[p].id \in Nat /\ req[p].method \in Methods
      BY <1>11, HandlesJob, JobType, <1>1 DEF ServerReplyHead, Goto, Requests
    <2>2. res[p] \in Responses
      BY <1>1, <1>11
         DEF ServerReplyHead, Goto, ProtocolInv, NetInv, QueueInv, ServerTypeOK
    <2>3. HeadSeg(req[p].id, req[p].method, res[p].status, res[p].data) \in Segments
      BY <2>1, <2>2, SegTypes DEF Responses, Datas
    <2>4. NetTypeOK'
      BY <1>1, <1>11, <2>1, <2>3, ServerWritesTyped DEF ServerReplyHead
    <2> QED
      BY <1>1, <1>11, <2>4 DEF ServerReplyHead, Goto, ServerTypeOK
  <1>12. CASE ServerReplyBody(p)
    <2>1. cur[p] \in Conns /\ cur[p][1] \in Clients
      BY <1>12, ConnectionOf DEF ServerReplyBody, Goto, Serving
    <2>2. res[p] \in Responses
      BY <1>1, <1>12
         DEF ServerReplyBody, Goto, ProtocolInv, NetInv, QueueInv, ServerTypeOK
    <2>3. BodySeg(res[p].data) \in Segments
      BY <2>2 DEF Responses, Segments, BodySeg, Datas
    <2>4. NetTypeOK'
      BY <1>1, <1>12, <2>1, <2>3, ServerWritesTyped DEF ServerReplyBody
    <2>5. LogRecord(p, "Response") \in {"Request", "Response"} \X Clients \X Nat \X (Methods \cup {"none"})
      BY <1>1, <2>1 DEF LogRecord, ServerTypeOK
    <2>6. slog' \in [Ports -> Seq({"Request", "Response"} \X Clients \X Nat \X (Methods \cup {"none"}))]
      BY <1>1, <1>12, <2>5, AppendProperties DEF ServerReplyBody, ServerTypeOK
    <2> QED
      BY <1>1, <1>12, <2>4, <2>6 DEF ServerReplyBody, Goto, ServerTypeOK
  <1>13. CASE ServerSigpipe(p)
    BY <1>1, <1>13, ClosingTyped DEF ServerSigpipe, ServerDies, ServerTypeOK
  <1>14. CASE ServerFree(p)
    <2>1. live[p] - 1 \in Nat
      BY <1>1, <1>14 DEF ServerFree, Goto, ProtocolInv, HeapInv, HeapOK, ServerTypeOK
    <2>2. NoRequest \in [id : Nat, method : Methods \cup {"none"}, data_len : Nat, data : Datas]
      BY EmptySeq DEF NoRequest, Datas
    <2> QED
      BY <1>1, <1>14, <2>1, <2>2 DEF ServerFree, Goto, NetTypeOK, ServerTypeOK, netVars
  <1>15. CASE ServerClose(p)
    <2>1. cur[p] \in Conns
      BY <1>15, ConnectionOf DEF ServerClose, Goto, Serving
    <2>2. NoRequest \in [id : Nat, method : Methods \cup {"none"}, data_len : Nat, data : Datas]
      BY EmptySeq DEF NoRequest, Datas
    <2> QED
      BY <1>1, <1>15, <2>1, <2>2, ClosingTyped DEF ServerClose, Goto, ServerTypeOK
  <1>16. CASE ServerStop(p)
    BY <1>1, <1>16, ClosingTyped DEF ServerStop, Goto, ServerTypeOK
  <1> QED
    BY <1>2, <1>3, <1>4, <1>5, <1>6, <1>7, <1>8, <1>9, <1>10, <1>11, <1>12, <1>13,
       <1>14, <1>15, <1>16
       DEF ServerStep

(* The faults of the server, and the end of main, by type.                  *)
LEMMA ServerEndTypes ==
  ASSUME DataTypeOK
  PROVE  /\ \A p \in Ports : ServerFault(p) => NetTypeOK' /\ ServerTypeOK'
         /\ ServerDies => NetTypeOK' /\ ServerTypeOK'
         /\ ServerExit => NetTypeOK' /\ ServerTypeOK'
  <1>1. NetTypeOK /\ ServerTypeOK
    BY DEF DataTypeOK
  <1>2. ServerDies => NetTypeOK' /\ ServerTypeOK'
    BY <1>1, ClosingTyped DEF ServerDies, ServerTypeOK
  <1>3. ASSUME NEW p \in Ports, ServerListenFails(p)
        PROVE  NetTypeOK' /\ ServerTypeOK'
    BY <1>1, <1>3
       DEF ServerListenFails, Goto, NetTypeOK, ServerTypeOK, netVars, ServerPC
  <1>4. ServerExit => NetTypeOK' /\ ServerTypeOK'
    BY <1>1 DEF ServerExit, NetTypeOK, ServerTypeOK, netVars
  <1> QED
    BY <1>2, <1>3, <1>4 DEF ServerFault, ServerOpenLogFails

(* What write() of a client puts on a stream, by type.                      *)
LEMMA ClientWritesTyped ==
  ASSUME DataTypeOK, NEW k \in Clients, NEW seg \in Segments, NEW result,
         NEW next \in ClientPC, ClientWrites(k, seg, result, next)
  PROVE  NetTypeOK' /\ cpc' \in [Clients -> ClientPC]
  <1>1. ConnOf(k) \in Conns
    BY DEF ConnOf, Conns, DataTypeOK, ClientTypeOK
  <1>2. Stored(up[ConnOf(k)], seg, result) \in Seq(Segments)
    BY <1>1, StreamTypes, EmptySeq DEF DataTypeOK, NetTypeOK
  <1>3. up' \in [Conns -> Seq(Segments)]
    BY <1>2 DEF ClientWrites, DataTypeOK, NetTypeOK
  <1>4. reset' \subseteq Conns
    BY <1>1 DEF ClientWrites, Sent, DataTypeOK, NetTypeOK
  <1>5. cpc' \in [Clients -> ClientPC]
    BY DEF ClientWrites, DataTypeOK, ClientTypeOK, ClientPC, Ended
  <1> QED
    BY <1>3, <1>4, <1>5 DEF ClientWrites, DataTypeOK, NetTypeOK

(* Every step of a client keeps the types.                                  *)
LEMMA ClientTypes ==
  ASSUME ProtocolInv, NEW k \in Clients, ClientStep(k) \/ ClientKilled(k)
  PROVE  NetTypeOK' /\ ClientTypeOK'
  <1>1. DataTypeOK /\ NetTypeOK /\ ClientTypeOK
    BY DEF ProtocolInv, DataTypeOK
  <1>2. ConnOf(k) \in Conns
    BY <1>1 DEF ConnOf, Conns, ClientTypeOK
  <1>3. CASE ClientConnect(k)
    <2>1. queue' \in [Ports -> Seq(Conns)]
      BY <1>1, <1>2, <1>3, JobType, AppendProperties
         DEF ClientConnect, TcpConnect, NetTypeOK
    <2> QED
      BY <1>1, <1>2, <1>3, <2>1
         DEF ClientConnect, TcpConnect, NetTypeOK, ClientTypeOK, ClientPC
  <1>4. CASE ClientConnectFails(k)
    BY <1>1, <1>4
       DEF ClientConnectFails, NetTypeOK, ClientTypeOK, ClientPC, Ended, netVars
  <1>5. CASE ClientSendHead(k)
    <2> DEFINE r == [id |-> next_rpc_id[k], method |-> job[k].method, data |-> job[k].data]
    <2>1. /\ creq' = [creq EXCEPT ![k] = r]
          /\ \E result : ClientWrites(k, HeadSeg(r.id, r.method, "Ok", r.data), result, "send_body")
      BY <1>5 DEF ClientSendHead, GenBody
    <2>2. r \in Requests
      BY <1>1, JobType DEF Requests, ClientTypeOK, Datas
    <2>3. HeadSeg(r.id, r.method, "Ok", r.data) \in Segments
      BY <2>2, SegTypes DEF Requests, Statuses, Datas
    <2> HIDE DEF r
    <2>4. "send_body" \in ClientPC
      BY DEF ClientPC
    <2>5. NetTypeOK' /\ cpc' \in [Clients -> ClientPC]
      BY <1>1, <2>1, <2>3, <2>4, ClientWritesTyped
    <2>6. creq' \in [Clients -> Requests \cup {NoReq}]
      BY <1>1, <2>1, <2>2 DEF ClientTypeOK
    <2>7. next_rpc_id' \in [Clients -> Nat]
      BY <1>1, <1>5 DEF ClientSendHead, ClientTypeOK
    <2> QED
      BY <1>1, <1>5, <2>5, <2>6, <2>7 DEF ClientSendHead, ClientTypeOK
  <1>6. CASE ClientSendBody(k)
    <2>1. creq[k] \in Requests
      BY <1>1, <1>6 DEF ClientSendBody, ProtocolInv, ClientInv, ClientOK, ClientTypeOK
    <2>2. BodySeg(creq[k].data) \in Segments
      BY <2>1 DEF Requests, Segments, BodySeg, Datas
    <2>3. "recv_head" \in ClientPC
      BY DEF ClientPC
    <2>4. NetTypeOK' /\ cpc' \in [Clients -> ClientPC]
      BY <1>1, <1>6, <2>2, <2>3, ClientWritesTyped DEF ClientSendBody
    <2>5. <<"Request", creq[k].id>> \in {"Request", "Response"} \X Nat
      BY <2>1 DEF Requests
    <2>6. clog' \in [Clients -> Seq({"Request", "Response"} \X Nat)]
      BY <1>1, <1>6, <2>5, AppendProperties DEF ClientSendBody, ClientTypeOK
    <2> QED
      BY <1>1, <1>6, <2>4, <2>6 DEF ClientSendBody, ClientTypeOK
  <1>7. CASE ClientRecvHead(k)
    <2>1. /\ Tail(down[ConnOf(k)]) \in Seq(Segments) /\ down[ConnOf(k)][1] \in Heads
      <3>1. Part \in Segments
        BY DEF Segments
      <3> QED
        BY <1>1, <1>2, <1>7, <3>1, StreamTypes DEF ClientRecvHead, NetTypeOK
    <2> QED
      BY <1>1, <1>2, <1>7, <2>1 DEF ClientRecvHead, NetTypeOK, ClientTypeOK, ClientPC
  <1>8. CASE ClientRecvBody(k)
    <2>1. rhead[k] \in Heads
      BY <1>1, <1>8 DEF ClientRecvBody, ProtocolInv, ClientInv, ClientOK, ClientTypeOK
    <2> DEFINE n == rhead[k].data_len
    <2>2. /\ BodyTaken(down[ConnOf(k)], n) \in Seq(Segments)
          /\ BodyData(down[ConnOf(k)], n) \in Datas
      <3>1. Part \in Segments /\ BodyReady(down[ConnOf(k)], n)
        BY <1>8 DEF Segments, ClientRecvBody
      <3> QED
        BY <1>1, <1>2, <3>1, StreamTypes DEF NetTypeOK
    <2>3. NetTypeOK'
      BY <1>1, <1>2, <1>8, <2>2 DEF ClientRecvBody, NetTypeOK
    <2>4. heard' \in [Clients -> Answers \cup {Nothing}]
      BY <1>1, <1>8, <2>1, <2>2 DEF ClientRecvBody, ClientTypeOK, Answers, Heads, Datas
    <2>5. <<"Response", rhead[k].id>> \in {"Request", "Response"} \X Nat
      BY <2>1 DEF Heads
    <2>6. clog' \in [Clients -> Seq({"Request", "Response"} \X Nat)]
      BY <1>1, <1>8, <2>5, AppendProperties DEF ClientRecvBody, ClientTypeOK
    <2> QED
      BY <1>1, <1>8, <2>3, <2>4, <2>6 DEF ClientRecvBody, ClientTypeOK, ClientPC
  <1>9. CASE ClientRecvFails(k) \/ ClientKilled(k)
    BY <1>1, <1>2, <1>9, ClosingTyped
       DEF ClientRecvFails, ClientKilled, ClientTypeOK, ClientPC, Ended
  <1>10. CASE ClientClose(k)
    <2>1. conn_i[k] \in Nat /\ job[k].conns \in 1 .. MaxConns /\ conn_i[k] <= job[k].conns
      BY <1>1, JobType, ConnsAssumption DEF ClientTypeOK
    <2>2. NetTypeOK'
      BY <1>1, <1>2, <1>10, ClosingTyped DEF ClientClose
    <2>3. conn_i[k] < job[k].conns => conn_i[k] + 1 \in 1 .. MaxConns /\ conn_i[k] + 1 <= job[k].conns
      BY <2>1, ConnsAssumption
    <2>4. conn_i' \in [Clients -> 1 .. MaxConns] /\ \A j \in Clients : conn_i'[j] <= job[j].conns
      BY <1>1, <1>10, <2>1, <2>3 DEF ClientClose, ClientTypeOK
    <2>5. cpc' \in [Clients -> ClientPC] /\ rpc_j' \in [Clients -> Nat]
      BY <1>1, <1>10 DEF ClientClose, ClientTypeOK, ClientPC, Ended
    <2> QED
      BY <1>1, <1>10, <2>2, <2>4, <2>5 DEF ClientClose, ClientTypeOK
  <1> QED
    BY <1>3, <1>4, <1>5, <1>6, <1>7, <1>8, <1>9, <1>10 DEF ClientStep

(* Every step keeps every type.                                             *)
LEMMA TypeStep ==
  ASSUME ProtocolInv, [Next]_vars
  PROVE  DataTypeOK'
  <1>1. DataTypeOK /\ NetTypeOK /\ ClientTypeOK /\ ServerTypeOK /\ LockTypeOK
    BY DEF ProtocolInv, DataTypeOK
  <1>2. LockTypeOK'
    BY <1>1, ServiceLockStep, LockTypeStep
  <1>3. performed \in [Clients -> Responses \cup {NoRes}] /\ faults \in 0 .. MaxFaults
    BY <1>1 DEF DataTypeOK
  <1>4. ASSUME NEW k \in Clients, Clientele(k)
        PROVE  DataTypeOK'
    <2>1. NetTypeOK' /\ ClientTypeOK'
      BY <1>4, ClientTypes DEF Clientele
    <2>2. ServerTypeOK'
      BY <1>1, <1>4 DEF Clientele, serverVars, ServerTypeOK
    <2>3. performed' \in [Clients -> Responses \cup {NoRes}]
      BY <1>3, <1>4 DEF Clientele, Forgotten
    <2> QED
      BY <1>2, <1>3, <1>4, <2>1, <2>2, <2>3 DEF Clientele, DataTypeOK
  <1>5. ASSUME NEW p \in Ports, Thread(p)
        PROVE  DataTypeOK'
    <2>1. NetTypeOK' /\ ServerTypeOK'
      BY <1>5, ServerTypes DEF Thread
    <2>2. ClientTypeOK'
      BY <1>1, <1>5 DEF Thread, clientVars, ClientTypeOK
    <2>3. performed' \in [Clients -> Responses \cup {NoRes}]
      <3>1. \A q \in Ports : res'[q] # NoRes => res'[q] \in Responses
        BY <2>1 DEF ServerTypeOK
      <3> QED
        BY <1>3, <1>5, <3>1 DEF Thread, Observed, Computes
    <2> QED
      BY <1>2, <1>3, <1>5, <2>1, <2>2, <2>3 DEF Thread, DataTypeOK
  <1>6. CASE Main
    BY <1>1, <1>2, <1>3, <1>6, ServerEndTypes
       DEF Main, DataTypeOK, clientVars, ClientTypeOK
  <1>7. CASE Fault
    <2>1. faults' \in 0 .. MaxFaults
      BY <1>3, <1>7, FaultsAssumption DEF Fault
    <2>2. NetTypeOK' /\ ClientTypeOK' /\ ServerTypeOK'
      <3>1. ASSUME NEW k \in Clients, ClientKilled(k), UNCHANGED serverVars
            PROVE  NetTypeOK' /\ ClientTypeOK' /\ ServerTypeOK'
        BY <1>1, <3>1, ClientTypes DEF serverVars, ServerTypeOK
      <3>2. ASSUME (\E p \in Ports : ServerFault(p)) \/ ServerDies, UNCHANGED clientVars
            PROVE  NetTypeOK' /\ ClientTypeOK' /\ ServerTypeOK'
        BY <1>1, <3>2, ServerEndTypes DEF clientVars, ClientTypeOK
      <3> QED
        BY <1>7, <3>1, <3>2 DEF Fault
    <2> QED
      BY <1>2, <1>3, <1>7, <2>1, <2>2 DEF Fault, DataTypeOK
  <1>8. CASE UNCHANGED vars
    BY <1>1, <1>2, <1>3, <1>8
       DEF vars, netVars, clientVars, serverVars, DataTypeOK, NetTypeOK, ClientTypeOK,
           ServerTypeOK
  <1> QED
    BY <1>4, <1>5, <1>6, <1>7, <1>8 DEF Next, Quiet

(* The types of this module are those of KeyService.                        *)
LEMMA TypesAgree == DataTypeOK => TypeOK
  <1> SUFFICES ASSUME DataTypeOK PROVE TypeOK
    OBVIOUS
  <1>1. \A p \in Ports : queue[p] \in Seq(Conns)
    BY DEF DataTypeOK, NetTypeOK
  <1> QED
    BY <1>1 DEF DataTypeOK, NetTypeOK, ClientTypeOK, ServerTypeOK, TypeOK

-----------------------------------------------------------------------------
(* Where the server has the connections *)

(* Whoever joins the end of a queue, and who is left when the first leaves. *)
LEMMA QueueAppended ==
  ASSUME NEW q \in Seq(Conns), NEW c \in Conns
  PROVE  /\ {Append(q, c)[n] : n \in DOMAIN Append(q, c)} = {q[n] : n \in DOMAIN q} \cup {c}
         /\ c \notin {q[n] : n \in DOMAIN q} /\ (\A m, n \in DOMAIN q : q[m] = q[n] => m = n) =>
              \A m, n \in DOMAIN Append(q, c) : Append(q, c)[m] = Append(q, c)[n] => m = n
  <1> DEFINE a == Append(q, c)
  <1>1. a \in Seq(Conns) /\ Len(a) = Len(q) + 1 /\ Len(q) \in Nat
    BY AppendProperties, LenProperties
  <1>2. DOMAIN a = 1 .. Len(q) + 1 /\ DOMAIN q = 1 .. Len(q)
    BY <1>1, LenProperties
  <1>3. a[Len(q) + 1] = c /\ \A i \in 1 .. Len(q) : a[i] = q[i]
    BY AppendProperties
  <1> HIDE DEF a
  <1>4. \A i \in DOMAIN a : i \in DOMAIN q \/ i = Len(q) + 1
    BY <1>1, <1>2
  <1>5. Len(q) + 1 \in DOMAIN a /\ DOMAIN q \subseteq DOMAIN a
    BY <1>1, <1>2
  <1>6. {a[n] : n \in DOMAIN a} = {q[n] : n \in DOMAIN q} \cup {c}
    BY <1>2, <1>3, <1>4, <1>5
  <1>7. ASSUME c \notin {q[n] : n \in DOMAIN q},
               \A m, n \in DOMAIN q : q[m] = q[n] => m = n,
               NEW m \in DOMAIN a, NEW n \in DOMAIN a, a[m] = a[n]
        PROVE  m = n
    BY <1>2, <1>3, <1>4, <1>7
  <1> QED
    BY <1>6, <1>7 DEF a

(* A queue of connections without its first.                                *)
LEMMA QueueShortened ==
  ASSUME NEW q \in Seq(Conns), q # <<>>, \A m, n \in DOMAIN q : q[m] = q[n] => m = n
  PROVE  /\ {Tail(q)[n] : n \in DOMAIN Tail(q)} = {q[n] : n \in DOMAIN q} \ {q[1]}
         /\ q[1] \in {q[n] : n \in DOMAIN q}
         /\ \A m, n \in DOMAIN Tail(q) : Tail(q)[m] = Tail(q)[n] => m = n
  <1> DEFINE t == Tail(q)
  <1>1. /\ t \in Seq(Conns) /\ Len(t) = Len(q) - 1 /\ Len(q) \in Nat /\ Len(q) > 0
        /\ \A i \in 1 .. Len(t) : t[i] = q[i + 1]
    BY HeadTailProperties, LenProperties, EmptySeq
  <1>2. DOMAIN t = 1 .. Len(q) - 1 /\ DOMAIN q = 1 .. Len(q)
    BY <1>1, LenProperties
  <1> HIDE DEF t
  <1>3. \A i \in DOMAIN t : i \in Int /\ i + 1 \in DOMAIN q /\ t[i] = q[i + 1] /\ i + 1 # 1
    BY <1>1, <1>2
  <1>4. \A i \in DOMAIN q : i # 1 => i - 1 \in DOMAIN t /\ (i - 1) + 1 = i
    BY <1>1, <1>2
  <1>5. 1 \in DOMAIN q
    BY <1>1, <1>2
  <1>6. ASSUME NEW x \in {t[n] : n \in DOMAIN t}
        PROVE  x \in {q[n] : n \in DOMAIN q} \ {q[1]}
    <2>1. PICK n \in DOMAIN t : x = t[n]
      BY <1>6
    <2>2. x = q[n + 1] /\ n + 1 \in DOMAIN q /\ n + 1 # 1
      BY <1>3, <2>1
    <2> QED
      BY <1>5, <2>2
  <1>7. ASSUME NEW x \in {q[n] : n \in DOMAIN q} \ {q[1]}
        PROVE  x \in {t[n] : n \in DOMAIN t}
    <2>1. PICK n \in DOMAIN q : x = q[n] /\ n # 1
      BY <1>7
    <2>2. n - 1 \in DOMAIN t /\ (n - 1) + 1 = n
      BY <1>4, <2>1
    <2>3. t[n - 1] = x
      BY <1>3, <2>1, <2>2
    <2> QED
      BY <2>2, <2>3
  <1>8. {t[n] : n \in DOMAIN t} = {q[n] : n \in DOMAIN q} \ {q[1]}
    BY <1>6, <1>7
  <1>9. ASSUME NEW m \in DOMAIN t, NEW n \in DOMAIN t, t[m] = t[n]
        PROVE  m = n
    <2>1. m + 1 = n + 1
      BY <1>3, <1>9
    <2> QED
      BY <1>3, <2>1
  <1>10. q[1] \in {q[n] : n \in DOMAIN q}
    BY <1>5
  <1> QED
    BY <1>8, <1>9, <1>10 DEF t

(* Where a connection is depends on the server alone.                       *)
LEMMA WhereKept ==
  ASSUME UNCHANGED <<proc, spc, cur, queue, job>>, NEW c
  PROVE  Where(c)' = Where(c) /\ Served(c)' = Served(c)
  BY DEF Where, Served, PortOf, Waiting

(* A step of a thread from one place where it has a connection to another.  *)
LEMMA ThreadMoves ==
  ASSUME DataTypeOK, NetInv, NEW p \in Ports, NEW from \in Serving, NEW to \in Serving,
         Goto(p, from, to), UNCHANGED <<proc, cur, queue, job>>, NEW c \in Conns
  PROVE  /\ Where(c)' = IF c = cur[p] THEN to ELSE Where(c)
         /\ Served(c)' <=> Served(c)
         /\ c = cur[p] => Where(c) = from
  <1>1. cur[p] # NoConn /\ PortOf(cur[p]) = p
    BY DEF NetInv, QueueInv, Goto
  <1>2. Waiting(PortOf(c))' = Waiting(PortOf(c)) /\ PortOf(c)' = PortOf(c)
    BY DEF Waiting, PortOf
  <1>3. spc' = [spc EXCEPT ![p] = to] /\ p \in DOMAIN spc /\ spc[p] = from /\ proc = "up"
    BY DEF Goto, DataTypeOK, ServerTypeOK
  <1>4. Where(c)' = IF c = cur[p] THEN to ELSE Where(c)
    BY <1>1, <1>2, <1>3 DEF Where
  <1>5. c = cur[p] => Where(c) = from
    BY <1>1, <1>3 DEF Where
  <1>6. to # "gone" /\ from # "gone"
    BY DEF Serving
  <1> QED
    BY <1>4, <1>5, <1>6 DEF Served

\* Thread p goes on with its connection, and only writing to a client that is
\* gone resets it.
Moves(p) ==
  \E to \in Serving :
    /\ spc[p] \in Serving
    /\ Goto(p, spc[p], to)
    /\ UNCHANGED <<proc, cur, queue, job, listening, cl_open, sv_open>>
    /\ res'[p] # NoRes <=> to \in {"unlock", "reply_head", "reply_body", "free"}
    /\ \A q \in Ports : q # p => res'[q] = res[q]
    /\ \A c \in reset' : c \in reset \/ (c = cur[p] /\ ~cl_open[c])

(* All steps of a thread are of this kind but those that begin or end a     *)
(* connection, and those that have none.                                    *)
LEMMA ThreadStepMoves ==
  ASSUME ProtocolInv, NEW p \in Ports, UNCHANGED job,
         \/ ServerRecvHead(p) \/ ServerBadMark(p) \/ ServerRecvBody(p) \/ ServerRecvFails(p)
         \/ ServerDispatchReply(p) \/ ServerDispatchStore(p) \/ ServerDispatchUnknown(p)
         \/ ServerAcquire(p) \/ ServerStoreOp(p) \/ ServerStoreRace(p) \/ ServerUnlock(p)
         \/ ServerReplyHead(p) \/ ServerReplyBody(p) \/ ServerFree(p)
  PROVE  Moves(p)
  <1>1. /\ spc \in [Ports -> ServerPC] /\ res \in [Ports -> Responses \cup {NoRes}]
        /\ res[p] # NoRes <=> spc[p] \in {"unlock", "reply_head", "reply_body", "free"}
    BY DEF ProtocolInv, DataTypeOK, ServerTypeOK, NetInv, QueueInv
  <1> USE DEF Serving
  <1>2. CASE ServerRecvHead(p)
    BY <1>1, <1>2 DEF ServerRecvHead, Goto, Moves
  <1>3. CASE ServerBadMark(p)
    BY <1>1, <1>3 DEF ServerBadMark, Goto, Moves, netVars
  <1>4. CASE ServerRecvBody(p)
    BY <1>1, <1>4 DEF ServerRecvBody, Goto, Moves
  <1>5. CASE ServerRecvFails(p)
    BY <1>1, <1>5 DEF ServerRecvFails, Goto, Moves, netVars
  <1>6. CASE ServerDispatchReply(p)
    <2>1. ImmediateResult(req[p].method, req[p].data) \in Responses
      BY <1>6, HandlesJob, ResultsTyped DEF ServerDispatchReply, Goto, ProtocolInv
    <2>2. res'[p] # NoRes
      BY <1>1, <1>6, <2>1, NoneAssumption DEF ServerDispatchReply
    <2> QED
      BY <1>1, <1>6, <2>2 DEF ServerDispatchReply, Goto, Moves, netVars
  <1>7. CASE ServerDispatchStore(p) \/ ServerDispatchUnknown(p)
    BY <1>1, <1>7 DEF ServerDispatchStore, ServerDispatchUnknown, Goto, Moves, netVars
  <1>8. CASE ServerAcquire(p)
    <2>1. Goto(p, spc[p], spc[p])
      BY <1>1, <1>8 DEF ServerAcquire, Goto
    <2> QED
      BY <1>1, <1>8, <2>1 DEF ServerAcquire, Moves, netVars
  <1>9. CASE ServerStoreOp(p) \/ ServerStoreRace(p)
    <2>1. res'[p] # NoRes
      <3>1. PICK k \in Clients : req[p].method = job[k].method /\ req[p].data = job[k].data
                /\ Where(ConnOf(k)) = "store_op" /\ Handled(k)
                /\ creq[k].method = job[k].method /\ creq[k].data = job[k].data
        BY <1>9, HandlesJob DEF ServerStoreOp, ServerStoreRace, Goto
      <3>2. /\ StoreResult(keystore, req[p].method, req[p].data) \in Responses
            /\ SomeResult(req[p].method) \subseteq Responses
        BY <3>1, ResultsTyped DEF Handled, ProtocolInv
      <3> QED
        BY <1>1, <1>9, <3>2, NoneAssumption DEF ServerStoreOp, ServerStoreRace
    <2>2. CASE ServerStoreOp(p)
      BY <1>1, <2>1, <2>2 DEF ServerStoreOp, Goto, Moves, netVars
    <2>3. CASE ServerStoreRace(p)
      BY <1>1, <2>1, <2>3 DEF ServerStoreRace, Goto, Moves, netVars
    <2> QED
      BY <1>9, <2>2, <2>3
  <1>10. CASE ServerUnlock(p)
    BY <1>1, <1>10 DEF ServerUnlock, Goto, Moves, netVars
  <1>11. CASE ServerReplyHead(p)
    BY <1>1, <1>11 DEF ServerReplyHead, ServerWrites, Sent, Goto, Moves
  <1>12. CASE ServerReplyBody(p)
    BY <1>1, <1>12 DEF ServerReplyBody, ServerWrites, Sent, Goto, Moves
  <1>13. CASE ServerFree(p)
    <2>1. res'[p] = NoRes
      BY <1>1, <1>13 DEF ServerFree
    <2> QED
      BY <1>1, <1>13, <2>1 DEF ServerFree, Goto, Moves, netVars
  <1> QED
    BY <1>2, <1>3, <1>4, <1>5, <1>6, <1>7, <1>8, <1>9, <1>10, <1>11, <1>12, <1>13

(* Such a step leaves each connection in its place, but moves its own.      *)
LEMMA MovesWhere ==
  ASSUME DataTypeOK, NetInv, NEW p \in Ports, Moves(p), NEW c \in Conns
  PROVE  /\ Where(c)' = IF c = cur[p] THEN spc'[p] ELSE Where(c)
         /\ Served(c)' <=> Served(c)
         /\ c = cur[p] => Where(c) = spc[p] /\ Served(c)
  <1>1. PICK to \in Serving : /\ spc[p] \in Serving
                              /\ Goto(p, spc[p], to)
                              /\ UNCHANGED <<proc, cur, queue, job>>
    BY DEF Moves
  <1>2. spc'[p] = to
    BY <1>1 DEF Goto, DataTypeOK, ServerTypeOK
  <1>3. /\ Where(c)' = IF c = cur[p] THEN to ELSE Where(c)
        /\ Served(c)' <=> Served(c)
        /\ c = cur[p] => Where(c) = spc[p]
    BY <1>1, ThreadMoves
  <1>4. spc[p] # "gone"
    BY <1>1 DEF Serving
  <1> QED
    BY <1>2, <1>3, <1>4 DEF Served

(* It keeps the queues and the ends.                                        *)
LEMMA MovesNet ==
  ASSUME DataTypeOK, NetInv, NEW p \in Ports, Moves(p)
  PROVE  NetInv'
  <1>1. PICK to \in Serving :
          /\ spc[p] \in Serving
          /\ Goto(p, spc[p], to)
          /\ UNCHANGED <<proc, cur, queue, job, listening, cl_open, sv_open>>
          /\ res'[p] # NoRes <=> to \in {"unlock", "reply_head", "reply_body", "free"}
          /\ \A q \in Ports : q # p => res'[q] = res[q]
          /\ \A c \in reset' : c \in reset \/ (c = cur[p] /\ ~cl_open[c])
    BY DEF Moves
  <1>2. QueueInv'
    <2>1. spc' = [spc EXCEPT ![p] = to] /\ spc \in [Ports -> ServerPC] /\ proc = "up"
      BY <1>1 DEF Goto, DataTypeOK, ServerTypeOK
    <2>2. \A q \in Ports : /\ Waiting(q)' = Waiting(q)
                           /\ spc'[q] = IF q = p THEN to ELSE spc[q]
                           /\ spc'[q] \in Serving <=> spc[q] \in Serving
      BY <1>1, <2>1 DEF Waiting
    <2>3. spc'[p] \notin {"start", "ended"}
      BY <2>2 DEF Serving
    <2> QED
      BY <1>1, <2>2, <2>3 DEF NetInv, QueueInv, PortOf
  <1>3. EndsInv'
    <2> SUFFICES ASSUME NEW c \in Conns, Served(c)'
                 PROVE  sv_open'[c] /\ (c \in reset' => ~cl_open'[c])
      BY DEF EndsInv
    <2>1. Served(c)
      BY MovesWhere
    <2> QED
      BY <1>1, <2>1 DEF NetInv, EndsInv
  <1> QED
    BY <1>2, <1>3 DEF NetInv

(* A thread without a connection.                                           *)
LEMMA IdleThreadWhere ==
  ASSUME DataTypeOK, NetInv, NEW p \in Ports, cur[p] = NoConn,
         UNCHANGED <<proc, cur, queue, job>>, \A q \in Ports \ {p} : spc'[q] = spc[q],
         NEW c \in Conns
  PROVE  Where(c)' = Where(c) /\ (Served(c)' <=> Served(c))
  <1>1. c # cur[p]
    BY NoneAssumption
  <1>2. c[1] \in Clients
    BY DEF Conns
  <1>3. PortOf(c) \in Ports
    BY <1>2, JobType DEF PortOf
  <1>4. Waiting(PortOf(c))' = Waiting(PortOf(c)) /\ PortOf(c)' = PortOf(c)
    BY DEF Waiting, PortOf
  <1>5. cur[PortOf(c)] = c => spc'[PortOf(c)] = spc[PortOf(c)]
    BY <1>1, <1>3
  <1>6. Where(c)' = Where(c)
    BY <1>4, <1>5 DEF Where
  <1> QED
    BY <1>6 DEF Served

(* A thread that listens, fails to, or opens its log has no connection, and *)
(* moves none.                                                              *)
LEMMA ListenNet ==
  ASSUME ProtocolInv, NEW p \in Ports, UNCHANGED job,
         ServerListen(p) \/ ServerListenFails(p) \/ ServerOpenLog(p)
  PROVE  /\ NetInv'
         /\ \A c \in Conns : Where(c)' = Where(c) /\ (Served(c)' <=> Served(c))
  <1>1. /\ DataTypeOK /\ NetInv
        /\ spc \in [Ports -> ServerPC] /\ listening \in [Ports -> BOOLEAN]
    BY DEF ProtocolInv, DataTypeOK, ServerTypeOK, NetTypeOK
  <1>2. PICK from \in {"start", "open_log"}, to \in {"open_log", "accept", "ended"} :
          /\ Goto(p, from, to)
          /\ UNCHANGED <<proc, cur, queue, res, sv_open, cl_open, reset>>
          /\ \A q \in Ports \ {p} : listening'[q] = listening[q]
          /\ listening'[p] => to # "ended" /\ (from = "open_log" => listening[p])
    <2>1. CASE ServerListen(p)
      BY <1>1, <2>1 DEF ServerListen, TcpListen, Goto
    <2>2. CASE ServerListenFails(p)
      BY <1>1, <2>2 DEF ServerListenFails, Goto, netVars, NetInv, QueueInv
    <2>3. CASE ServerOpenLog(p)
      BY <1>1, <2>3 DEF ServerOpenLog, Goto, netVars
    <2> QED
      BY <2>1, <2>2, <2>3
  <1>3. /\ spc[p] = from /\ proc = "up" /\ proc' = "up"
        /\ \A q \in Ports : spc'[q] = IF q = p THEN to ELSE spc[q]
    BY <1>1, <1>2 DEF Goto
  <1>4. cur[p] = NoConn
    BY <1>1, <1>3 DEF NetInv, QueueInv, Serving
  <1>5. \A c \in Conns : Where(c)' = Where(c) /\ (Served(c)' <=> Served(c))
    BY <1>1, <1>2, <1>3, <1>4, IdleThreadWhere
  <1>6. QueueInv'
    <2>1. \A q \in Ports : Waiting(q)' = Waiting(q)
      BY <1>2 DEF Waiting
    <2>2. ASSUME NEW q \in Ports
          PROVE  /\ cur'[q] # NoConn <=> spc'[q] \in Serving
                 /\ listening'[q] => proc' = "up" /\ spc'[q] \notin {"start", "ended"}
                 /\ res'[q] # NoRes <=> spc'[q] \in {"unlock", "reply_head", "reply_body", "free"}
      <3>1. CASE q = p
        BY <1>1, <1>2, <1>3, <1>4, <3>1 DEF NetInv, QueueInv, Serving
      <3>2. CASE q # p
        BY <1>1, <1>2, <1>3, <3>2 DEF NetInv, QueueInv
      <3> QED
        BY <3>1, <3>2
    <2> QED
      BY <1>1, <1>2, <2>1, <2>2 DEF NetInv, QueueInv, PortOf
  <1>7. EndsInv'
    BY <1>1, <1>2, <1>5 DEF NetInv, EndsInv
  <1> QED
    BY <1>5, <1>6, <1>7 DEF NetInv

(* Accepting the first connection in the queue.                             *)
LEMMA AcceptNet ==
  ASSUME ProtocolInv, NEW p \in Ports, UNCHANGED job, ServerAccept(p)
  PROVE  /\ NetInv'
         /\ \E c0 \in Conns :
              /\ Where(c0) = "queue" /\ Where(c0)' = "recv_head"
              /\ \A c \in Conns : c # c0 => Where(c)' = Where(c)
         /\ \A c \in Conns : Served(c)' <=> Served(c)
  <1>1. /\ DataTypeOK /\ NetInv
        /\ spc \in [Ports -> ServerPC] /\ queue \in [Ports -> Seq(Conns)]
        /\ cur \in [Ports -> Conns \cup {NoConn}]
    BY DEF ProtocolInv, DataTypeOK, ServerTypeOK, NetTypeOK
  <1>2. queue[p] # <<>>
    BY DEF ServerAccept, TcpAccept
  <1>3. queue[p][1] \in Conns
    BY <1>1, <1>2, EmptySeq, ElementOfSeq
  <1>4. PICK c0 \in Conns : c0 = queue[p][1]
    BY <1>3
  <1>5. /\ proc = "up" /\ proc' = "up" /\ spc[p] = "accept"
        /\ \A q \in Ports : spc'[q] = IF q = p THEN "recv_head" ELSE spc[q]
        /\ \A q \in Ports : cur'[q] = IF q = p THEN c0 ELSE cur[q]
        /\ \A q \in Ports : queue'[q] = IF q = p THEN Tail(queue[p]) ELSE queue[q]
        /\ UNCHANGED <<listening, res, sv_open, cl_open, reset>>
        /\ queue[p] # <<>>
    BY <1>1, <1>4 DEF ServerAccept, TcpAccept, Goto
  <1>6. /\ \A q \in Ports \ {p} : Waiting(q)' = Waiting(q)
        /\ Waiting(p)' = Waiting(p) \ {c0} /\ c0 \in Waiting(p)
        /\ \A m, n \in DOMAIN queue'[p] : queue'[p][m] = queue'[p][n] => m = n
    <2>1. \A q \in Ports \ {p} : Waiting(q)' = Waiting(q)
      BY <1>5 DEF Waiting
    <2> DEFINE q0 == queue[p]
    <2>2. q0 \in Seq(Conns) /\ q0 # <<>> /\ \A m, n \in DOMAIN q0 : q0[m] = q0[n] => m = n
      BY <1>1, <1>5 DEF NetInv, QueueInv
    <2> HIDE DEF q0
    <2>3. /\ {Tail(q0)[n] : n \in DOMAIN Tail(q0)} = {q0[n] : n \in DOMAIN q0} \ {q0[1]}
          /\ q0[1] \in {q0[n] : n \in DOMAIN q0}
          /\ \A m, n \in DOMAIN Tail(q0) : Tail(q0)[m] = Tail(q0)[n] => m = n
      BY <2>2, QueueShortened
    <2>4. queue'[p] = Tail(q0)
      BY <1>5 DEF q0
    <2>5. /\ Waiting(p)' = {Tail(q0)[n] : n \in DOMAIN Tail(q0)}
          /\ Waiting(p) = {q0[n] : n \in DOMAIN q0}
      BY <2>4 DEF Waiting, q0
    <2>6. q0[1] = c0
      BY <1>4 DEF q0
    <2> QED
      BY <2>1, <2>3, <2>4, <2>5, <2>6
  <1>7. PortOf(c0) = p /\ c0 # NoConn /\ cur[p] = NoConn
    BY <1>1, <1>5, <1>6, <1>4, NoneAssumption DEF NetInv, QueueInv, Serving
  <1>8. \A c : PortOf(c)' = PortOf(c)
    BY DEF PortOf
  <1>9. \A c \in Conns : PortOf(c) \in Ports
    BY <1>1, JobType DEF PortOf, Conns
  <1>10. Where(c0) = "queue" /\ Where(c0)' = "recv_head"
    <2>1. cur[PortOf(c0)] # c0 /\ c0 \in Waiting(PortOf(c0))
      BY <1>6, <1>7
    <2>2. Where(c0) = "queue"
      BY <1>5, <2>1 DEF Where
    <2>3. cur'[PortOf(c0)'] = c0 /\ spc'[PortOf(c0)'] = "recv_head"
      BY <1>1, <1>5, <1>7, <1>8, JobType
    <2>4. Where(c0)' = "recv_head"
      BY <1>5, <2>3 DEF Where
    <2> QED
      BY <2>2, <2>4
  <1>11. ASSUME NEW c \in Conns, c # c0
        PROVE  Where(c)' = Where(c)
    <2>1. CASE PortOf(c) = p
      <3>1. cur[p] # c /\ cur'[p] # c
        BY <1>5, <1>7, <1>11, NoneAssumption
      <3>2. c \in Waiting(p)' <=> c \in Waiting(p)
        BY <1>6, <1>11
      <3> QED
        BY <1>5, <1>8, <2>1, <3>1, <3>2 DEF Where
    <2>2. CASE PortOf(c) # p
      <3>1. PortOf(c) \in Ports \ {p}
        BY <1>9, <2>2
      <3> QED
        BY <1>5, <1>6, <1>8, <3>1 DEF Where
    <2> QED
      BY <2>1, <2>2
  <1>12. \A c \in Conns : Served(c)' <=> Served(c)
    <2> SUFFICES ASSUME NEW c \in Conns PROVE Served(c)' <=> Served(c)
      OBVIOUS
    <2>1. CASE c = c0
      BY <1>10, <2>1 DEF Served
    <2>2. CASE c # c0
      BY <1>11, <2>2 DEF Served
    <2> QED
      BY <2>1, <2>2
  <1>13. QueueInv'
    <2>1. ASSUME NEW q \in Ports, q # p
          PROVE  /\ \A c \in Waiting(q)' : PortOf(c)' = q /\ c # cur'[q]
                 /\ \A m, n \in DOMAIN queue'[q] : queue'[q][m] = queue'[q][n] => m = n
                 /\ cur'[q] # NoConn => PortOf(cur[q])' = q
                 /\ cur'[q] # NoConn <=> spc'[q] \in Serving
                 /\ listening'[q] => proc' = "up" /\ spc'[q] \notin {"start", "ended"}
                 /\ res'[q] # NoRes <=> spc'[q] \in {"unlock", "reply_head", "reply_body", "free"}
      BY <1>1, <1>5, <1>6, <1>8, <2>1 DEF NetInv, QueueInv, PortOf
    <2>2. /\ \A c \in Waiting(p)' : PortOf(c)' = p /\ c # cur'[p]
          /\ cur'[p] # NoConn => PortOf(cur[p])' = p
          /\ cur'[p] # NoConn <=> spc'[p] \in Serving
          /\ listening'[p] => proc' = "up" /\ spc'[p] \notin {"start", "ended"}
          /\ res'[p] # NoRes <=> spc'[p] \in {"unlock", "reply_head", "reply_body", "free"}
      BY <1>1, <1>5, <1>6, <1>7, <1>8 DEF NetInv, QueueInv, PortOf, Serving
    <2> QED
      BY <1>6, <2>1, <2>2 DEF QueueInv
  <1>14. EndsInv'
    BY <1>1, <1>5, <1>12 DEF NetInv, EndsInv
  <1> QED
    BY <1>4, <1>10, <1>11, <1>12, <1>13, <1>14 DEF NetInv

(* Closing a connection: it is gone, the others stay where they are.        *)
LEMMA CloseNet ==
  ASSUME ProtocolInv, NEW p \in Ports, UNCHANGED job, ServerClose(p)
  PROVE  /\ NetInv'
         /\ \E c0 \in Conns :
              /\ c0 = cur[p] /\ Where(c0) = spc[p] /\ ~Served(c0)'
              /\ \A c \in Conns : c # c0 => Where(c)' = Where(c) /\ (Served(c)' <=> Served(c))
  <1>1. /\ DataTypeOK /\ NetInv
        /\ spc \in [Ports -> ServerPC] /\ queue \in [Ports -> Seq(Conns)]
        /\ cur \in [Ports -> Conns \cup {NoConn}] /\ sv_open \in [Conns -> BOOLEAN]
    BY DEF ProtocolInv, DataTypeOK, ServerTypeOK, NetTypeOK
  <1>2. spc[p] \in {"close", "close_quit"} /\ proc = "up" /\ proc' = "up"
    BY DEF ServerClose, Goto
  <1>3. PICK c0 \in Conns : c0 = cur[p] /\ PortOf(c0) = p /\ c0 # NoConn /\ c0 \notin Waiting(p)
    BY <1>1, <1>2, NoneAssumption DEF NetInv, QueueInv, Serving
  <1>4. PICK to \in {"accept", "stop"} : \A q \in Ports : spc'[q] = IF q = p THEN to ELSE spc[q]
    BY <1>1 DEF ServerClose, Goto
  <1>5. /\ \A q \in Ports : cur'[q] = IF q = p THEN NoConn ELSE cur[q]
        /\ UNCHANGED <<listening, queue, cl_open, res>>
        /\ \A c \in Conns : c # c0 => sv_open'[c] = sv_open[c] /\ (c \in reset' => c \in reset)
    BY <1>1, <1>3 DEF ServerClose, ServerEndClosed
  <1>6. /\ \A q \in Ports : Waiting(q)' = Waiting(q)
        /\ \A c : PortOf(c)' = PortOf(c)
    BY <1>5 DEF Waiting, PortOf
  <1>7. \A c \in Conns : PortOf(c) \in Ports
    BY <1>1, JobType DEF PortOf, Conns
  <1>8. Where(c0) = spc[p]
    BY <1>2, <1>3 DEF Where
  <1>9. ~Served(c0)'
    <2>1. cur'[p] # c0
      BY <1>3, <1>5
    <2> QED
      BY <1>2, <1>3, <1>6, <2>1 DEF Where, Served
  <1>10. ASSUME NEW c \in Conns, c # c0
         PROVE  Where(c)' = Where(c) /\ (Served(c)' <=> Served(c))
    <2>1. PortOf(c) = p => cur[p] # c /\ cur'[p] # c
      BY <1>3, <1>5, <1>10, NoneAssumption
    <2>2. PortOf(c) # p => cur'[PortOf(c)] = cur[PortOf(c)] /\ spc'[PortOf(c)] = spc[PortOf(c)]
      BY <1>4, <1>5, <1>7
    <2>3. Where(c)' = Where(c)
      BY <1>2, <1>6, <1>7, <2>1, <2>2 DEF Where
    <2> QED
      BY <2>3 DEF Served
  <1>11. QueueInv'
    <2>1. ASSUME NEW q \in Ports
          PROVE  /\ \A c \in Waiting(q)' : PortOf(c)' = q /\ c # cur'[q]
                 /\ cur'[q] # NoConn => PortOf(cur[q])' = q
                 /\ cur'[q] # NoConn <=> spc'[q] \in Serving
                 /\ listening'[q] => proc' = "up" /\ spc'[q] \notin {"start", "ended"}
                 /\ res'[q] # NoRes <=> spc'[q] \in {"unlock", "reply_head", "reply_body", "free"}
      <3>1. CASE q = p
        <4>1. \A c \in Waiting(p) : c \in Conns
          BY <1>1, LenProperties, ElementOfSeq DEF Waiting
        <4> QED
          BY <1>1, <1>2, <1>4, <1>5, <1>6, <3>1, <4>1, NoneAssumption
             DEF NetInv, QueueInv, Serving
      <3>2. CASE q # p
        BY <1>1, <1>2, <1>4, <1>5, <1>6, <3>2 DEF NetInv, QueueInv, PortOf
      <3> QED
        BY <3>1, <3>2
    <2> QED
      BY <1>1, <1>5, <2>1 DEF NetInv, QueueInv
  <1>12. EndsInv'
    BY <1>1, <1>5, <1>9, <1>10 DEF NetInv, EndsInv
  <1> QED
    BY <1>3, <1>8, <1>9, <1>10, <1>11, <1>12 DEF NetInv

(* A thread that ends: what waited for it is gone.                          *)
LEMMA StopNet ==
  ASSUME ProtocolInv, NEW p \in Ports, UNCHANGED job, ServerStop(p)
  PROVE  /\ NetInv'
         /\ \A c \in Conns : Served(c)' => Served(c) /\ Where(c)' = Where(c)
  <1>1. /\ DataTypeOK /\ NetInv
        /\ spc \in [Ports -> ServerPC] /\ queue \in [Ports -> Seq(Conns)]
        /\ cur \in [Ports -> Conns \cup {NoConn}] /\ sv_open \in [Conns -> BOOLEAN]
        /\ listening \in [Ports -> BOOLEAN]
    BY DEF ProtocolInv, DataTypeOK, ServerTypeOK, NetTypeOK
  <1>2. /\ spc[p] = "stop" /\ proc = "up" /\ proc' = "up"
        /\ \A q \in Ports : spc'[q] = IF q = p THEN "ended" ELSE spc[q]
        /\ \A q \in Ports : queue'[q] = IF q = p THEN <<>> ELSE queue[q]
        /\ \A q \in Ports : listening'[q] = (q # p /\ listening[q])
        /\ UNCHANGED <<cur, cl_open, res>>
    BY <1>1 DEF ServerStop, ListenClosed, Goto
  <1>3. cur[p] = NoConn
    BY <1>1, <1>2 DEF NetInv, QueueInv, Serving
  <1>4. /\ \A q \in Ports : q # p => Waiting(q)' = Waiting(q)
        /\ Waiting(p)' = {}
        /\ \A c : PortOf(c)' = PortOf(c)
    BY <1>2, EmptySeq DEF Waiting, PortOf
  <1>5. \A c \in Conns : PortOf(c) \in Ports
    BY <1>1, JobType DEF PortOf, Conns
  <1>6. ASSUME NEW c \in Conns, Served(c)'
        PROVE  Served(c) /\ Where(c)' = Where(c) /\ PortOf(c) # p
    <2>1. PortOf(c) # p
      BY <1>2, <1>3, <1>4, <1>6, NoneAssumption DEF Served, Where
    <2>2. Where(c)' = Where(c)
      BY <1>2, <1>4, <1>5, <2>1 DEF Where
    <2> QED
      BY <1>6, <2>1, <2>2 DEF Served
  <1>7. QueueInv'
    <2>1. ASSUME NEW q \in Ports
          PROVE  /\ \A c \in Waiting(q)' : PortOf(c)' = q /\ c # cur'[q]
                 /\ \A m, n \in DOMAIN queue'[q] : queue'[q][m] = queue'[q][n] => m = n
                 /\ cur'[q] # NoConn => PortOf(cur[q])' = q
                 /\ cur'[q] # NoConn <=> spc'[q] \in Serving
                 /\ listening'[q] => proc' = "up" /\ spc'[q] \notin {"start", "ended"}
                 /\ res'[q] # NoRes <=> spc'[q] \in {"unlock", "reply_head", "reply_body", "free"}
      <3>1. CASE q = p
        <4>1. DOMAIN queue'[q] = {}
          BY <1>2, <3>1, EmptySeq
        <4> QED
          BY <1>1, <1>2, <1>3, <1>4, <3>1, <4>1 DEF NetInv, QueueInv, Serving
      <3>2. CASE q # p
        BY <1>1, <1>2, <1>4, <3>2 DEF NetInv, QueueInv, PortOf
      <3> QED
        BY <3>1, <3>2
    <2> QED
      BY <2>1 DEF QueueInv
  <1>8. EndsInv'
    <2> SUFFICES ASSUME NEW c \in Conns, Served(c)'
                 PROVE  sv_open'[c] /\ (c \in reset' => ~cl_open'[c])
      BY DEF EndsInv
    <2>1. Served(c) /\ PortOf(c) # p
      BY <1>6
    <2>2. c \notin Unaccepted({p})
      <3>1. Unaccepted({p}) = Waiting(p)
        BY DEF Unaccepted, Waiting
      <3> QED
        BY <1>1, <2>1, <3>1 DEF NetInv, QueueInv
    <2>3. sv_open'[c] = sv_open[c] /\ (c \in reset' => c \in reset)
      BY <2>2, <1>1 DEF ServerStop, ListenClosed
    <2> QED
      BY <1>1, <1>2, <2>1, <2>3 DEF NetInv, EndsInv
  <1> QED
    BY <1>6, <1>7, <1>8 DEF NetInv

(* The end of the process: nothing is served any more.                      *)
LEMMA EndNet ==
  ASSUME ProtocolInv, UNCHANGED job, ServerDies \/ ServerExit
  PROVE  /\ NetInv'
         /\ \A c : ~Served(c)'
  <1>1. DataTypeOK /\ NetInv
    BY DEF ProtocolInv
  <1>2. proc' # "up" /\ UNCHANGED <<spc, cur, res>>
    BY DEF ServerDies, ServerExit
  <1>3. \A c : ~Served(c)'
    BY <1>2 DEF Served, Where
  <1>4. \A c : PortOf(c)' = PortOf(c)
    BY DEF PortOf
  <1>5. ASSUME NEW q \in Ports
        PROVE  /\ Waiting(q)' \subseteq Waiting(q)
               /\ \A m, n \in DOMAIN queue'[q] : queue'[q][m] = queue'[q][n] => m = n
               /\ ~listening'[q]
    <2>1. CASE ServerDies
      <3>1. queue'[q] = <<>> /\ ~listening'[q]
        BY <2>1 DEF ServerDies, ServerHostClosed
      <3>2. DOMAIN queue'[q] = {}
        BY <3>1, EmptySeq
      <3> QED
        BY <3>1, <3>2 DEF Waiting
    <2>2. CASE ServerExit
      BY <1>1, <2>2 DEF ServerExit, netVars, NetInv, QueueInv, Waiting
    <2> QED
      BY <2>1, <2>2
  <1>6. QueueInv'
    BY <1>1, <1>2, <1>4, <1>5 DEF NetInv, QueueInv, PortOf
  <1> QED
    BY <1>3, <1>6 DEF NetInv, EndsInv

(* A client touches its own connection and its own state.                   *)
LEMMA ClientLocal ==
  ASSUME DataTypeOK, NEW k \in Clients, ClientStep(k) \/ ClientKilled(k)
  PROVE  /\ UNCHANGED <<listening, job>>
         /\ \A c \in Conns : c # ConnOf(k) =>
              /\ up'[c] = up[c] /\ down'[c] = down[c]
              /\ cl_open'[c] = cl_open[c] /\ sv_open'[c] = sv_open[c]
              /\ c \in reset' <=> c \in reset
         /\ \A j \in Clients : j # k =>
              /\ cpc'[j] = cpc[j] /\ conn_i'[j] = conn_i[j] /\ creq'[j] = creq[j]
              /\ rhead'[j] = rhead[j] /\ heard'[j] = heard[j] /\ clog'[j] = clog[j]
         /\ \A p \in Ports : Len(queue[p]) \in Nat
  <1>1. /\ NetTypeOK /\ ClientTypeOK
        /\ \A p \in Ports : Len(queue[p]) \in Nat
    BY LenProperties DEF DataTypeOK, NetTypeOK
  <1>2. CASE ClientConnect(k)
    BY <1>1, <1>2 DEF ClientConnect, TcpConnect, NetTypeOK, ClientTypeOK
  <1>3. CASE ClientConnectFails(k)
    BY <1>1, <1>3 DEF ClientConnectFails, netVars, ClientTypeOK
  <1>4. CASE ClientSendHead(k)
    BY <1>1, <1>4 DEF ClientSendHead, ClientWrites, Sent, NetTypeOK, ClientTypeOK
  <1>5. CASE ClientSendBody(k)
    BY <1>1, <1>5 DEF ClientSendBody, ClientWrites, Sent, NetTypeOK, ClientTypeOK
  <1>6. CASE ClientRecvHead(k) \/ ClientRecvBody(k)
    BY <1>1, <1>6 DEF ClientRecvHead, ClientRecvBody, NetTypeOK, ClientTypeOK
  <1>7. CASE ClientRecvFails(k) \/ ClientClose(k) \/ ClientKilled(k)
    BY <1>1, <1>7
       DEF ClientRecvFails, ClientClose, ClientKilled, ClientEndClosed, NetTypeOK,
           ClientTypeOK
  <1> QED
    BY <1>2, <1>3, <1>4, <1>5, <1>6, <1>7 DEF ClientStep

(* Connecting puts a fresh connection at the end of the queue.              *)
LEMMA ConnectNet ==
  ASSUME ProtocolInv, NEW k \in Clients, ClientConnect(k), UNCHANGED serverVars
  PROVE  /\ NetInv'
         /\ \E c0 \in Conns :
              /\ c0 = ConnOf(k) /\ Fresh(c0) /\ Where(c0)' = "queue" /\ Served(c0)'
              /\ \A c \in Conns : c # c0 => Where(c)' = Where(c) /\ (Served(c)' <=> Served(c))
  <1>1. /\ DataTypeOK /\ NetInv
        /\ queue \in [Ports -> Seq(Conns)] /\ cur \in [Ports -> Conns \cup {NoConn}]
        /\ sv_open \in [Conns -> BOOLEAN] /\ cl_open \in [Conns -> BOOLEAN]
        /\ conn_i[k] \in 1 .. MaxConns
    BY DEF ProtocolInv, DataTypeOK, ServerTypeOK, NetTypeOK, ClientTypeOK
  <1>2. PICK p \in Ports : p = job[k].port
    BY <1>1, JobType
  <1>3. PICK c0 \in Conns : c0 = ConnOf(k) /\ c0 = <<k, conn_i[k]>>
    BY <1>1 DEF ConnOf, Conns
  <1>4. /\ listening[p] /\ cpc[k] = "connect"
        /\ \A q \in Ports : queue'[q] = IF q = p THEN Append(queue[p], c0) ELSE queue[q]
        /\ UNCHANGED <<listening, reset, job>>
        /\ \A c \in Conns : sv_open'[c] = (c = c0 \/ sv_open[c]) /\ (c # c0 => cl_open'[c] = cl_open[c])
        /\ UNCHANGED <<proc, spc, cur, res>>
    BY <1>1, <1>2, <1>3 DEF ClientConnect, TcpConnect, serverVars
  <1>5. Fresh(c0) /\ proc = "up" /\ PortOf(c0) = p
    BY <1>1, <1>2, <1>3, <1>4 DEF ProtocolInv, OthersInv, NetInv, QueueInv, PortOf
  <1>6. cur[p] # c0 /\ c0 \notin Waiting(p)
    <2>1. ~Served(c0)
      BY <1>5 DEF Fresh
    <2>2. cur[p] # c0
      <3>1. cur[p] = c0 => spc[p] \in Serving
        BY <1>1, NoneAssumption DEF NetInv, QueueInv
      <3> QED
        BY <1>5, <2>1, <3>1 DEF Served, Where, Serving
    <2> QED
      BY <1>5, <2>1, <2>2 DEF Served, Where
  <1>7. /\ \A q \in Ports : q # p => Waiting(q)' = Waiting(q)
        /\ Waiting(p)' = Waiting(p) \cup {c0}
        /\ \A m, n \in DOMAIN queue'[p] : queue'[p][m] = queue'[p][n] => m = n
        /\ \A c : PortOf(c)' = PortOf(c)
    <2> DEFINE q0 == queue[p]
    <2>1. /\ q0 \in Seq(Conns) /\ \A m, n \in DOMAIN q0 : q0[m] = q0[n] => m = n
          /\ c0 \notin {q0[n] : n \in DOMAIN q0}
      BY <1>1, <1>6 DEF NetInv, QueueInv, Waiting
    <2> HIDE DEF q0
    <2>2. /\ {Append(q0, c0)[n] : n \in DOMAIN Append(q0, c0)} = {q0[n] : n \in DOMAIN q0} \cup {c0}
          /\ \A m, n \in DOMAIN Append(q0, c0) : Append(q0, c0)[m] = Append(q0, c0)[n] => m = n
      BY <2>1, QueueAppended
    <2>3. queue'[p] = Append(q0, c0)
      BY <1>4 DEF q0
    <2>4. /\ Waiting(p)' = {Append(q0, c0)[n] : n \in DOMAIN Append(q0, c0)}
          /\ Waiting(p) = {q0[n] : n \in DOMAIN q0}
      BY <2>3 DEF Waiting, q0
    <2>5. \A q \in Ports : q # p => Waiting(q)' = Waiting(q)
      BY <1>4 DEF Waiting
    <2>6. \A c : PortOf(c)' = PortOf(c)
      BY <1>4 DEF PortOf
    <2> QED
      BY <2>2, <2>3, <2>4, <2>5, <2>6
  <1>8. Where(c0)' = "queue" /\ Served(c0)'
    BY <1>4, <1>5, <1>6, <1>7 DEF Where, Served
  <1>9. ASSUME NEW c \in Conns, c # c0
        PROVE  Where(c)' = Where(c) /\ (Served(c)' <=> Served(c))
    <2>1. PortOf(c) \in Ports
      BY <1>1, JobType DEF PortOf, Conns
    <2>2. c \in Waiting(PortOf(c))' <=> c \in Waiting(PortOf(c))
      BY <1>7, <1>9, <2>1
    <2>3. c \in Waiting(PortOf(c)') <=> c \in Waiting(PortOf(c))
      BY <1>7
    <2>4. Where(c)' = Where(c)
      BY <1>4, <1>7, <2>1, <2>2 DEF Where
    <2> QED
      BY <2>4 DEF Served
  <1>10. QueueInv'
    <2>1. ASSUME NEW q \in Ports
          PROVE  /\ \A c \in Waiting(q)' : PortOf(c)' = q /\ c # cur'[q]
                 /\ \A m, n \in DOMAIN queue'[q] : queue'[q][m] = queue'[q][n] => m = n
      <3>1. CASE q = p
        BY <1>1, <1>4, <1>5, <1>6, <1>7, <3>1 DEF NetInv, QueueInv
      <3>2. CASE q # p
        BY <1>1, <1>4, <1>7, <3>2 DEF NetInv, QueueInv
      <3> QED
        BY <3>1, <3>2
    <2> QED
      BY <1>1, <1>4, <2>1 DEF NetInv, QueueInv, PortOf
  <1>11. EndsInv'
    <2> SUFFICES ASSUME NEW c \in Conns, Served(c)'
                 PROVE  sv_open'[c] /\ (c \in reset' => ~cl_open'[c])
      BY DEF EndsInv
    <2>1. CASE c = c0
      BY <1>4, <1>5, <2>1 DEF Fresh
    <2>2. CASE c # c0
      BY <1>1, <1>4, <1>9, <2>2 DEF NetInv, EndsInv
    <2> QED
      BY <2>1, <2>2
  <1> QED
    BY <1>3, <1>5, <1>8, <1>9, <1>10, <1>11 DEF NetInv

(* Any other step of a client leaves every connection where it is.          *)
LEMMA ClientNet ==
  ASSUME ProtocolInv, NEW k \in Clients, UNCHANGED serverVars,
         (ClientStep(k) /\ ~ClientConnect(k)) \/ ClientKilled(k)
  PROVE  /\ NetInv'
         /\ \A c : Where(c)' = Where(c) /\ Served(c)' = Served(c)
         /\ UNCHANGED <<sv_open, queue>>
  <1>1. /\ DataTypeOK /\ NetInv /\ ClientInv
        /\ sv_open \in [Conns -> BOOLEAN] /\ cl_open \in [Conns -> BOOLEAN]
    BY DEF ProtocolInv, DataTypeOK, NetTypeOK
  <1>2. PICK c0 \in Conns : c0 = ConnOf(k)
    BY <1>1 DEF ConnOf, Conns, DataTypeOK, ClientTypeOK
  <1>3. /\ UNCHANGED <<queue, sv_open, listening, job>>
        /\ \A c \in Conns : cl_open'[c] => cl_open[c]
        /\ \A c \in Conns : c \in reset' => c \in reset \/ (c = c0 /\ (~sv_open[c] \/ ~cl_open'[c]))
    <2>1. CASE ClientConnectFails(k)
      BY <2>1 DEF ClientConnectFails, netVars
    <2>2. CASE ClientSendHead(k)
      <3>1. cl_open[c0]
        BY <1>1, <1>2, <2>2 DEF ClientSendHead, ClientInv, ClientOK, Alive, Active
      <3> QED
        BY <1>1, <1>2, <2>2, <3>1 DEF ClientSendHead, ClientWrites, Sent
    <2>3. CASE ClientSendBody(k)
      <3>1. cl_open[c0]
        BY <1>1, <1>2, <2>3 DEF ClientSendBody, ClientInv, ClientOK, Alive, Active
      <3> QED
        BY <1>1, <1>2, <2>3, <3>1 DEF ClientSendBody, ClientWrites, Sent
    <2>4. CASE ClientRecvHead(k) \/ ClientRecvBody(k)
      BY <2>4 DEF ClientRecvHead, ClientRecvBody
    <2>5. CASE ClientRecvFails(k) \/ ClientClose(k) \/ ClientKilled(k)
      BY <1>1, <1>2, <2>5
         DEF ClientRecvFails, ClientClose, ClientKilled, ClientEndClosed
    <2> QED
      BY <2>1, <2>2, <2>3, <2>4, <2>5 DEF ClientStep
  <1>4. UNCHANGED <<proc, spc, cur, res>>
    BY DEF serverVars
  <1>5. \A c : Where(c)' = Where(c) /\ Served(c)' = Served(c)
    BY <1>3, <1>4, WhereKept
  <1>6. QueueInv'
    BY <1>1, <1>3, <1>4 DEF NetInv, QueueInv, Waiting, PortOf
  <1>7. EndsInv'
    BY <1>1, <1>3, <1>5 DEF NetInv, EndsInv
  <1> QED
    BY <1>3, <1>5, <1>6, <1>7 DEF NetInv

-----------------------------------------------------------------------------
(* What a step of a thread leaves alone *)

(* A thread touches its own connection and its own state.                   *)
LEMMA ThreadLocal ==
  ASSUME ProtocolInv, NEW p \in Ports, Thread(p), ~ServerSigpipe(p)
  PROVE  /\ UNCHANGED <<proc, cl_open, job, cpc, conn_i, rpc_j, next_rpc_id, creq, rhead, heard, clog>>
         /\ \A c \in Conns : c # cur[p] => up'[c] = up[c] /\ down'[c] = down[c]
         /\ \A q \in Ports : q # p =>
              /\ req'[q] = req[q] /\ res'[q] = res[q] /\ spc'[q] = spc[q] /\ cur'[q] = cur[q]
              /\ live'[q] = live[q] /\ slog'[q] = slog[q]
  <1>1. NetTypeOK /\ ServerTypeOK
    BY DEF ProtocolInv, DataTypeOK
  <1>2. UNCHANGED <<job, cpc, conn_i, rpc_j, next_rpc_id, creq, rhead, heard, clog>>
    BY DEF Thread, clientVars
  <1>3. CASE ServerListen(p) \/ ServerOpenLog(p) \/ ServerAccept(p)
    BY <1>1, <1>2, <1>3
       DEF ServerListen, ServerOpenLog, ServerAccept, TcpListen, TcpAccept, Goto,
           netVars, NetTypeOK, ServerTypeOK
  <1>4. CASE ServerRecvHead(p) \/ ServerRecvBody(p)
    BY <1>1, <1>2, <1>4
       DEF ServerRecvHead, ServerRecvBody, Goto, NetTypeOK, ServerTypeOK
  <1>5. CASE ServerBadMark(p) \/ ServerRecvFails(p) \/ ServerDispatchReply(p)
             \/ ServerDispatchStore(p) \/ ServerDispatchUnknown(p)
    BY <1>1, <1>2, <1>5 DEF ServerBadMark, ServerRecvFails, ServerDispatchReply,
       ServerDispatchStore, ServerDispatchUnknown, Goto, netVars, ServerTypeOK
  <1>6. CASE ServerAcquire(p) \/ ServerStoreOp(p) \/ ServerStoreRace(p) \/ ServerUnlock(p)
             \/ ServerFree(p)
    BY <1>1, <1>2, <1>6 DEF ServerAcquire, ServerStoreOp, ServerStoreRace, ServerUnlock,
       ServerFree, Goto, netVars, ServerTypeOK
  <1>7. CASE ServerReplyHead(p) \/ ServerReplyBody(p)
    BY <1>1, <1>2, <1>7
       DEF ServerReplyHead, ServerReplyBody, ServerWrites, Goto, NetTypeOK, ServerTypeOK
  <1>8. CASE ServerClose(p) \/ ServerStop(p)
    BY <1>1, <1>2, <1>8
       DEF ServerClose, ServerStop, ServerEndClosed, ListenClosed, Goto, ServerTypeOK
  <1> QED
    BY <1>3, <1>4, <1>5, <1>6, <1>7, <1>8 DEF Thread, ServerStep

(* The history of results after a step of thread p.                         *)
LEMMA ObservedOf ==
  ASSUME ProtocolInv, NEW p \in Ports, Thread(p), NEW k \in Clients
  PROVE  performed'[k] = IF res[p] = NoRes /\ res'[p] # NoRes /\ cur[p] # NoConn /\ cur[p][1] = k
                         THEN res'[p] ELSE performed[k]
  <1>1. \A q \in Ports : q # p => res'[q] = res[q]
    <2>1. CASE ServerSigpipe(p)
      BY <2>1 DEF ServerSigpipe, ServerDies
    <2> QED
      BY <2>1, ThreadLocal
  <1>2. \A q \in Ports : Computes(q, k) => q = p
    BY <1>1 DEF Computes
  <1>3. CASE Computes(p, k)
    <2>1. (CHOOSE q \in Ports : Computes(q, k)) = p
      BY <1>2, <1>3
    <2> QED
      BY <1>3, <2>1 DEF Thread, Observed, Computes
  <1>4. CASE ~Computes(p, k)
    BY <1>2, <1>4 DEF Thread, Observed, Computes
  <1> QED
    BY <1>3, <1>4

(* The steps of a thread that has a connection of which it has not taken    *)
(* notice yet.                                                              *)
LEMMA LateStep ==
  ASSUME ProtocolInv, NEW p \in Ports, Thread(p), NEW c \in Conns, Late(c)
  PROVE  \/ ~Served(c)'
         \/ Late(c)'
         \/ c = cur[p] /\ ServerRecvHead(p)
         \/ c = cur[p] /\ (ServerBadMark(p) \/ ServerRecvFails(p)) /\ Where(c)' = "close"
  <1>1. /\ DataTypeOK /\ NetInv /\ spc \in [Ports -> ServerPC] /\ res \in [Ports -> Responses \cup {NoRes}]
        /\ UNCHANGED job
    BY DEF ProtocolInv, DataTypeOK, ServerTypeOK, Thread, clientVars
  <1>2. PortOf(c) \in Ports /\ PortOf(c)' = PortOf(c)
    BY <1>1, JobType DEF PortOf, Conns
  <1>3. ASSUME Where(c)' = Where(c), c # cur[p], ~ServerSigpipe(p)
        PROVE  Late(c)'
    <2>1. Where(c) = "reply_body" => cur[PortOf(c)] = c
      BY DEF Where
    <2>2. Where(c) = "reply_body" => res'[PortOf(c)] = res[PortOf(c)]
      BY <1>2, <1>3, <2>1, ThreadLocal
    <2> QED
      BY <1>2, <1>3, <2>2 DEF Late
  <1>4. CASE ServerListen(p) \/ ServerOpenLog(p)
    <2>1. spc[p] \notin Serving
      BY <1>4 DEF ServerListen, ServerOpenLog, Goto, Serving
    <2>2. c # cur[p]
      BY <1>1, <2>1, NoneAssumption DEF NetInv, QueueInv
    <2>3. Where(c)' = Where(c) /\ ~ServerSigpipe(p)
      BY <1>1, <1>4, <2>1, ListenNet DEF ServerSigpipe, Serving
    <2> QED
      BY <1>3, <2>2, <2>3
  <1>5. CASE ServerAccept(p)
    <2>1. PICK c0 \in Conns :
            /\ Where(c0) = "queue" /\ Where(c0)' = "recv_head"
            /\ \A d \in Conns : d # c0 => Where(d)' = Where(d)
      BY <1>1, <1>5, AcceptNet
    <2>2. spc[p] = "accept"
      BY <1>5 DEF ServerAccept, Goto
    <2>3. c # cur[p] /\ ~ServerSigpipe(p)
      BY <1>1, <2>2, NoneAssumption DEF NetInv, QueueInv, Serving, ServerSigpipe
    <2> QED
      BY <1>3, <2>1, <2>3 DEF Late
  <1>6. CASE ServerSigpipe(p)
    BY <1>1, <1>6, EndNet DEF ServerSigpipe
  <1>7. CASE ServerClose(p)
    <2>1. c # cur[p] => Where(c)' = Where(c)
      BY <1>1, <1>7, CloseNet
    <2>2. c = cur[p] => ~Served(c)'
      BY <1>1, <1>7, CloseNet
    <2>3. ~ServerSigpipe(p)
      BY <1>7 DEF ServerClose, Goto, ServerSigpipe
    <2> QED
      BY <1>3, <2>1, <2>2, <2>3
  <1>8. CASE ServerStop(p)
    <2>1. spc[p] = "stop"
      BY <1>8 DEF ServerStop, Goto
    <2>2. c # cur[p] /\ ~ServerSigpipe(p)
      BY <1>1, <2>1, NoneAssumption DEF NetInv, QueueInv, Serving, ServerSigpipe
    <2>3. Served(c)' => Where(c)' = Where(c)
      BY <1>1, <1>8, StopNet
    <2> QED
      BY <1>3, <2>2, <2>3
  <1>9. CASE \/ ServerRecvHead(p) \/ ServerBadMark(p) \/ ServerRecvBody(p) \/ ServerRecvFails(p)
             \/ ServerDispatchReply(p) \/ ServerDispatchStore(p) \/ ServerDispatchUnknown(p)
             \/ ServerAcquire(p) \/ ServerStoreOp(p) \/ ServerStoreRace(p) \/ ServerUnlock(p)
             \/ ServerReplyHead(p) \/ ServerReplyBody(p) \/ ServerFree(p)
    <2>1. Moves(p)
      BY <1>1, <1>9, ThreadStepMoves
    <2>2. /\ Where(c)' = IF c = cur[p] THEN spc'[p] ELSE Where(c)
          /\ c = cur[p] => Where(c) = spc[p]
      BY <1>1, <2>1, MovesWhere
    <2>3. CASE c # cur[p] /\ ~ServerSigpipe(p)
      BY <1>3, <2>2, <2>3
    <2>4. CASE c = cur[p]
      <3>1. spc[p] \in {"recv_head", "reply_body", "free", "close_quit"}
        <4>1. spc[p] \in Serving
          BY <2>1 DEF Moves
        <4>2. Where(c) \in {"queue", "recv_head", "free", "close_quit", "reply_body"}
          BY DEF Late
        <4>3. Where(c) = spc[p]
          BY <2>2, <2>4
        <4> QED
          BY <4>1, <4>2, <4>3 DEF Serving
      <3>2. CASE ServerRecvHead(p)
        BY <2>4, <3>2
      <3>3. CASE ServerBadMark(p) \/ ServerRecvFails(p)
        BY <1>1, <2>2, <2>4, <3>3 DEF ServerBadMark, ServerRecvFails, Goto
      <3>4. CASE ServerFree(p)
        BY <1>1, <2>2, <2>4, <3>4 DEF ServerFree, Goto, Late
      <3>5. CASE ServerReplyBody(p)
        BY <1>1, <2>2, <2>4, <3>5 DEF ServerReplyBody, Goto, Late
      <3> QED
        BY <1>9, <3>1, <3>2, <3>3, <3>4, <3>5 DEF ServerRecvBody, ServerDispatchReply,
           ServerDispatchStore, ServerDispatchUnknown, ServerAcquire, ServerStoreOp,
           ServerStoreRace, ServerUnlock, ServerReplyHead, Goto
    <2>5. CASE ServerSigpipe(p)
      BY <1>1, <2>5, EndNet DEF ServerSigpipe
    <2> QED
      BY <2>3, <2>4, <2>5
  <1> QED
    BY <1>4, <1>5, <1>6, <1>7, <1>8, <1>9 DEF Thread, ServerStep

(* Where a step of thread p leaves the connections.                         *)
LEMMA ThreadPlaces ==
  ASSUME ProtocolInv, NEW p \in Ports, Thread(p), NEW c \in Conns
  PROVE  /\ Served(c)' => Served(c)
         /\ c = cur[p] => Served(c) /\ Where(c) = spc[p]
         /\ Served(c)' /\ c # cur[p] => \/ Where(c)' = Where(c)
                                        \/ Where(c) = "queue" /\ Where(c)' = "recv_head"
         /\ Served(c)' /\ c = cur[p] => Where(c)' = spc'[p] /\ Moves(p)
  <1>1. /\ DataTypeOK /\ NetInv /\ spc \in [Ports -> ServerPC] /\ UNCHANGED job
        /\ cur[p] # NoConn <=> spc[p] \in Serving
        /\ cur[p] # NoConn => PortOf(cur[p]) = p
        /\ c # NoConn
    BY NoneAssumption
       DEF ProtocolInv, DataTypeOK, ServerTypeOK, Thread, clientVars, NetInv, QueueInv
  <1>2. proc = "up"
    BY DEF Thread, ServerStep, ServerListen, ServerOpenLog, ServerAccept,
     ServerRecvHead, ServerBadMark, ServerRecvBody, ServerRecvFails,
     ServerDispatchReply, ServerDispatchStore, ServerDispatchUnknown,
     ServerAcquire, ServerStoreOp, ServerStoreRace, ServerUnlock, ServerReplyHead,
     ServerReplyBody, ServerSigpipe, ServerDies, ServerFree, ServerClose, ServerStop, Goto
  <1>3. c = cur[p] => Served(c) /\ Where(c) = spc[p]
    BY <1>1, <1>2 DEF Served, Where, Serving
  <1>4. CASE ServerListen(p) \/ ServerOpenLog(p)
    <2>1. spc[p] \notin Serving
      BY <1>4 DEF ServerListen, ServerOpenLog, Goto, Serving
    <2> QED
      BY <1>1, <1>3, <1>4, <2>1, ListenNet
  <1>5. CASE ServerAccept(p)
    <2>1. spc[p] \notin Serving
      BY <1>5 DEF ServerAccept, Goto, Serving
    <2>2. PICK c0 \in Conns :
            /\ Where(c0) = "queue" /\ Where(c0)' = "recv_head"
            /\ \A d \in Conns : d # c0 => Where(d)' = Where(d)
      BY <1>1, <1>5, AcceptNet
    <2>3. Served(c)' <=> Served(c)
      BY <1>1, <1>5, AcceptNet
    <2> QED
      BY <1>1, <1>3, <2>1, <2>2, <2>3
  <1>6. CASE ServerSigpipe(p)
    <2>1. ~Served(c)'
      BY <1>1, <1>6, EndNet DEF ServerSigpipe
    <2> QED
      BY <1>3, <2>1
  <1>7. CASE ServerClose(p)
    <2>1. PICK c0 \in Conns :
              /\ c0 = cur[p] /\ Where(c0) = spc[p] /\ ~Served(c0)'
              /\ \A d \in Conns : d # c0 => Where(d)' = Where(d) /\ (Served(d)' <=> Served(d))
      BY <1>1, <1>7, CloseNet
    <2> QED
      BY <1>3, <2>1
  <1>8. CASE ServerStop(p)
    <2>1. spc[p] \notin Serving
      BY <1>8 DEF ServerStop, Goto, Serving
    <2>2. Served(c)' => Served(c) /\ Where(c)' = Where(c)
      BY <1>1, <1>8, StopNet
    <2> QED
      BY <1>1, <1>3, <2>1, <2>2
  <1>9. CASE \/ ServerRecvHead(p) \/ ServerBadMark(p) \/ ServerRecvBody(p) \/ ServerRecvFails(p)
             \/ ServerDispatchReply(p) \/ ServerDispatchStore(p) \/ ServerDispatchUnknown(p)
             \/ ServerAcquire(p) \/ ServerStoreOp(p) \/ ServerStoreRace(p) \/ ServerUnlock(p)
             \/ ServerReplyHead(p) \/ ServerReplyBody(p) \/ ServerFree(p)
    <2>1. Moves(p)
      BY <1>1, <1>9, ThreadStepMoves
    <2>2. /\ Where(c)' = IF c = cur[p] THEN spc'[p] ELSE Where(c)
          /\ Served(c)' <=> Served(c)
      BY <1>1, <2>1, MovesWhere
    <2> QED
      BY <1>3, <2>1, <2>2
  <1> QED
    BY <1>4, <1>5, <1>6, <1>7, <1>8, <1>9 DEF Thread, ServerStep

(* It keeps the queues and the ends.                                        *)
LEMMA ThreadNet ==
  ASSUME ProtocolInv, NEW p \in Ports, Thread(p)
  PROVE  NetInv'
  <1>1. DataTypeOK /\ NetInv /\ UNCHANGED job
    BY DEF ProtocolInv, Thread, clientVars
  <1>2. CASE ServerListen(p) \/ ServerOpenLog(p) \/ ServerAccept(p)
    BY <1>1, <1>2, ListenNet, AcceptNet
  <1>3. CASE ServerSigpipe(p) \/ ServerClose(p) \/ ServerStop(p)
    BY <1>1, <1>3, EndNet, CloseNet, StopNet DEF ServerSigpipe
  <1>4. CASE \/ ServerRecvHead(p) \/ ServerBadMark(p) \/ ServerRecvBody(p) \/ ServerRecvFails(p)
             \/ ServerDispatchReply(p) \/ ServerDispatchStore(p) \/ ServerDispatchUnknown(p)
             \/ ServerAcquire(p) \/ ServerStoreOp(p) \/ ServerStoreRace(p) \/ ServerUnlock(p)
             \/ ServerReplyHead(p) \/ ServerReplyBody(p) \/ ServerFree(p)
    BY <1>1, <1>4, ThreadStepMoves, MovesNet
  <1> QED
    BY <1>2, <1>3, <1>4 DEF Thread, ServerStep

(* What a step of thread p takes off the streams to the server, and which   *)
(* connections it resets.                                                   *)
LEMMA ThreadStreams ==
  ASSUME ProtocolInv, NEW p \in Ports, Thread(p), NEW c \in Conns
  PROVE  /\ UNCHANGED cl_open
         /\ c # cur[p] => up'[c] = up[c] /\ down'[c] = down[c]
         /\ up'[c] # up[c] => c = cur[p] /\ (ServerRecvHead(p) \/ ServerRecvBody(p))
         /\ down'[c] # down[c] => c = cur[p] /\ (ServerReplyHead(p) \/ ServerReplyBody(p))
         /\ c \in reset' => \/ c \in reset
                            \/ Served(c) /\ ~Served(c)'
                            \/ sv_open[c] /\ up[c] # <<>> /\ ~Served(c)'
                            \/ /\ c = cur[p] /\ ~cl_open[c]
                               /\ ServerReplyHead(p) \/ (ServerReplyBody(p) /\ res[p].data # <<>>)
  <1>1. DataTypeOK /\ NetInv /\ NetTypeOK /\ UNCHANGED job
    BY DEF ProtocolInv, DataTypeOK, Thread, clientVars
  <1>3. CASE ServerListen(p) \/ ServerOpenLog(p) \/ ServerAccept(p)
    BY <1>3 DEF ServerListen, ServerOpenLog, ServerAccept, TcpListen, TcpAccept, netVars
  <1>4. CASE ServerRecvHead(p) \/ ServerRecvBody(p)
    BY <1>1, <1>4 DEF ServerRecvHead, ServerRecvBody, NetTypeOK
  <1>5. CASE ServerBadMark(p) \/ ServerRecvFails(p) \/ ServerDispatchReply(p)
             \/ ServerDispatchStore(p) \/ ServerDispatchUnknown(p)
             \/ ServerAcquire(p) \/ ServerStoreOp(p) \/ ServerStoreRace(p) \/ ServerUnlock(p)
             \/ ServerFree(p)
    BY <1>5
       DEF ServerBadMark, ServerRecvFails, ServerDispatchReply, ServerAcquire,
           ServerStoreOp, ServerStoreRace, ServerUnlock, ServerFree,
           ServerDispatchStore, ServerDispatchUnknown, netVars
  <1>6. CASE ServerReplyHead(p)
    BY <1>1, <1>6 DEF ServerReplyHead, ServerWrites, Sent, NetTypeOK
  <1>7. CASE ServerReplyBody(p)
    BY <1>1, <1>7 DEF ServerReplyBody, ServerWrites, Sent, NetTypeOK
  <1>8. CASE ServerClose(p)
    <2>1. c = cur[p] => Served(c)
      BY ThreadPlaces
    <2>2. c = cur[p] => ~Served(c)'
      BY <1>1, <1>8, CloseNet
    <2> QED
      BY <1>1, <1>8, <2>1, <2>2 DEF ServerClose, ServerEndClosed
  <1>9. CASE ServerStop(p)
    <2>1. Unaccepted({p}) = Waiting(p)
      BY DEF Unaccepted, Waiting
    <2>2. c \in Waiting(p) => Served(c) /\ ~Served(c)'
      <3>1. c \in Waiting(p) => PortOf(c) = p /\ spc[p] = "stop" /\ proc = "up" /\ cur[p] = NoConn
        BY <1>1, <1>9 DEF NetInv, QueueInv, ServerStop, Goto, Serving
      <3>2. PortOf(c)' = PortOf(c) /\ proc' = proc /\ cur' = cur /\ queue'[p] = <<>>
        BY <1>1, <1>9 DEF PortOf, ServerStop, ListenClosed, NetTypeOK
      <3>3. Waiting(p)' = {}
        BY <3>2, EmptySeq DEF Waiting
      <3> QED
        BY <3>1, <3>2, <3>3, NoneAssumption DEF Served, Where
    <2> QED
      BY <1>1, <1>9, <2>1, <2>2 DEF ServerStop, ListenClosed
  <1>10. CASE ServerSigpipe(p)
    <2>1. ~Served(c)'
      BY <1>1, <1>10, EndNet DEF ServerSigpipe
    <2>2. c \in Unaccepted(Ports) => Served(c)
      <3>1. Unaccepted(Ports) = UNION {Waiting(q) : q \in Ports}
        BY DEF Unaccepted, Waiting
      <3>2. ASSUME NEW q \in Ports, c \in Waiting(q)
            PROVE  Served(c)
        <4>1. PortOf(c) = q /\ c # cur[q] /\ proc = "up"
          BY <1>1, <1>10, <3>2 DEF NetInv, QueueInv, ServerSigpipe, ServerDies
        <4> QED
          BY <3>2, <4>1 DEF Served, Where
      <3> QED
        BY <3>1, <3>2
    <2> QED
      BY <1>10, <2>1, <2>2 DEF ServerSigpipe, ServerDies, ServerHostClosed
  <1> QED
    BY <1>3, <1>4, <1>5, <1>6, <1>7, <1>8, <1>9, <1>10 DEF Thread, ServerStep

-----------------------------------------------------------------------------
(* What a thread does for its client *)

(* A thread computes the result of a request once, for the client whose     *)
(* request it has in hand.                                                  *)
LEMMA ThreadPerforms ==
  ASSUME ProtocolInv, NEW p \in Ports, Thread(p), NEW k \in Clients,
         performed'[k] # performed[k]
  PROVE  /\ cur[p] = ConnOf(k) /\ Handled(k) /\ performed[k] = NoRes
         /\ job[k].port = p
         /\ performed'[k] = res'[p] /\ res'[p] # NoRes
         /\ spc[p] \in {"dispatch", "store_op"} /\ spc'[p] \in {"unlock", "reply_head"}
  <1>1. /\ res[p] = NoRes /\ res'[p] # NoRes /\ cur[p] # NoConn /\ cur[p][1] = k
        /\ performed'[k] = res'[p]
    BY ObservedOf
  <1>2. /\ NetInv /\ spc \in [Ports -> ServerPC] /\ res \in [Ports -> Responses \cup {NoRes}]
    BY DEF ProtocolInv, DataTypeOK, ServerTypeOK
  <1>3. /\ spc[p] \in {"dispatch", "store_op"} /\ spc'[p] \in {"unlock", "reply_head"}
        /\ proc = "up"
    <2>1. res' # res
      BY <1>1
    <2>2. \/ ServerDispatchReply(p) \/ ServerStoreOp(p) \/ ServerStoreRace(p) \/ ServerFree(p)
      BY <2>1 DEF Thread, ServerStep, ServerListen, ServerOpenLog, ServerAccept,
     ServerRecvHead, ServerBadMark, ServerRecvBody, ServerRecvFails,
     ServerDispatchStore, ServerDispatchUnknown,
     ServerAcquire, ServerUnlock, ServerReplyHead,
     ServerReplyBody, ServerSigpipe, ServerDies, ServerClose, ServerStop
    <2>3. ~ServerFree(p)
      BY <1>1, <1>2 DEF ServerFree
    <2> QED
      BY <1>2, <2>2, <2>3 DEF ServerDispatchReply, ServerStoreOp, ServerStoreRace, Goto
  <1>4. PICK j \in Clients :
           /\ cur[p] = ConnOf(j) /\ cur[p] \in Conns /\ cur[p][1] = j /\ job[j].port = p
           /\ Where(ConnOf(j)) = spc[p] /\ Handled(j)
    BY <1>3, HandlesJob
  <1>5. j = k
    BY <1>1, <1>4
  <1>6. performed[k] = NoRes
    BY <1>3, <1>4, <1>5 DEF Handled
  <1> QED
    BY <1>1, <1>3, <1>4, <1>5, <1>6

(* The head of a response to a client that is there goes on the stream.     *)
LEMMA ReplyHeadStep ==
  ASSUME ProtocolInv, NEW p \in Ports, ServerReplyHead(p)
  PROVE  \E k \in Clients :
           /\ cur[p] = ConnOf(k) /\ job[k].port = p /\ Handled(k) /\ Where(ConnOf(k)) = "reply_head"
           /\ ConnOf(k) \in Conns
           /\ spc[p] = "reply_head" /\ spc'[p] \in {"reply_body", "free"}
           /\ Alive(k) => /\ spc'[p] = "reply_body" /\ ConnOf(k) \notin reset
                          /\ down'[ConnOf(k)] = <<ResponseHead(k)>>
  <1>1. spc[p] = "reply_head" /\ proc = "up"
    BY DEF ServerReplyHead, Goto
  <1>2. /\ NetInv /\ spc \in [Ports -> ServerPC] /\ down \in [Conns -> Seq(Segments)]
    BY DEF ProtocolInv, DataTypeOK, ServerTypeOK, NetTypeOK
  <1>3. PICK k \in Clients :
           /\ cur[p] = ConnOf(k) /\ cur[p] \in Conns /\ job[k].port = p
           /\ Where(ConnOf(k)) = spc[p] /\ Handled(k)
           /\ req[p].method = creq[k].method /\ req[p].id = creq[k].id
    BY <1>1, HandlesJob
  <1>4. PICK result \in {"all", "lost", "fail"} :
          /\ Goto(p, "reply_head", IF Wrote(result) THEN "reply_body" ELSE "free")
          /\ ServerWrites(p, HeadSeg(req[p].id, req[p].method, res[p].status, res[p].data), result)
    BY DEF ServerReplyHead
  <1>5. spc'[p] = IF Wrote(result) THEN "reply_body" ELSE "free"
    BY <1>2, <1>4 DEF Goto
  <1>6. ASSUME Alive(k)
        PROVE  /\ spc'[p] = "reply_body" /\ ConnOf(k) \notin reset
               /\ down'[ConnOf(k)] = <<ResponseHead(k)>>
    <2>1. cur[p] \notin reset /\ cl_open[cur[p]]
      <3>1. Served(ConnOf(k))
        BY <1>1, <1>3 DEF Served
      <3> QED
        BY <1>2, <1>3, <1>6, <3>1 DEF NetInv, EndsInv, Alive
    <2> DEFINE head == HeadSeg(req[p].id, req[p].method, res[p].status, res[p].data)
    <2>2. head.seg = "head" /\ head # BodySeg(<<>>)
      BY DEF HeadSeg, BodySeg
    <2>3. head = ResponseHead(k)
      <3>1. performed[k] = res[p]
        BY <1>1, <1>3 DEF Handled
      <3> QED
        BY <1>3, <3>1 DEF ResponseHead
    <2> HIDE DEF head
    <2>4. result = "all"
      BY <1>4, <2>1, <2>2 DEF ServerWrites, WriteResults, head
    <2>5. down[cur[p]] = <<>>
      BY <1>3, <1>6 DEF Handled, Silent
    <2>6. down'[cur[p]] = Append(<<>>, head)
      BY <1>2, <1>3, <1>4, <2>2, <2>4, <2>5 DEF ServerWrites, Stored, head
    <2> QED
      BY <1>3, <1>5, <2>1, <2>3, <2>4, <2>6, ShortSequences DEF Wrote
  <1> QED
    BY <1>1, <1>3, <1>5, <1>6

(* So does its body, or a part of it; a body of no bytes changes nothing.   *)
LEMMA ReplyBodyStep ==
  ASSUME ProtocolInv, NEW p \in Ports, ServerReplyBody(p), NEW c \in Conns, c = cur[p]
  PROVE  /\ res[p].data = <<>> => down'[c] = down[c]
         /\ cl_open[c] => \/ down'[c] = down[c] /\ res[p].data = <<>>
                          \/ down'[c] = Append(down[c], BodySeg(res[p].data)) /\ res[p].data # <<>>
                          \/ down'[c] = Append(down[c], Part) /\ res[p].data # <<>>
  <1>1. spc[p] = "reply_body" /\ proc = "up"
    BY DEF ServerReplyBody, Goto
  <1>2. /\ NetInv /\ down \in [Conns -> Seq(Segments)]
    BY DEF ProtocolInv, DataTypeOK, NetTypeOK
  <1>3. PICK result \in {"all", "short", "lost", "fail"} :
          ServerWrites(p, BodySeg(res[p].data), result)
    BY DEF ServerReplyBody
  <1>4. /\ BodySeg(res[p].data).seg = "body" /\ BodySeg(res[p].data).data = res[p].data
        /\ res[p].data # <<>> => BodySeg(res[p].data) # BodySeg(<<>>)
    BY DEF BodySeg
  <1>5. down'[c] = Stored(down[c], BodySeg(res[p].data), result)
    BY <1>2, <1>3 DEF ServerWrites
  <1>6. result \in WriteResults(c, BodySeg(res[p].data), cl_open[c]) \ {"sigpipe"}
    BY <1>3 DEF ServerWrites
  <1>7. cl_open[c] => c \notin reset
    <2>1. Served(c)
      <3>1. PortOf(c) = p
        BY <1>1, <1>2, NoneAssumption DEF NetInv, QueueInv
      <3> QED
        BY <1>1, <3>1 DEF Served, Where
    <2> QED
      BY <1>2, <2>1 DEF NetInv, EndsInv
  <1>8. result = "short" => res[p].data # <<>>
    BY <1>4, <1>6 DEF WriteResults
  <1>9. CASE res[p].data = <<>>
    BY <1>5, <1>8, <1>9 DEF Stored
  <1>10. CASE res[p].data # <<>>
    <2>1. cl_open[c] => result \in {"all", "short"}
      BY <1>6, <1>7 DEF WriteResults
    <2> QED
      BY <1>4, <1>5, <1>10, <2>1 DEF Stored
  <1> QED
    BY <1>9, <1>10

(* Connections clients are done with, or have yet to open.                  *)
LEMMA OthersThread ==
  ASSUME ProtocolInv, NEW p \in Ports, Thread(p)
  PROVE  OthersInv'
  <1>1. UNCHANGED <<conn_i, cpc>>
    BY DEF Thread, clientVars
  <1>2. ASSUME NEW c \in Conns, Past(c)
        PROVE  Past(c)'
    <2>1. ASSUME Served(c)'
          PROVE  up'[c] = <<>> /\ (Late(c)' \/ Where(c)' = "close")
      <3>1. Served(c) /\ up[c] = <<>> /\ (Late(c) \/ Where(c) = "close")
        BY <1>2, <2>1, ThreadPlaces DEF Past
      <3>2. ~(c = cur[p] /\ ServerRecvHead(p))
        BY <3>1 DEF ServerRecvHead, HeadReady
      <3>3. ~(c = cur[p] /\ ServerRecvBody(p))
        <4>1. c = cur[p] => Where(c) = spc[p]
          BY ThreadPlaces
        <4> QED
          BY <3>1, <4>1 DEF ServerRecvBody, Goto, Late
      <3>4. up'[c] = <<>>
        BY <3>1, <3>2, <3>3, ThreadStreams
      <3>5. CASE Late(c)
        BY <2>1, <3>2, <3>4, <3>5, LateStep
      <3>6. CASE Where(c) = "close"
        <4>1. CASE c = cur[p]
          <5>1. spc[p] = "close"
            BY <3>6, <4>1, ThreadPlaces
          <5>2. ServerClose(p)
            BY <5>1 DEF Thread, ServerStep, ServerListen, ServerOpenLog, ServerAccept,
     ServerRecvHead, ServerBadMark, ServerRecvBody, ServerRecvFails,
     ServerDispatchReply, ServerDispatchStore, ServerDispatchUnknown,
     ServerAcquire, ServerStoreOp, ServerStoreRace, ServerUnlock, ServerReplyHead,
     ServerReplyBody, ServerSigpipe, ServerFree, ServerStop, Goto
          <5>3. ~Served(c)'
            BY <4>1, <5>2, CloseNet DEF Thread, clientVars
          <5> QED
            BY <2>1, <5>3
        <4>2. CASE c # cur[p]
          BY <2>1, <3>4, <3>6, <4>2, ThreadPlaces
        <4> QED
          BY <4>1, <4>2
      <3> QED
        BY <3>1, <3>4, <3>5, <3>6
    <2> QED
      BY <2>1 DEF Past
  <1>3. ASSUME NEW c \in Conns, Fresh(c)
        PROVE  Fresh(c)'
    <2>1. ~Served(c) /\ up[c] = <<>> /\ down[c] = <<>> /\ ~cl_open[c] /\ c \notin reset
      BY <1>3 DEF Fresh
    <2>2. ~Served(c)' /\ c # cur[p]
      BY <2>1, ThreadPlaces
    <2> QED
      BY <2>1, <2>2, ThreadStreams DEF Fresh
  <1>4. \A k \in Clients, i \in 1 .. MaxConns : <<k, i>> \in Conns
    BY DEF Conns
  <1> QED
    BY <1>1, <1>2, <1>3, <1>4 DEF ProtocolInv, OthersInv

(* A thread before the body of a response replies to the client of its      *)
(* connection, unless it has the client's next request coming already.      *)
LEMMA ThreadReplies ==
  ASSUME ProtocolInv, NEW p \in Ports, ServerReplyBody(p), NEW k \in Clients, ConnOf(k) = cur[p]
  PROVE  /\ ConnOf(k) \in Conns /\ job[k].port = p /\ Where(ConnOf(k)) = "reply_body"
         /\ Replying(k) \/ (res[p].data = <<>> /\ (Idle(k) \/ Underway(k)))
  <1>1. spc[p] = "reply_body" /\ proc = "up"
    BY DEF ServerReplyBody, Goto
  <1>2. /\ ConnOf(k) \in Conns /\ PortOf(ConnOf(k)) = p
    BY <1>1, NoneAssumption
       DEF ProtocolInv, NetInv, QueueInv, Serving, DataTypeOK, ServerTypeOK
  <1>3. job[k].port = p
    BY <1>2 DEF PortOf, ConnOf
  <1>4. Where(ConnOf(k)) = "reply_body"
    BY <1>1, <1>2 DEF Where
  <1>5. Phase(k)
    BY <1>4 DEF ProtocolInv, PhaseInv, Served
  <1>6. ~HeadTaken(k) /\ ~Handled(k) /\ ~Replied(k) /\ ~Refused(k)
    BY <1>4 DEF HeadTaken, Handled, Replied, Refused
  <1>7. Late(ConnOf(k)) => res[p].data = <<>>
    BY <1>2, <1>4 DEF Late
  <1> QED
    BY <1>2, <1>3, <1>4, <1>5, <1>6, <1>7 DEF Phase, Idle, Underway

(* The body follows the head, wherever that is.                             *)
LEMMA BodyFollows ==
  ASSUME NEW k \in Clients, NEW x, Answering(k, <<>>),
         UNCHANGED <<ConnOf(k), rhead[k], creq[k], performed[k]>>,
         down'[ConnOf(k)] = Append(down[ConnOf(k)], x)
  PROVE  Answering(k, <<x>>)'
  <1>1. ResponseHead(k)' = ResponseHead(k)
    BY DEF ResponseHead
  <1>2. CASE rhead[k] = Nothing /\ down[ConnOf(k)] = <<ResponseHead(k)>> \o <<>>
    <2>1. down'[ConnOf(k)] = <<ResponseHead(k)>> \o <<x>>
      BY <1>2, ShortSequences
    <2> QED
      BY <1>1, <1>2, <2>1 DEF Answering
  <1>3. CASE rhead[k] = ResponseHead(k) /\ down[ConnOf(k)] = <<>>
    <2>1. down'[ConnOf(k)] = <<x>>
      BY <1>3, ShortSequences
    <2> QED
      BY <1>1, <1>3, <2>1 DEF Answering
  <1> QED
    BY <1>2, <1>3 DEF Answering

(* What a client may hear, over a step of a thread.                         *)
LEMMA ClientThread ==
  ASSUME ProtocolInv, NEW p \in Ports, Thread(p)
  PROVE  ClientInv'
  <1> SUFFICES ASSUME NEW k \in Clients PROVE ClientOK(k)'
    BY DEF ClientInv
  <1>1. UNCHANGED <<job, cpc, conn_i, creq, rhead, cl_open>> /\ ClientOK(k)
    <2>1. UNCHANGED cl_open
      <3>1. ConnOf(k) \in Conns
        BY DEF ConnOf, Conns, ProtocolInv, DataTypeOK, ClientTypeOK
      <3> QED
        BY <3>1, ThreadStreams
    <2> QED
      BY <2>1 DEF Thread, clientVars, ProtocolInv, ClientInv
  <1>2. PICK c0 \in Conns : c0 = ConnOf(k) /\ ConnOf(k)' = c0
    BY <1>1 DEF ConnOf, Conns, ProtocolInv, DataTypeOK, ClientTypeOK
  <1>3. Alive(k)' = Alive(k)
    BY <1>1, <1>2 DEF Alive
  <1>4. CASE performed'[k] # performed[k]
    <2>1. /\ Handled(k) /\ performed[k] = NoRes /\ spc[p] \in {"dispatch", "store_op"}
          /\ performed'[k] # NoRes
      BY <1>4, ThreadPerforms
    <2>2. down'[c0] = down[c0]
      <3>1. ~ServerReplyHead(p) /\ ~ServerReplyBody(p)
        BY <2>1 DEF ServerReplyHead, ServerReplyBody, Goto
      <3> QED
        BY <3>1, ThreadStreams
    <2>3. creq[k] # NoReq /\ rhead[k] = Nothing /\ (Alive(k) => Silent(k))
      BY <1>1, <2>1 DEF Handled, ClientOK
    <2> QED
      BY <1>1, <1>2, <1>3, <2>1, <2>2, <2>3 DEF ClientOK, Silent
  <1>5. CASE performed'[k] = performed[k] /\ down'[c0] = down[c0]
    <2>1. ResponseHead(k)' = ResponseHead(k)
      BY <1>1, <1>5 DEF ResponseHead
    <2>2. Silent(k)' = Silent(k)
      BY <1>1, <1>2, <1>5 DEF Silent
    <2>3. \A tail : Answering(k, tail)' = Answering(k, tail)
      BY <1>1, <1>2, <1>5, <2>1 DEF Answering
    <2> QED
      BY <1>1, <1>2, <1>3, <1>5, <2>1, <2>2, <2>3 DEF ClientOK
  <1>6. CASE performed'[k] = performed[k] /\ down'[c0] # down[c0]
    <2>1. c0 = cur[p] /\ (ServerReplyHead(p) \/ ServerReplyBody(p))
      BY <1>6, ThreadStreams
    <2>2. ResponseHead(k)' = ResponseHead(k)
      BY <1>1, <1>6 DEF ResponseHead
    <2>3. /\ creq[k] # NoReq
          /\ Alive(k) => /\ performed[k] # NoRes
                         /\ \E tail \in Tails(performed[k].data) : Answering(k, tail)'
      <3>1. CASE ServerReplyHead(p)
        <4>1. /\ Handled(k) /\ Where(c0) = "reply_head"
              /\ Alive(k) => down'[c0] = <<ResponseHead(k)>>
          <5>1. PICK j \in Clients :
                  /\ cur[p] = ConnOf(j) /\ Handled(j) /\ Where(ConnOf(j)) = "reply_head"
                  /\ Alive(j) => down'[ConnOf(j)] = <<ResponseHead(j)>>
            BY <3>1, ReplyHeadStep
          <5>2. j = k
            BY <1>2, <2>1, <5>1 DEF ConnOf
          <5> QED
            BY <1>2, <5>1, <5>2
        <4>2. creq[k] # NoReq /\ performed[k] # NoRes /\ (Alive(k) => rhead[k] = Nothing)
          BY <1>2, <4>1 DEF Handled, Silent
        <4>3. <<>> \in Tails(performed[k].data)
          BY DEF Tails
        <4>4. Alive(k) => Answering(k, <<>>)'
          <5>1. <<ResponseHead(k)>> \o <<>> = <<ResponseHead(k)>>
            BY ShortSequences
          <5> QED
            BY <1>1, <1>2, <2>2, <4>1, <4>2, <5>1 DEF Answering
        <4> QED
          BY <4>2, <4>3, <4>4
      <3>2. CASE ServerReplyBody(p)
        <4>1. res[p].data # <<>>
          BY <1>6, <2>1, <3>2, ReplyBodyStep
        <4>2. Replying(k) /\ job[k].port = p
          BY <1>2, <2>1, <3>2, <4>1, ThreadReplies
        <4>3. creq[k] # NoReq /\ performed[k] = res[p] /\ performed[k] # NoRes
              /\ (Alive(k) => Answering(k, <<>>))
          BY <4>2 DEF Replying
        <4>4. Alive(k) => \E x : /\ down'[c0] = Append(down[c0], x)
                                 /\ <<x>> \in Tails(performed[k].data)
          <5>1. Alive(k) => \/ down'[c0] = Append(down[c0], BodySeg(res[p].data))
                            \/ down'[c0] = Append(down[c0], Part)
            BY <1>2, <2>1, <3>2, <4>1, ReplyBodyStep DEF Alive
          <5>2. /\ <<BodySeg(res[p].data)>> \in Tails(performed[k].data)
                /\ <<Part>> \in Tails(performed[k].data)
            BY <4>1, <4>3 DEF Tails
          <5> QED
            BY <5>1, <5>2
        <4>5. Alive(k) => \E x : Answering(k, <<x>>)' /\ <<x>> \in Tails(performed[k].data)
          BY <1>1, <1>2, <1>6, <4>3, <4>4, BodyFollows
        <4> QED
          BY <4>3, <4>5
      <3> QED
        BY <2>1, <3>1, <3>2
    <2> QED
      BY <1>1, <1>2, <1>3, <1>6, <2>2, <2>3 DEF ClientOK
  <1> QED
    BY <1>4, <1>5, <1>6

-----------------------------------------------------------------------------
(* The phases over a step of a thread *)

\* The client's end of its connection, and what it knows of its request, stay
\* as they are; or the client is gone.
ClientSame(k, c) ==
  /\ ConnOf(k) = c /\ ConnOf(k)' = c
  /\ UNCHANGED <<job, creq[k], rhead[k], performed[k], up[c]>>
  /\ cpc'[k] = cpc[k] \/ cpc'[k] \notin {"send_body", "recv_head"}
  /\ cl_open'[c] => cl_open[c] /\ down'[c] = down[c]

(* What the formulas of the phases are made of, then.                       *)
LEMMA SameParts ==
  ASSUME NEW k \in Clients, NEW c, ClientSame(k, c)
  PROVE  /\ Alive(k)' => Alive(k)
         /\ Alive(k)' /\ Silent(k) => Silent(k)'
         /\ \A tail : Alive(k)' /\ Answering(k, tail) => Answering(k, tail)'
         /\ \A tail : Requested(k, tail) => Requested(k, tail)'
         /\ BodySkipped(k) => BodySkipped(k)'
         /\ RequestHead(k)' = RequestHead(k) /\ ResponseHead(k)' = ResponseHead(k)
         /\ up'[c] = up[c] /\ creq'[k] = creq[k] /\ performed'[k] = performed[k]
         /\ (InHand(k) /\ req'[job[k].port] = req[job[k].port]) => InHand(k)'
         /\ job' = job
  <1>1. ResponseHead(k)' = ResponseHead(k) /\ RequestHead(k)' = RequestHead(k)
    BY DEF ClientSame, ResponseHead, RequestHead
  <1>2. Alive(k)' => Alive(k)
    BY DEF ClientSame, Alive
  <1>3. Alive(k)' /\ Silent(k) => Silent(k)'
    BY DEF ClientSame, Alive, Silent
  <1>4. \A tail : Alive(k)' /\ Answering(k, tail) => Answering(k, tail)'
    BY <1>1 DEF ClientSame, Alive, Answering
  <1>5. \A tail : Requested(k, tail) => Requested(k, tail)'
    BY DEF ClientSame, Requested
  <1>6. BodySkipped(k) => BodySkipped(k)'
    BY DEF ClientSame, BodySkipped
  <1>7. (InHand(k) /\ req'[job[k].port] = req[job[k].port]) => InHand(k)'
    BY DEF ClientSame, InHand
  <1> QED
    BY <1>1, <1>2, <1>3, <1>4, <1>5, <1>6, <1>7 DEF ClientSame

(* A request the server has yet to take notice of stays one.                *)
LEMMA LateKept ==
  ASSUME NEW k \in Clients, NEW c, ClientSame(k, c), Late(c)'
  PROVE  /\ Idle(k) => Idle(k)'
         /\ Underway(k) => Underway(k)'
  <1>1. ConnOf(k)' = c /\ ConnOf(k) = c
    BY DEF ClientSame
  <1>2. Idle(k) => Idle(k)'
    BY <1>1, SameParts DEF Idle
  <1>3. ASSUME Underway(k)
        PROVE  Underway(k)'
    <2>1. PICK tail \in Tails(creq[k].data) :
            up[ConnOf(k)] = <<RequestHead(k)>> \o tail /\ Requested(k, tail)
      BY <1>3 DEF Underway
    <2>2. up'[c] = <<RequestHead(k)'>> \o tail /\ Requested(k, tail)'
      BY <1>1, <2>1, SameParts
    <2>3. tail \in Tails(creq'[k].data)
      BY SameParts
    <2>4. creq'[k] # NoReq /\ performed'[k] = NoRes /\ (Alive(k)' => Silent(k)')
      BY <1>3, SameParts DEF Underway
    <2> QED
      BY <1>1, <2>2, <2>3, <2>4 DEF Underway
  <1> QED
    BY <1>2, <1>3

(* A phase goes on as long as neither side does anything.                   *)
LEMMA PhaseKept ==
  ASSUME NEW k \in Clients, NEW c, ClientSame(k, c), Where(c)' = Where(c),
         Where(c) \in {"recv_body", "dispatch", "store_op", "unlock", "reply_head", "reply_body"}
           => /\ req'[job[k].port] = req[job[k].port]
              /\ res'[job[k].port] = res[job[k].port],
         Phase(k)
  PROVE  Phase(k)'
  <1>1. ConnOf(k)' = c /\ ConnOf(k) = c
    BY DEF ClientSame
  <1>2. CASE Idle(k) \/ Underway(k)
    <2>1. PortOf(c) = job[k].port /\ PortOf(c)' = PortOf(c)
      BY <1>1, SameParts DEF PortOf, ConnOf
    <2>2. Late(c)
      BY <1>1, <1>2 DEF Idle, Underway
    <2>3. Late(c)'
      BY <2>1, <2>2 DEF Late
    <2> QED
      BY <1>2, <2>3, LateKept DEF Phase
  <1>3. CASE HeadTaken(k)
    BY <1>1, <1>3, SameParts DEF HeadTaken, Phase
  <1>4. CASE Handled(k)
    <2>1. Handled(k)'
      BY <1>1, <1>4, SameParts DEF Handled
    <2> QED
      BY <2>1 DEF Phase
  <1>5. CASE Replying(k)
    BY <1>1, <1>5, SameParts DEF Replying, Phase
  <1>6. CASE Replied(k)
    <2>1. Replied(k)'
      BY <1>1, <1>6, SameParts DEF Replied
    <2> QED
      BY <2>1 DEF Phase
  <1>7. CASE Refused(k)
    BY <1>1, <1>7, SameParts DEF Refused, Phase
  <1> QED
    BY <1>2, <1>3, <1>4, <1>5, <1>6, <1>7 DEF Phase

(* A step of a thread that is not with the client's connection.             *)
LEMMA PhaseElsewhere ==
  ASSUME ProtocolInv, NEW p \in Ports, Thread(p), NEW k \in Clients, NEW c \in Conns,
         c = ConnOf(k), c # cur[p], Served(c)'
  PROVE  Phase(k)'
  <1>1. Served(c) /\ Phase(k)
    BY ThreadPlaces DEF ProtocolInv, PhaseInv
  <1>2. ~ServerSigpipe(p)
    BY EndNet DEF ServerSigpipe, Thread, clientVars
  <1>3. ClientSame(k, c)
    <2>1. UNCHANGED <<job, cpc, conn_i, creq, rhead>>
      BY DEF Thread, clientVars
    <2>2. ConnOf(k)' = c
      BY <2>1 DEF ConnOf
    <2>3. performed'[k] = performed[k]
      BY ThreadPerforms
    <2> QED
      BY <2>1, <2>2, <2>3, ThreadStreams DEF ClientSame
  <1>4. CASE Where(c) = "queue" /\ Where(c)' = "recv_head"
    <2>1. Idle(k) \/ Underway(k)
      BY <1>1, <1>4 DEF Phase, HeadTaken, Handled, Replying, Replied, Refused
    <2>2. Late(c)'
      BY <1>4 DEF Late
    <2> QED
      BY <1>3, <2>1, <2>2, LateKept DEF Phase
  <1>5. CASE Where(c)' = Where(c)
    <2>1. ASSUME Where(c) \in {"recv_body", "dispatch", "store_op", "unlock", "reply_head", "reply_body"}
          PROVE  /\ req'[job[k].port] = req[job[k].port]
                 /\ res'[job[k].port] = res[job[k].port]
      <3>1. PortOf(c) = job[k].port /\ job[k].port \in Ports
        BY JobType DEF PortOf, ConnOf, ProtocolInv
      <3>2. cur[PortOf(c)] = c
        BY <2>1 DEF Where
      <3> QED
        BY <1>2, <3>1, <3>2, ThreadLocal
    <2> QED
      BY <1>1, <1>3, <1>5, <2>1, PhaseKept
  <1> QED
    BY <1>4, <1>5, ThreadPlaces

(* The body of a request, as rpc_recv_req takes it.                         *)
LEMMA BodyTakenWhole ==
  ASSUME NEW data \in Datas, NEW tail \in Tails(data), BodyReady(tail, Len(data))
  PROVE  /\ BodyData(tail, Len(data)) = data /\ BodyTaken(tail, Len(data)) = <<>>
         /\ tail = <<>> => data = <<>>
  <1>1. data = <<>> <=> Len(data) = 0
    BY EmptyLength DEF Datas
  <1>2. CASE data = <<>>
    BY <1>1, <1>2 DEF BodyReady, BodyData, BodyTaken, Tails
  <1>3. CASE data # <<>>
    <2>1. tail # <<>> /\ tail[1].seg = "body" /\ Len(data) # 0
      BY <1>1, <1>3 DEF BodyReady
    <2>2. tail = <<BodySeg(data)>> \/ tail = <<Part>>
      BY <1>3, <2>1 DEF Tails
    <2>3. tail # <<Part>>
      <3>1. <<Part>>[1] = Part /\ Part.seg = "part"
        BY DEF Part
      <3> QED
        BY <2>1, <3>1
    <2>4. /\ <<BodySeg(data)>>[1] = BodySeg(data) /\ Tail(<<BodySeg(data)>>) = <<>>
          /\ BodySeg(data).data = data
      BY ShortSequences DEF BodySeg
    <2> QED
      BY <2>1, <2>2, <2>3, <2>4 DEF BodyData, BodyTaken
  <1> QED
    BY <1>2, <1>3

(* The steps of a thread on the connection of client k: what rpc_recv_req   *)
(* takes.                                                                   *)
LEMMA PhaseReceives ==
  ASSUME ProtocolInv, NEW p \in Ports, Thread(p), NEW k \in Clients, NEW c \in Conns,
         c = ConnOf(k), c = cur[p], Served(c)',
         ServerRecvHead(p) \/ ServerBadMark(p) \/ ServerRecvBody(p) \/ ServerRecvFails(p)
  PROVE  Phase(k)'
  <1>1. /\ UNCHANGED <<job, cpc, conn_i, creq, rhead>> /\ ConnOf(k)' = c
        /\ UNCHANGED <<cl_open, down[c]>>
    <2>1. ~ServerReplyHead(p) /\ ~ServerReplyBody(p)
      BY
         DEF ServerRecvHead, ServerBadMark, ServerRecvBody, ServerRecvFails, Goto,
             ServerReplyHead, ServerReplyBody
    <2> QED
      BY <2>1, ThreadStreams DEF Thread, clientVars, ConnOf
  <1>2. /\ spc \in [Ports -> ServerPC] /\ up \in [Conns -> Seq(Segments)]
        /\ req \in [Ports -> [id : Nat, method : Methods \cup {"none"}, data_len : Nat, data : Datas]]
        /\ PortOf(c) = p /\ job[k].port = p
    <2>1. PortOf(c) = p
      BY NoneAssumption DEF ProtocolInv, NetInv, QueueInv
    <2>2. job[k].port = p
      BY <2>1 DEF PortOf, ConnOf
    <2> QED
      BY <2>1, <2>2 DEF ProtocolInv, DataTypeOK, ServerTypeOK, NetTypeOK
  <1>3. /\ Where(c) = spc[p] /\ Where(c)' = spc'[p] /\ proc = "up"
    BY ThreadPlaces
       DEF ServerRecvHead, ServerBadMark, ServerRecvBody, ServerRecvFails, Goto
  <1>4. performed'[k] = performed[k]
    <2>1. spc[p] \in {"recv_head", "recv_body"}
      BY DEF ServerRecvHead, ServerBadMark, ServerRecvBody, ServerRecvFails, Goto
    <2> QED
      BY <2>1, ThreadPerforms
  <1>5. Alive(k)' = Alive(k) /\ Silent(k)' = Silent(k)
    BY <1>1 DEF Alive, Silent
  <1>6. ASSUME ServerRecvHead(p) \/ ServerBadMark(p)
        PROVE  Underway(k)
    <2>1. PICK j \in Clients : cur[p] = ConnOf(j) /\ Underway(j)
      BY <1>3, <1>6, ThreadTakes DEF ServerRecvHead, ServerBadMark, Goto
    <2>2. j = k
      BY <2>1 DEF ConnOf
    <2> QED
      BY <2>1, <2>2
  <1>7. CASE ServerRecvHead(p)
    <2>1. Underway(k) /\ spc'[p] = "recv_body"
      BY <1>2, <1>6, <1>7 DEF ServerRecvHead, Goto
    <2>2. /\ up[c][1] = RequestHead(k)
          /\ Tail(up[c]) \in Tails(creq[k].data) /\ Requested(k, Tail(up[c]))
      BY <2>1, RequestTaken
    <2>3. up'[c] = Tail(up[c]) /\ req'[p].id = up[c][1].id /\ req'[p].method = up[c][1].method
          /\ req'[p].data_len = up[c][1].data_len
      BY <1>2, <1>7 DEF ServerRecvHead, HeadIn
    <2>4. InHand(k)'
      BY <1>1, <1>2, <2>2, <2>3 DEF InHand, RequestHead, HeadSeg
    <2>5. up'[c] \in Tails(creq'[k].data) /\ Requested(k, up[c])'
      <3>1. \A tail : Requested(k, tail) => Requested(k, tail)'
        BY <1>1 DEF Requested
      <3> DEFINE t == Tail(up[c])
      <3>2. Requested(k, t)
        BY <2>2
      <3>3. up'[c] = t
        BY <2>3
      <3>4. cpc'[k] = cpc[k] /\ creq'[k] = creq[k]
        BY <1>1
      <3> HIDE DEF t
      <3> QED
        BY <2>2, <3>2, <3>3, <3>4 DEF Requested, t
    <2>6. creq'[k] # NoReq /\ performed'[k] = NoRes /\ (Alive(k)' => Silent(k)')
      BY <1>1, <1>4, <1>5, <2>1 DEF Underway
    <2>7. Where(ConnOf(k))' = "recv_body"
      BY <1>1, <1>3, <2>1
    <2>8. HeadTaken(k)'
      BY <1>1, <2>4, <2>5, <2>6, <2>7 DEF HeadTaken
    <2> QED
      BY <2>8 DEF Phase
  <1>8. CASE ServerBadMark(p)
    <2>1. Underway(k) /\ spc'[p] = "close"
      BY <1>2, <1>6, <1>8 DEF ServerBadMark, Goto
    <2>2. Refused(k)'
      BY <1>1, <1>3, <1>5, <2>1 DEF Refused, Underway
    <2> QED
      BY <2>2 DEF Phase
  <1>9. CASE ServerRecvBody(p)
    <2>1. spc[p] = "recv_body" /\ spc'[p] = "dispatch"
      BY <1>2, <1>9 DEF ServerRecvBody, Goto
    <2>2. HeadTaken(k)
      <3>1. PICK j \in Clients : cur[p] = ConnOf(j) /\ HeadTaken(j)
        BY <1>3, <2>1, ThreadHandles
      <3>2. j = k
        BY <3>1 DEF ConnOf
      <3> QED
        BY <3>1, <3>2
    <2>3. creq[k].data \in Datas
      <3>1. creq[k] \in Requests
        BY <2>2 DEF HeadTaken, ProtocolInv, DataTypeOK, ClientTypeOK
      <3> QED
        BY <3>1 DEF Requests, Datas
    <2>4. /\ req[p].data_len = Len(creq[k].data)
          /\ up[c] \in Tails(creq[k].data) /\ Requested(k, up[c])
          /\ req[p].id = creq[k].id /\ req[p].method = creq[k].method
      BY <1>2, <2>2 DEF HeadTaken, InHand
    <2>5. /\ BodyReady(up[c], Len(creq[k].data))
          /\ req'[p].data = BodyData(up[c], Len(creq[k].data))
          /\ up'[c] = BodyTaken(up[c], Len(creq[k].data))
          /\ req'[p].id = req[p].id /\ req'[p].method = req[p].method
          /\ req'[p].data_len = req[p].data_len
      BY <1>2, <1>9, <2>4 DEF ServerRecvBody
    <2>6. req'[p].data = creq[k].data /\ up'[c] = <<>> /\ (up[c] = <<>> => creq[k].data = <<>>)
      BY <2>3, <2>4, <2>5, BodyTakenWhole
    <2>7. BodySkipped(k)'
      BY <1>1, <2>4, <2>6 DEF BodySkipped, Requested
    <2>8. InHand(k)'
      BY <1>1, <1>2, <2>4, <2>5 DEF InHand
    <2>9. creq'[k] # NoReq /\ performed'[k] = NoRes /\ (Alive(k)' => Silent(k)')
      BY <1>1, <1>4, <1>5, <2>2 DEF HeadTaken
    <2>10. Where(ConnOf(k))' = "dispatch"
      BY <1>1, <1>3, <2>1
    <2>11. Handled(k)'
      BY <1>1, <1>2, <2>6, <2>7, <2>8, <2>9, <2>10 DEF Handled
    <2> QED
      BY <2>11 DEF Phase
  <1>10. CASE ServerRecvFails(p)
    <2>1. ~cl_open[c] /\ spc'[p] = "close"
      BY <1>2, <1>10 DEF ServerRecvFails, AtEnd, Goto
    <2>2. Refused(k)'
      BY <1>1, <1>3, <2>1 DEF Refused, Alive
    <2> QED
      BY <2>2 DEF Phase
  <1> QED
    BY <1>7, <1>8, <1>9, <1>10

(* The steps of a thread on the connection of client k: what handle_rpc_conn*)
(* does with the request in hand.                                           *)
LEMMA PhaseHandles ==
  ASSUME ProtocolInv, NEW p \in Ports, Thread(p), NEW k \in Clients, NEW c \in Conns,
         c = ConnOf(k), c = cur[p], Served(c)',
         \/ ServerDispatchReply(p) \/ ServerDispatchStore(p) \/ ServerDispatchUnknown(p)
         \/ ServerAcquire(p) \/ ServerStoreOp(p) \/ ServerStoreRace(p) \/ ServerUnlock(p)
  PROVE  Phase(k)'
  <1>1. /\ UNCHANGED <<job, cpc, conn_i, creq, rhead>> /\ ConnOf(k)' = c
        /\ UNCHANGED <<cl_open, down[c], up[c], req>>
    <2>1. UNCHANGED <<netVars, req>>
      BY DEF ServerDispatchReply, ServerDispatchStore, ServerDispatchUnknown,
             ServerAcquire, ServerStoreOp, ServerStoreRace, ServerUnlock
    <2> QED
      BY <2>1 DEF Thread, clientVars, ConnOf, netVars
  <1>2. /\ Where(c) = spc[p] /\ Where(c)' = spc'[p]
        /\ spc \in [Ports -> ServerPC] /\ res \in [Ports -> Responses \cup {NoRes}]
    BY ThreadPlaces DEF ProtocolInv, DataTypeOK, ServerTypeOK
  <1>3. proc = "up" /\ spc[p] \in {"dispatch", "store_op", "unlock"}
    BY DEF ServerDispatchReply, ServerDispatchStore, ServerDispatchUnknown,
           ServerAcquire, ServerStoreOp, ServerStoreRace, ServerUnlock, Goto
  <1>4. /\ Handled(k) /\ job[k].port = p
        /\ req[p].method = creq[k].method /\ req[p].data = creq[k].data
    <2>1. PICK j \in Clients :
           /\ cur[p] = ConnOf(j) /\ Handled(j) /\ job[j].port = p
           /\ req[p].method = job[j].method /\ req[p].data = job[j].data
           /\ creq[j].method = job[j].method /\ creq[j].data = job[j].data
      BY <1>3, HandlesJob
    <2>2. j = k
      BY <2>1 DEF ConnOf
    <2> QED
      BY <2>1, <2>2
  <1>5. /\ Alive(k)' = Alive(k) /\ Silent(k)' = Silent(k) /\ BodySkipped(k)' = BodySkipped(k)
        /\ InHand(k)' = InHand(k)
    BY <1>1 DEF Alive, Silent, BodySkipped, InHand
  <1>6. /\ creq'[k] # NoReq /\ (Alive(k)' => Silent(k)')
        /\ InHand(k)' /\ req'[job'[k].port].data = creq'[k].data
        /\ up'[c] = <<>> /\ BodySkipped(k)'
    BY <1>1, <1>4, <1>5 DEF Handled
  <1>7. CASE ServerDispatchReply(p) \/ ServerStoreOp(p) \/ ServerStoreRace(p)
    <2>1. spc[p] \in {"dispatch", "store_op"} /\ spc'[p] \in {"unlock", "reply_head"}
      BY <1>2, <1>7 DEF ServerDispatchReply, ServerStoreOp, ServerStoreRace, Goto
    <2>2. res[p] = NoRes
      BY <2>1 DEF ProtocolInv, NetInv, QueueInv
    <2>3. res'[p] # NoRes
      <3>1. NetInv'
        BY ThreadNet
      <3> QED
        BY <2>1, <3>1 DEF NetInv, QueueInv
    <2>4. cur[p] # NoConn /\ cur[p][1] = k
      BY NoneAssumption DEF ConnOf
    <2>5. performed'[k] = res'[p]
      BY <2>2, <2>3, <2>4, ObservedOf
    <2>6. /\ Where(ConnOf(k))' \in {"unlock", "reply_head"}
          /\ performed'[k] = res'[job'[k].port] /\ performed'[k] # NoRes
      BY <1>1, <1>2, <1>4, <2>1, <2>3, <2>5
    <2>7. Handled(k)'
      BY <1>1, <1>6, <2>6 DEF Handled
    <2> QED
      BY <2>7 DEF Phase
  <1>8. CASE ServerDispatchStore(p)
    <2>1. spc[p] = "dispatch" /\ spc'[p] = "store_op" /\ res' = res
      BY <1>2, <1>8 DEF ServerDispatchStore, Goto
    <2>2. performed'[k] = performed[k] /\ performed[k] = NoRes
      BY <1>2, <1>4, <2>1, ThreadPerforms DEF Handled
    <2>3. creq'[k].method \in {"read", "write"} /\ ~Immediate(creq'[k].method, creq'[k].data)
      BY <1>1, <1>4, <1>8 DEF ServerDispatchStore
    <2>4. Where(ConnOf(k))' = "store_op" /\ performed'[k] = NoRes
      BY <1>1, <1>2, <2>1, <2>2
    <2>5. Handled(k)'
      BY <1>1, <1>6, <2>3, <2>4 DEF Handled
    <2> QED
      BY <2>5 DEF Phase
  <1>9. CASE ServerDispatchUnknown(p)
    <2>1. spc'[p] = "close"
      BY <1>2, <1>9 DEF ServerDispatchUnknown, Goto
    <2>2. Refused(k)'
      BY <1>1, <1>2, <1>6, <2>1 DEF Refused
    <2> QED
      BY <2>2 DEF Phase
  <1>10. CASE ServerAcquire(p)
    <2>1. spc' = spc /\ res' = res /\ spc[p] = "store_op"
      BY <1>10 DEF ServerAcquire
    <2>2. performed'[k] = performed[k]
      BY <2>1, ThreadPerforms
    <2>3. ClientSame(k, c)
      BY <1>1, <2>2 DEF ClientSame
    <2>4. Where(c)' = Where(c)
      BY <1>2, <2>1
    <2> QED
      BY <1>1, <1>4, <2>1, <2>3, <2>4, PhaseKept DEF Phase
  <1>11. CASE ServerUnlock(p)
    <2>1. spc[p] = "unlock" /\ spc'[p] = "reply_head" /\ res' = res
      BY <1>2, <1>11 DEF ServerUnlock, Goto
    <2>2. performed'[k] = performed[k]
      BY <2>1, ThreadPerforms
    <2>3. performed[k] = res[p] /\ performed[k] # NoRes
      BY <1>2, <1>4, <2>1 DEF Handled
    <2>4. /\ Where(ConnOf(k))' = "reply_head"
          /\ performed'[k] = res'[job'[k].port] /\ performed'[k] # NoRes
      BY <1>1, <1>2, <1>4, <2>1, <2>2, <2>3
    <2>5. Handled(k)'
      BY <1>1, <1>6, <2>4 DEF Handled
    <2> QED
      BY <2>5 DEF Phase
  <1> QED
    BY <1>7, <1>8, <1>9, <1>10, <1>11

(* The steps of a thread on the connection of client k: rpc_send_resp.      *)
LEMMA PhaseReplies ==
  ASSUME ProtocolInv, NEW p \in Ports, Thread(p), NEW k \in Clients, NEW c \in Conns,
         c = ConnOf(k), c = cur[p], Served(c)',
         ServerReplyHead(p) \/ ServerReplyBody(p) \/ ServerFree(p)
  PROVE  Phase(k)'
  <1>1. /\ UNCHANGED <<job, cpc, conn_i, creq, rhead>> /\ ConnOf(k)' = c
        /\ UNCHANGED <<cl_open, up[c]>>
    <2>1. ~ServerRecvHead(p) /\ ~ServerRecvBody(p)
      BY
         DEF ServerReplyHead, ServerReplyBody, ServerFree, Goto, ServerRecvHead,
             ServerRecvBody
    <2> QED
      BY <2>1, ThreadStreams DEF Thread, clientVars, ConnOf
  <1>2. /\ Where(c) = spc[p] /\ Where(c)' = spc'[p] /\ spc \in [Ports -> ServerPC] /\ Served(c)
        /\ Phase(k)
    BY ThreadPlaces DEF ProtocolInv, DataTypeOK, ServerTypeOK, PhaseInv
  <1>3. performed'[k] = performed[k]
    <2>1. spc[p] \in {"reply_head", "reply_body", "free"}
      BY DEF ServerReplyHead, ServerReplyBody, ServerFree, Goto
    <2> QED
      BY <2>1, ThreadPerforms
  <1>4. /\ Alive(k)' = Alive(k) /\ BodySkipped(k)' = BodySkipped(k)
        /\ ResponseHead(k)' = ResponseHead(k)
    BY <1>1, <1>3 DEF Alive, BodySkipped, ResponseHead
  <1>5. CASE ServerReplyHead(p)
    <2>1. /\ job[k].port = p /\ Handled(k) /\ spc[p] = "reply_head"
          /\ spc'[p] \in {"reply_body", "free"}
          /\ Alive(k) => spc'[p] = "reply_body" /\ down'[c] = <<ResponseHead(k)>>
      <3>1. PICK j \in Clients :
              /\ cur[p] = ConnOf(j) /\ job[j].port = p /\ Handled(j)
              /\ spc[p] = "reply_head" /\ spc'[p] \in {"reply_body", "free"}
              /\ Alive(j) => spc'[p] = "reply_body" /\ down'[ConnOf(j)] = <<ResponseHead(j)>>
        BY <1>5, ReplyHeadStep
      <3>2. j = k
        BY <3>1 DEF ConnOf
      <3> QED
        BY <3>1, <3>2
    <2>2. /\ creq[k] # NoReq /\ performed[k] = res[p] /\ performed[k] # NoRes
          /\ up[c] = <<>> /\ BodySkipped(k) /\ (Alive(k) => rhead[k] = Nothing)
      BY <1>2, <2>1 DEF Handled, Silent
    <2>3. res' = res
      BY <1>5 DEF ServerReplyHead
    <2>4. CASE spc'[p] = "reply_body"
      <3>1. Alive(k)' => Answering(k, <<>>)'
        <4>1. <<ResponseHead(k)>> \o <<>> = <<ResponseHead(k)>>
          BY ShortSequences
        <4> QED
          BY <1>1, <1>4, <2>1, <2>2, <4>1 DEF Answering
      <3>2. /\ Where(ConnOf(k))' = "reply_body" /\ performed'[k] = res'[job'[k].port]
            /\ performed'[k] # NoRes /\ creq'[k] # NoReq
            /\ up'[c] = <<>> /\ BodySkipped(k)'
        BY <1>1, <1>2, <1>3, <1>4, <2>1, <2>2, <2>3, <2>4
      <3>3. Replying(k)'
        BY <1>1, <3>1, <3>2 DEF Replying
      <3> QED
        BY <3>3 DEF Phase
    <2>5. CASE spc'[p] = "free"
      <3>1. /\ Where(ConnOf(k))' = "free" /\ performed'[k] # NoRes /\ creq'[k] # NoReq
            /\ up'[c] = <<>> /\ BodySkipped(k)' /\ ~Alive(k)'
        BY <1>1, <1>2, <1>3, <1>4, <2>1, <2>2, <2>5
      <3>2. Replied(k)'
        BY <1>1, <3>1 DEF Replied
      <3> QED
        BY <3>2 DEF Phase
    <2> QED
      BY <2>1, <2>4, <2>5
  <1>6. CASE ServerReplyBody(p)
    <2>1. spc'[p] = "free"
      BY <1>2, <1>6 DEF ServerReplyBody, Goto
    <2>2. CASE res[p].data = <<>> /\ (Idle(k) \/ Underway(k))
      <3>1. down'[c] = down[c]
        BY <1>6, <2>2, ReplyBodyStep
      <3>2. ClientSame(k, c)
        BY <1>1, <1>3, <3>1 DEF ClientSame
      <3>3. Late(c)'
        BY <1>2, <2>1 DEF Late
      <3> QED
        BY <2>2, <3>2, <3>3, LateKept DEF Phase
    <2>3. CASE Replying(k)
      <3>1. /\ creq[k] # NoReq /\ performed[k] = res[p] /\ performed[k] # NoRes
            /\ Alive(k) => Answering(k, <<>>)
            /\ up[c] = <<>> /\ BodySkipped(k)
        <4>1. job[k].port = p
          BY <1>6, ThreadReplies
        <4> QED
          BY <2>3, <4>1 DEF Replying
      <3>2. Alive(k) => \E tail \in Tails(performed[k].data) :
                          Answering(k, tail)' /\ Written(performed[k].data, tail)
        <4>1. CASE res[p].data = <<>>
          <5>1. down'[c] = down[c]
            BY <1>6, <4>1, ReplyBodyStep
          <5>2. Alive(k) => Answering(k, <<>>)'
            BY <1>1, <1>4, <3>1, <5>1 DEF Answering
          <5>3. <<>> \in Tails(performed[k].data) /\ Written(performed[k].data, <<>>)
            BY <3>1, <4>1 DEF Tails, Written
          <5> QED
            BY <5>2, <5>3
        <4>2. CASE res[p].data # <<>>
          <5>1. Alive(k) => \/ down'[c] = Append(down[c], BodySeg(res[p].data))
                            \/ down'[c] = Append(down[c], Part)
            BY <1>6, <4>2, ReplyBodyStep DEF Alive
          <5>2. \A x : Alive(k) /\ down'[c] = Append(down[c], x) => Answering(k, <<x>>)'
            BY <1>1, <1>3, <3>1, BodyFollows
          <5>3. /\ <<BodySeg(res[p].data)>> \in Tails(performed[k].data)
                /\ <<Part>> \in Tails(performed[k].data)
                /\ Written(performed[k].data, <<BodySeg(res[p].data)>>)
                /\ Written(performed[k].data, <<Part>>)
            BY <3>1, <4>2, ShortSequences DEF Tails, Written
          <5> QED
            BY <5>1, <5>2, <5>3
        <4> QED
          BY <4>1, <4>2
      <3>3. /\ Where(ConnOf(k))' = "free" /\ performed'[k] # NoRes /\ creq'[k] # NoReq
            /\ up'[c] = <<>> /\ BodySkipped(k)'
        BY <1>1, <1>2, <1>3, <1>4, <2>1, <3>1
      <3>4. Replied(k)'
        BY <1>1, <1>3, <1>4, <3>2, <3>3 DEF Replied
      <3> QED
        BY <3>4 DEF Phase
    <2> QED
      BY <1>6, <2>2, <2>3, ThreadReplies
  <1>7. CASE ServerFree(p)
    <2>1. spc[p] = "free" /\ spc'[p] \in {"close_quit", "recv_head"}
      BY <1>2, <1>7 DEF ServerFree, Goto
    <2>2. down'[c] = down[c]
      BY <1>7 DEF ServerFree, netVars
    <2>3. ClientSame(k, c)
      BY <1>1, <1>3, <2>2 DEF ClientSame
    <2>4. Late(c)'
      BY <1>2, <2>1 DEF Late
    <2>5. Idle(k) \/ Underway(k) \/ Replied(k)
      BY <1>2, <2>1 DEF Phase, HeadTaken, Handled, Replying, Refused
    <2>6. Replied(k) => Replied(k)'
      BY <1>1, <1>2, <2>1, <2>3, SameParts DEF Replied
    <2> QED
      BY <2>3, <2>4, <2>5, <2>6, LateKept DEF Phase
  <1> QED
    BY <1>5, <1>6, <1>7

(* The phases over a step of a thread.                                      *)
LEMMA PhaseThread ==
  ASSUME ProtocolInv, NEW p \in Ports, Thread(p)
  PROVE  PhaseInv'
  <1> SUFFICES ASSUME NEW k \in Clients, Served(ConnOf(k))' PROVE Phase(k)'
    BY DEF PhaseInv
  <1>1. PICK c \in Conns : c = ConnOf(k) /\ ConnOf(k)' = c
    BY DEF ConnOf, Conns, ProtocolInv, DataTypeOK, ClientTypeOK, Thread, clientVars
  <1>2. Served(c)'
    BY <1>1
  <1>3. CASE c # cur[p]
    BY <1>1, <1>2, <1>3, PhaseElsewhere
  <1>4. CASE c = cur[p]
    <2>1. spc[p] \in Serving /\ UNCHANGED job
      BY <1>2, <1>4, ThreadPlaces DEF Moves, Thread, clientVars
    <2>2. ~ServerListen(p) /\ ~ServerOpenLog(p) /\ ~ServerAccept(p) /\ ~ServerStop(p)
      BY <2>1 DEF ServerListen, ServerOpenLog, ServerAccept, ServerStop, Goto, Serving
    <2>3. ~ServerSigpipe(p) /\ ~ServerClose(p)
      BY <1>2, <1>4, <2>1, EndNet, CloseNet DEF ServerSigpipe
    <2> QED
      BY <1>1, <1>2, <1>4, <2>2, <2>3, PhaseReceives, PhaseHandles, PhaseReplies
         DEF Thread, ServerStep
  <1> QED
    BY <1>3, <1>4
=============================================================================
