-------------------------- MODULE KeyServiceProofs --------------------------
(***************************************************************************)
(* Proofs about KeyService for any number of ports and clients, any jobs,   *)
(* any spin limit and any number of faults: how a step of a client, and the *)
(* end of the server process, keep the invariant of KeyServiceProtocol; what *)
(* every step does to the faults counted and the bodies allocated; and the  *)
(* theorems, which follow from that and from KeyServiceThreadProofs.        *)
(***************************************************************************)
EXTENDS KeyServiceThreadProofs, FiniteSetTheorems

-----------------------------------------------------------------------------
(* Where a step of a client leaves the connections *)

\* A step of client k, of its own accord or not.
ClientMoves(k) ==
  \/ Clientele(k)
  \/ ClientKilled(k) /\ UNCHANGED <<serverVars, performed>>

(* Where such a step leaves the connections, and what it knows of results.  *)
LEMMA ClientPlaces ==
  ASSUME ProtocolInv, NEW k \in Clients, ClientMoves(k)
  PROVE  /\ NetInv'
         /\ \A c \in Conns : c # ConnOf(k) => Where(c)' = Where(c) /\ (Served(c)' <=> Served(c))
         /\ ~ClientConnect(k) => \A c \in Conns : Where(c)' = Where(c) /\ (Served(c)' <=> Served(c))
         /\ UNCHANGED <<req, res, job>>
         /\ \A j \in Clients : performed'[j] = IF creq'[j] = creq[j] THEN performed[j] ELSE NoRes
  <1>1. UNCHANGED serverVars /\ (ClientStep(k) \/ ClientKilled(k))
    BY DEF ClientMoves, Clientele
  <1>2. UNCHANGED <<req, res>>
    BY <1>1 DEF serverVars
  <1>3. UNCHANGED job
    BY <1>1, ClientLocal DEF ProtocolInv
  <1>4. \A j \in Clients : performed'[j] = IF creq'[j] = creq[j] THEN performed[j] ELSE NoRes
    <2>1. CASE Clientele(k)
      BY <2>1 DEF Clientele, Forgotten
    <2>2. CASE ClientKilled(k) /\ UNCHANGED <<serverVars, performed>>
      BY <2>2 DEF ClientKilled
    <2> QED
      BY <2>1, <2>2 DEF ClientMoves
  <1>5. CASE ClientConnect(k)
    <2>1. PICK c0 \in Conns : /\ c0 = ConnOf(k)
               /\ \A c \in Conns : c # c0 => Where(c)' = Where(c) /\ (Served(c)' <=> Served(c))
      BY <1>1, <1>5, ConnectNet
    <2>2. NetInv'
      BY <1>1, <1>5, ConnectNet
    <2> QED
      BY <1>2, <1>3, <1>4, <1>5, <2>1, <2>2
  <1>6. CASE ~ClientConnect(k)
    <2>1. (ClientStep(k) /\ ~ClientConnect(k)) \/ ClientKilled(k)
      BY <1>1, <1>6
    <2>2. NetInv' /\ \A c : Where(c)' = Where(c) /\ Served(c)' = Served(c)
      BY <1>1, <2>1, ClientNet
    <2> QED
      BY <1>2, <1>3, <1>4, <2>2
  <1> QED
    BY <1>5, <1>6

(* Another client does not notice.                                          *)
LEMMA ClientElsewhere ==
  ASSUME ProtocolInv, NEW k \in Clients, ClientMoves(k), NEW j \in Clients, j # k
  PROVE  /\ ClientOK(j)'
         /\ Served(ConnOf(j))' => Phase(j)'
         /\ \A i \in 1 .. MaxConns :
              /\ i < conn_i'[j] => Past(<<j, i>>)'
              /\ i > conn_i'[j] => Fresh(<<j, i>>)'
              /\ i = conn_i'[j] /\ cpc'[j] = "connect" => Fresh(<<j, i>>)'
  <1>1. ClientStep(k) \/ ClientKilled(k)
    BY DEF ClientMoves, Clientele
  <1>2. /\ cpc'[j] = cpc[j] /\ conn_i'[j] = conn_i[j] /\ creq'[j] = creq[j] /\ rhead'[j] = rhead[j]
        /\ performed'[j] = performed[j] /\ UNCHANGED job
    BY <1>1, ClientLocal, ClientPlaces DEF ProtocolInv
  <1>3. ASSUME NEW i \in 1 .. MaxConns, NEW c \in Conns, c = <<j, i>>
        PROVE  /\ c # ConnOf(k)
               /\ up'[c] = up[c] /\ down'[c] = down[c] /\ cl_open'[c] = cl_open[c]
               /\ c \in reset' <=> c \in reset
               /\ Where(c)' = Where(c) /\ (Served(c)' <=> Served(c))
    <2>1. c # ConnOf(k)
      BY <1>3 DEF ConnOf
    <2> QED
      BY <1>1, <2>1, ClientLocal, ClientPlaces DEF ProtocolInv
  <1>4. PICK c \in Conns : c = ConnOf(j) /\ c = ConnOf(j)' /\ c = <<j, conn_i[j]>>
    BY <1>2 DEF ConnOf, Conns, ProtocolInv, DataTypeOK, ClientTypeOK
  <1>5. conn_i[j] \in 1 .. MaxConns
    BY DEF ProtocolInv, DataTypeOK, ClientTypeOK
  <1>6. /\ up'[c] = up[c] /\ down'[c] = down[c] /\ cl_open'[c] = cl_open[c]
        /\ Where(c)' = Where(c) /\ (Served(c)' <=> Served(c))
    BY <1>3, <1>4, <1>5
  <1>7. ClientSame(j, c)
    BY <1>2, <1>4, <1>6 DEF ClientSame
  <1>8. ClientOK(j)'
    <2>1. ClientOK(j)
      BY DEF ProtocolInv, ClientInv
    <2>2. Alive(j)' = Alive(j) /\ Silent(j)' = Silent(j) /\ ResponseHead(j)' = ResponseHead(j)
      BY <1>2, <1>4, <1>6 DEF Alive, Silent, ResponseHead
    <2>3. \A tail : Answering(j, tail)' = Answering(j, tail)
      BY <1>2, <1>4, <1>6, <2>2 DEF Answering
    <2> QED
      BY <1>2, <1>4, <1>6, <2>1, <2>2, <2>3 DEF ClientOK
  <1>9. Served(ConnOf(j))' => Phase(j)'
    <2> SUFFICES ASSUME Served(c)' PROVE Phase(j)'
      BY <1>4
    <2>1. Phase(j)
      BY <1>4, <1>6 DEF ProtocolInv, PhaseInv
    <2>2. UNCHANGED <<req, res>>
      BY ClientPlaces
    <2> QED
      BY <1>6, <1>7, <2>1, <2>2, PhaseKept
  <1>10. ASSUME NEW i \in 1 .. MaxConns
         PROVE  /\ i < conn_i'[j] => Past(<<j, i>>)'
                /\ i > conn_i'[j] => Fresh(<<j, i>>)'
                /\ i = conn_i'[j] /\ cpc'[j] = "connect" => Fresh(<<j, i>>)'
    <2>1. PICK d \in Conns : d = <<j, i>>
      BY DEF Conns
    <2>2. /\ up'[d] = up[d] /\ down'[d] = down[d] /\ cl_open'[d] = cl_open[d]
          /\ d \in reset' <=> d \in reset
          /\ Where(d)' = Where(d) /\ (Served(d)' <=> Served(d))
      BY <1>3, <2>1
    <2>3. PortOf(d)' = PortOf(d) /\ UNCHANGED res
      BY <1>2, ClientPlaces DEF PortOf
    <2>4. Past(d) => Past(d)'
      BY <2>2, <2>3 DEF Past, Late
    <2>5. Fresh(d) => Fresh(d)'
      BY <2>2 DEF Fresh
    <2>6. /\ i < conn_i[j] => Past(d)
          /\ i > conn_i[j] => Fresh(d)
          /\ i = conn_i[j] /\ cpc[j] = "connect" => Fresh(d)
      BY <2>1 DEF ProtocolInv, OthersInv
    <2> QED
      BY <1>2, <2>1, <2>4, <2>5, <2>6
  <1> QED
    BY <1>8, <1>9, <1>10

(* The other connections of the client itself stay as they are.             *)
LEMMA ClientOthers ==
  ASSUME ProtocolInv, NEW k \in Clients, ClientMoves(k), conn_i'[k] = conn_i[k],
         cpc'[k] # "connect", NEW i \in 1 .. MaxConns
  PROVE  /\ i < conn_i'[k] => Past(<<k, i>>)'
         /\ i > conn_i'[k] => Fresh(<<k, i>>)'
  <1>1. ClientStep(k) \/ ClientKilled(k)
    BY DEF ClientMoves, Clientele
  <1>2. PICK d \in Conns : d = <<k, i>>
    BY DEF Conns
  <1>3. i # conn_i[k] => d # ConnOf(k)
    BY <1>2 DEF ConnOf
  <1>4. i # conn_i[k] => /\ up'[d] = up[d] /\ down'[d] = down[d] /\ cl_open'[d] = cl_open[d]
                         /\ d \in reset' <=> d \in reset
                         /\ Where(d)' = Where(d) /\ (Served(d)' <=> Served(d))
    BY <1>1, <1>3, ClientLocal, ClientPlaces DEF ProtocolInv
  <1>5. PortOf(d)' = PortOf(d) /\ UNCHANGED res
    BY ClientPlaces DEF PortOf
  <1>6. i # conn_i[k] => (Past(d) => Past(d)') /\ (Fresh(d) => Fresh(d)')
    BY <1>4, <1>5 DEF Past, Late, Fresh
  <1>7. /\ i < conn_i[k] => Past(d)
        /\ i > conn_i[k] => Fresh(d)
    BY <1>2 DEF ProtocolInv, OthersInv
  <1>8. conn_i[k] \in Int
    BY DEF ProtocolInv, DataTypeOK, ClientTypeOK
  <1> QED
    BY <1>2, <1>6, <1>7, <1>8

-----------------------------------------------------------------------------
(* The client and its current connection *)

\* What is to be kept of client k and its current connection.
OwnKept(k) == ClientOK(k) /\ (Served(ConnOf(k)) => Phase(k))

(* Where client k starts from in any of its steps.                          *)
LEMMA OwnBefore ==
  ASSUME ProtocolInv, NEW k \in Clients
  PROVE  /\ ConnOf(k) \in Conns /\ ConnOf(k)[1] = k /\ PortOf(ConnOf(k)) = job[k].port
         /\ OwnKept(k) /\ ClientOK(k)
         /\ Alive(k) => cl_open[ConnOf(k)]
         /\ cpc[k] \in Active => Alive(k)
         /\ Alive(k) /\ Served(ConnOf(k)) => sv_open[ConnOf(k)] /\ ConnOf(k) \notin reset
         /\ Served(ConnOf(k)) => sv_open[ConnOf(k)]
         /\ creq[k] # NoReq => creq[k] \in Requests /\ creq[k].data \in Datas
         /\ performed[k] # NoRes => performed[k] \in Responses /\ performed[k].data \in Datas
         /\ up[ConnOf(k)] \in Seq(Segments) /\ down[ConnOf(k)] \in Seq(Segments)
  <1>1. ConnOf(k) \in Conns
    BY DEF ConnOf, Conns, ProtocolInv, DataTypeOK, ClientTypeOK
  <1>2. OwnKept(k) /\ ClientOK(k)
    BY DEF ProtocolInv, ClientInv, PhaseInv, OwnKept
  <1>3. /\ Served(ConnOf(k)) => sv_open[ConnOf(k)]
        /\ Alive(k) /\ Served(ConnOf(k)) => ConnOf(k) \notin reset
    BY <1>1 DEF ProtocolInv, NetInv, EndsInv, Alive
  <1>4. /\ creq[k] # NoReq => creq[k] \in Requests /\ creq[k].data \in Datas
        /\ performed[k] # NoRes => performed[k] \in Responses /\ performed[k].data \in Datas
    BY DEF ProtocolInv, DataTypeOK, ClientTypeOK, Requests, Responses, Datas
  <1>5. up[ConnOf(k)] \in Seq(Segments) /\ down[ConnOf(k)] \in Seq(Segments)
    BY <1>1 DEF ProtocolInv, DataTypeOK, NetTypeOK
  <1>6. /\ Alive(k) => cl_open[ConnOf(k)]
        /\ cpc[k] \in Active => Alive(k)
    BY <1>2 DEF ClientOK, Alive
  <1> QED
    BY <1>1, <1>2, <1>3, <1>4, <1>5, <1>6 DEF ConnOf, PortOf

(* Connecting.                                                              *)
LEMMA OwnConnects ==
  ASSUME ProtocolInv, NEW k \in Clients, Clientele(k), ClientConnect(k)
  PROVE  OwnKept(k)' /\ conn_i'[k] = conn_i[k] /\ cpc'[k] # "connect"
  <1>1. UNCHANGED <<job, conn_i, creq, rhead, up, down>> /\ cpc[k] = "connect"
    BY DEF ClientConnect, TcpConnect
  <1>2. PICK c \in Conns : c = ConnOf(k) /\ c = ConnOf(k)' /\ Fresh(c) /\ Where(c)' = "queue"
    <2>1. PICK c \in Conns : c = ConnOf(k) /\ Fresh(c) /\ Where(c)' = "queue"
      BY ConnectNet DEF Clientele
    <2>2. ConnOf(k)' = ConnOf(k)
      BY <1>1 DEF ConnOf
    <2> QED
      BY <2>1, <2>2
  <1>3. cpc'[k] = "request" /\ cl_open'[c]
    BY <1>2
       DEF ClientConnect, TcpConnect, ProtocolInv, DataTypeOK, NetTypeOK, ClientTypeOK
  <1>4. creq[k] = NoReq /\ performed[k] = NoRes /\ rhead[k] = Nothing
    BY <1>1, OwnBefore DEF ClientOK
  <1>5. performed'[k] = NoRes /\ creq'[k] = NoReq /\ rhead'[k] = Nothing
    BY <1>1, <1>4, ClientPlaces DEF ClientMoves
  <1>6. up'[c] = <<>> /\ down'[c] = <<>>
    BY <1>1, <1>2 DEF Fresh
  <1>7. Idle(k)'
    <2>1. Late(c)'
      BY <1>2 DEF Late
    <2> QED
      BY <1>2, <1>5, <1>6, <2>1 DEF Idle
  <1>8. ClientOK(k)'
    <2>1. Alive(k)' /\ Silent(k)'
      BY <1>2, <1>3, <1>5, <1>6 DEF Alive, Silent
    <2> QED
      BY <1>2, <1>3, <1>5, <1>6, <2>1 DEF ClientOK, Active
  <1> QED
    BY <1>1, <1>3, <1>7, <1>8 DEF OwnKept, Phase

(* Ending, in whatever way.                                                 *)
LEMMA OwnEnds ==
  ASSUME ProtocolInv, NEW k \in Clients, ClientMoves(k),
         ClientConnectFails(k) \/ ClientRecvFails(k) \/ ClientKilled(k)
  PROVE  OwnKept(k)' /\ conn_i'[k] = conn_i[k] /\ cpc'[k] # "connect"
  <1>1. UNCHANGED <<job, conn_i, creq, rhead, up, down>>
    BY DEF ClientConnectFails, ClientRecvFails, ClientKilled, ClientEndClosed, netVars
  <1>2. PICK c \in Conns : c = ConnOf(k) /\ c = ConnOf(k)'
    BY <1>1, OwnBefore DEF ConnOf
  <1>3. cpc'[k] \in {"failed", "killed"}
    BY
       DEF ClientConnectFails, ClientRecvFails, ClientKilled, ProtocolInv, DataTypeOK,
           ClientTypeOK
  <1>4. ~cl_open'[c]
    <2>1. CASE ClientConnectFails(k)
      <3>1. ~Alive(k)
        BY <2>1, OwnBefore DEF ClientConnectFails, ClientOK, Active
      <3> QED
        BY <1>2, <2>1, <3>1 DEF ClientConnectFails, netVars, Alive
    <2>2. CASE ClientRecvFails(k) \/ ClientKilled(k)
      BY <1>2, <2>2
         DEF ClientRecvFails, ClientKilled, ClientEndClosed, ProtocolInv, DataTypeOK,
             NetTypeOK
    <2> QED
      BY <2>1, <2>2
  <1>5. performed'[k] = performed[k]
    BY <1>1, ClientPlaces
  <1>6. ClientSame(k, c)
    BY <1>1, <1>2, <1>3, <1>4, <1>5 DEF ClientSame
  <1>7. Where(c)' = Where(c) /\ (Served(c)' <=> Served(c)) /\ UNCHANGED <<req, res>>
    <2>1. ~ClientConnect(k)
      BY <1>3 DEF ClientConnect, ProtocolInv, DataTypeOK, ClientTypeOK
    <2> QED
      BY <2>1, ClientPlaces
  <1>8. Served(ConnOf(k))' => Phase(k)'
    <2> SUFFICES ASSUME Served(c)' PROVE Phase(k)'
      BY <1>2
    <2>1. Phase(k)
      BY <1>2, <1>7, OwnBefore DEF OwnKept
    <2> QED
      BY <1>6, <1>7, <2>1, PhaseKept
  <1>9. ClientOK(k)'
    <2>1. ~Alive(k)' /\ ResponseHead(k)' = ResponseHead(k)
      BY <1>1, <1>2, <1>4, <1>5 DEF Alive, ResponseHead
    <2> QED
      BY <1>1, <1>2, <1>3, <1>5, <2>1, OwnBefore DEF ClientOK, Active
  <1> QED
    BY <1>1, <1>3, <1>8, <1>9 DEF OwnKept

(* A write of the client on a connection that is served is stored, or a     *)
(* part of it.                                                              *)
LEMMA ClientWritesServed ==
  ASSUME ProtocolInv, NEW k \in Clients, cpc[k] \in Active, Served(ConnOf(k)),
         NEW seg, NEW result, NEW next, ClientWrites(k, seg, result, next)
  PROVE  /\ result = "all" \/ (result = "short" /\ seg.seg = "body" /\ seg.data # <<>>)
         /\ cpc'[k] = IF result = "all" THEN next ELSE "recv_head"
         /\ up'[ConnOf(k)] = Stored(up[ConnOf(k)], seg, result)
         /\ cl_open'[ConnOf(k)]
  <1>1. sv_open[ConnOf(k)] /\ ConnOf(k) \notin reset /\ ConnOf(k) \in Conns
    BY OwnBefore
  <1>2. result = "all" \/ (result = "short" /\ seg.seg = "body" /\ seg.data # <<>>)
    BY <1>1 DEF ClientWrites, WriteResults
  <1>3. cpc'[k] = IF result = "all" THEN next ELSE "recv_head"
    BY <1>2 DEF ClientWrites, Wrote, ProtocolInv, DataTypeOK, ClientTypeOK
  <1>4. up'[ConnOf(k)] = Stored(up[ConnOf(k)], seg, result) /\ cl_open'[ConnOf(k)]
    BY <1>1, <1>2 DEF ClientWrites, ProtocolInv, DataTypeOK, NetTypeOK
  <1> QED
    BY <1>2, <1>3, <1>4

(* Sending the mark and header.                                             *)
LEMMA OwnSendsHead ==
  ASSUME ProtocolInv, NEW k \in Clients, Clientele(k), ClientSendHead(k)
  PROVE  OwnKept(k)' /\ conn_i'[k] = conn_i[k] /\ cpc'[k] # "connect"
  <1>1. UNCHANGED <<job, conn_i, rhead, down>> /\ cpc[k] = "request"
    BY DEF ClientSendHead, ClientWrites
  <1>2. PICK c \in Conns : c = ConnOf(k) /\ c = ConnOf(k)'
    BY <1>1, OwnBefore DEF ConnOf
  <1>3. creq[k] = NoReq /\ rhead[k] = Nothing /\ down[c] = <<>> /\ Alive(k) /\ cpc[k] \in Active
    <2>1. ClientOK(k) /\ (cpc[k] \in Active => Alive(k))
      BY OwnBefore
    <2>2. Alive(k) /\ cpc[k] \in Active
      BY <1>1, <2>1 DEF Active
    <2> QED
      BY <1>1, <1>2, <2>1, <2>2 DEF ClientOK
  <1>4. PICK result \in {"all", "lost", "fail", "sigpipe"} :
          LET r == [id |-> next_rpc_id[k], method |-> job[k].method, data |-> job[k].data]
          IN  /\ creq' = [creq EXCEPT ![k] = r]
              /\ ClientWrites(k, HeadSeg(r.id, r.method, "Ok", r.data), result, "send_body")
    BY DEF ClientSendHead, GenBody
  <1>5. PICK r \in Requests : r = [id |-> next_rpc_id[k], method |-> job[k].method, data |-> job[k].data]
    BY JobType DEF Requests, Datas, ProtocolInv, DataTypeOK, ClientTypeOK
  <1>6. /\ creq'[k] = r /\ r # NoReq /\ r.method = job[k].method /\ r.data = job[k].data
        /\ ClientWrites(k, HeadSeg(r.id, r.method, "Ok", r.data), result, "send_body")
    BY <1>4, <1>5, NoneAssumption DEF ProtocolInv, DataTypeOK, ClientTypeOK
  <1>7. performed'[k] = NoRes
    BY <1>3, <1>6, ClientPlaces DEF ClientMoves
  <1>8. Silent(k)'
    BY <1>1, <1>2, <1>3 DEF Silent
  <1>9. /\ cl_open'[c] <=> result # "sigpipe"
        /\ cpc'[k] = IF result = "sigpipe" THEN "killed"
                     ELSE IF result = "fail" THEN "recv_head" ELSE "send_body"
    BY <1>2, <1>6
       DEF ClientWrites, Wrote, ProtocolInv, DataTypeOK, NetTypeOK, ClientTypeOK
  <1>10. ClientOK(k)'
    BY <1>1, <1>2, <1>3, <1>6, <1>7, <1>8, <1>9 DEF ClientOK, Active, Alive
  <1>11. Served(ConnOf(k))' => Phase(k)'
    <2> SUFFICES ASSUME Served(c)' PROVE Phase(k)'
      BY <1>2
    <2>1. Where(c)' = Where(c) /\ (Served(c)' <=> Served(c)) /\ UNCHANGED <<req, res>>
      <3>1. ~ClientConnect(k)
        BY <1>1 DEF ClientConnect
      <3> QED
        BY <3>1, ClientPlaces DEF ClientMoves
    <2>2. Idle(k)
      <3>1. Phase(k)
        BY <1>2, <2>1, OwnBefore DEF OwnKept
      <3> QED
        BY <1>3, <3>1
           DEF Phase, Underway, HeadTaken, Handled, Replying, Replied, Refused
    <2> DEFINE head == HeadSeg(r.id, r.method, "Ok", r.data)
    <2>3. head.seg = "head" /\ head # BodySeg(<<>>)
      BY DEF HeadSeg, BodySeg
    <2>4. head = RequestHead(k)'
      BY <1>6 DEF RequestHead
    <2> HIDE DEF head
    <2>5. /\ result = "all" /\ cpc'[k] = "send_body"
          /\ up'[c] = Stored(up[c], head, result)
      <3>1. ClientWrites(k, head, result, "send_body") /\ Served(ConnOf(k))
        BY <1>2, <1>6, <2>1 DEF head
      <3>2. /\ result = "all" \/ (result = "short" /\ head.seg = "body" /\ head.data # <<>>)
            /\ cpc'[k] = IF result = "all" THEN "send_body" ELSE "recv_head"
            /\ up'[ConnOf(k)] = Stored(up[ConnOf(k)], head, result)
        BY <1>3, <3>1, ClientWritesServed
      <3>3. result = "all"
        BY <2>3, <3>2
      <3> QED
        BY <1>2, <3>2, <3>3
    <2>6. up'[c] = <<head>> \o <<>>
      <3>1. up[c] = <<>>
        BY <1>2, <2>2 DEF Idle
      <3>2. up'[c] = Append(<<>>, head)
        BY <2>3, <2>5, <3>1 DEF Stored
      <3> QED
        BY <3>2, ShortSequences
    <2>7. Late(c)'
      <3>1. PortOf(c)' = PortOf(c)
        BY <1>1 DEF PortOf
      <3> QED
        BY <1>2, <2>1, <2>2, <3>1 DEF Idle, Late
    <2>8. Requested(k, <<>>)' /\ <<>> \in Tails(creq'[k].data)
      BY <2>5 DEF Requested, Tails
    <2>9. Underway(k)'
      BY <1>2, <1>6, <1>7, <1>8, <2>4, <2>6, <2>7, <2>8 DEF Underway
    <2> QED
      BY <2>9 DEF Phase
  <1> QED
    BY <1>1, <1>9, <1>10, <1>11 DEF OwnKept

(* The body of a request on the stream: all of it, a part, or nothing of    *)
(* nothing.                                                                 *)
LEMMA BodyStored ==
  ASSUME NEW data, NEW s, NEW result,
         result = "all" \/ (result = "short" /\ data # <<>>)
  PROVE  \/ data = <<>> /\ Stored(s, BodySeg(data), result) = s
         \/ \E x \in {BodySeg(data), Part} :
              /\ data # <<>> /\ Stored(s, BodySeg(data), result) = Append(s, x)
  <1>1. data # <<>> => BodySeg(data) # BodySeg(<<>>)
    <2>1. BodySeg(data).data = data /\ BodySeg(<<>>).data = <<>>
      BY DEF BodySeg
    <2> QED
      BY <2>1
  <1>2. CASE data = <<>>
    BY <1>2 DEF Stored
  <1>3. CASE data # <<>>
    BY <1>1, <1>3 DEF Stored
  <1> QED
    BY <1>2, <1>3

(* Sending the body.                                                        *)
LEMMA OwnSendsBody ==
  ASSUME ProtocolInv, NEW k \in Clients, Clientele(k), ClientSendBody(k)
  PROVE  OwnKept(k)' /\ conn_i'[k] = conn_i[k] /\ cpc'[k] # "connect"
  <1>1. UNCHANGED <<job, conn_i, creq, rhead, down>> /\ cpc[k] = "send_body"
    BY DEF ClientSendBody, ClientWrites
  <1>2. PICK c \in Conns : c = ConnOf(k) /\ c = ConnOf(k)'
    BY <1>1, OwnBefore DEF ConnOf
  <1>3. creq[k] # NoReq /\ rhead[k] = Nothing /\ Alive(k) /\ cpc[k] \in Active
    <2>1. ClientOK(k) /\ (cpc[k] \in Active => Alive(k))
      BY OwnBefore
    <2>2. Alive(k) /\ cpc[k] \in Active
      BY <1>1, <2>1 DEF Active
    <2> QED
      BY <1>1, <2>1, <2>2 DEF ClientOK
  <1>4. PICK result \in {"all", "short", "lost", "fail", "sigpipe"} :
          ClientWrites(k, BodySeg(creq[k].data), result, "recv_head")
    BY DEF ClientSendBody
  <1>5. performed'[k] = performed[k]
    BY <1>1, ClientPlaces DEF ClientMoves
  <1>6. /\ cl_open'[c] <=> result # "sigpipe"
        /\ cpc'[k] = IF result = "sigpipe" THEN "killed" ELSE "recv_head"
    BY <1>2, <1>4
       DEF ClientWrites, Wrote, ProtocolInv, DataTypeOK, NetTypeOK, ClientTypeOK
  <1>7. /\ Silent(k)' = Silent(k) /\ RequestHead(k)' = RequestHead(k)
        /\ ResponseHead(k)' = ResponseHead(k) /\ cl_open[c]
    BY <1>1, <1>2, <1>3, <1>5 DEF Silent, RequestHead, ResponseHead, Alive
  <1>8. \A tail : Answering(k, tail)' = Answering(k, tail)
    BY <1>1, <1>2, <1>7 DEF Answering
  <1>9. ClientOK(k)'
    <2>1. ClientOK(k)
      BY OwnBefore
    <2>2. Alive(k)' => Alive(k)
      BY <1>3
    <2>3. Alive(k)' <=> cpc'[k] \in Active
      BY <1>2, <1>6 DEF Alive, Active
    <2> QED
      BY <1>1, <1>2, <1>3, <1>5, <1>6, <1>7, <1>8, <2>1, <2>2, <2>3 DEF ClientOK
  <1>10. Served(ConnOf(k))' => Phase(k)'
    <2> SUFFICES ASSUME Served(c)' PROVE Phase(k)'
      BY <1>2
    <2>1. Where(c)' = Where(c) /\ (Served(c)' <=> Served(c)) /\ UNCHANGED <<req, res>>
      <3>1. ~ClientConnect(k)
        BY <1>1 DEF ClientConnect
      <3> QED
        BY <3>1, ClientPlaces DEF ClientMoves
    <2>2. Phase(k)
      BY <1>2, <2>1, OwnBefore DEF OwnKept
    <2> DEFINE data == creq[k].data
               seg  == BodySeg(data)
    <2>3. seg.seg = "body" /\ seg.data = data
      BY DEF BodySeg
    <2> HIDE DEF seg
    <2>4. /\ result = "all" \/ (result = "short" /\ data # <<>>)
          /\ cpc'[k] = "recv_head" /\ up'[c] = Stored(up[c], seg, result)
      <3>1. ClientWrites(k, seg, result, "recv_head") /\ Served(ConnOf(k))
        BY <1>2, <1>4, <2>1 DEF seg
      <3>2. /\ result = "all" \/ (result = "short" /\ seg.seg = "body" /\ seg.data # <<>>)
            /\ cpc'[k] = IF result = "all" THEN "recv_head" ELSE "recv_head"
            /\ up'[ConnOf(k)] = Stored(up[ConnOf(k)], seg, result)
        BY <1>3, <3>1, ClientWritesServed
      <3> QED
        BY <1>2, <2>3, <3>2
    <2>5. \/ data = <<>> /\ up'[c] = up[c]
          \/ data # <<>> /\ \E x \in {BodySeg(data), Part} : up'[c] = Append(up[c], x)
      BY <2>4, BodyStored DEF seg
    <2>6. /\ BodySkipped(k)'
          /\ data = <<>> => Requested(k, <<>>)'
          /\ \A x : Requested(k, <<x>>)'
          /\ BodySkipped(k) => data = <<>>
          /\ \A tail : Requested(k, tail) => tail = <<>>
      BY <1>1, <2>4, ShortSequences DEF BodySkipped, Requested, Written
    <2>7. Late(c) => Late(c)'
      <3>1. PortOf(c)' = PortOf(c)
        BY <1>1 DEF PortOf
      <3> QED
        BY <2>1, <3>1 DEF Late
    <2>8. Tails(data) = Tails(creq'[k].data)
          /\ (data = <<>> => Tails(data) = {<<>>})
          /\ (data # <<>> => <<BodySeg(data)>> \in Tails(data) /\ <<Part>> \in Tails(data))
      BY <1>1 DEF Tails
    <2>9. CASE Underway(k)
      <3>1. up[c] = <<RequestHead(k)>> \o <<>> /\ Late(c)
        BY <1>2, <2>6, <2>9 DEF Underway
      <3>2. \E tail \in Tails(data) : up'[c] = <<RequestHead(k)>> \o tail /\ Requested(k, tail)'
        <4>1. CASE data = <<>> /\ up'[c] = up[c]
          BY <2>6, <2>8, <3>1, <4>1
        <4>2. ASSUME NEW x \in {BodySeg(data), Part}, data # <<>>, up'[c] = Append(up[c], x)
              PROVE  <3>2
          <5>1. up'[c] = <<RequestHead(k)>> \o <<x>>
            BY <3>1, <4>2, ShortSequences
          <5>2. <<x>> \in Tails(data)
            BY <2>8, <4>2
          <5> QED
            BY <2>6, <5>1, <5>2
        <4> QED
          BY <2>5, <4>1, <4>2
      <3>3. creq'[k] # NoReq /\ performed'[k] = NoRes /\ (Alive(k)' => Silent(k)')
        BY <1>1, <1>3, <1>5, <1>7, <2>9 DEF Underway
      <3>4. Underway(k)'
        BY <1>2, <1>7, <2>7, <2>8, <3>1, <3>2, <3>3 DEF Underway
      <3> QED
        BY <3>4 DEF Phase
    <2>10. CASE HeadTaken(k)
      <3>1. up[c] = <<>>
        BY <1>2, <2>6, <2>10 DEF HeadTaken
      <3>2. up'[c] \in Tails(data) /\ Requested(k, up[c])'
        <4>1. CASE data = <<>> /\ up'[c] = up[c]
          BY <2>6, <2>8, <3>1, <4>1 DEF Requested
        <4>2. ASSUME NEW x \in {BodySeg(data), Part}, data # <<>>, up'[c] = Append(up[c], x)
              PROVE  <3>2
          <5>1. up'[c] = <<x>> /\ <<x>> # <<>>
            BY <3>1, <4>2, ShortSequences
          <5>2. <<x>> \in Tails(data)
            BY <2>8, <4>2
          <5> QED
            BY <2>4, <5>1, <5>2 DEF Requested, Written
        <4> QED
          BY <2>5, <4>1, <4>2
      <3>3. /\ creq'[k] # NoReq /\ performed'[k] = NoRes /\ (Alive(k)' => Silent(k)')
            /\ InHand(k)' /\ Where(c)' = "recv_body"
        BY <1>1, <1>2, <1>3, <1>5, <1>7, <2>1, <2>10 DEF HeadTaken, InHand
      <3>4. HeadTaken(k)'
        BY <1>2, <2>8, <3>2, <3>3 DEF HeadTaken
      <3> QED
        BY <3>4 DEF Phase
    <2>11. CASE Handled(k) \/ Replying(k) \/ Replied(k) \/ Refused(k)
      <3>1. Handled(k) \/ Replying(k) \/ Replied(k) => data = <<>> /\ up'[c] = up[c]
        BY <2>5, <2>6 DEF Handled, Replying, Replied
      <3>2. Alive(k)' => Alive(k)
        BY <1>3
      <3>3. InHand(k)' = InHand(k)
        BY <1>1, <2>1 DEF InHand
      <3>4. Handled(k) => Handled(k)'
        BY <1>1, <1>2, <1>5, <1>7, <2>1, <2>6, <3>1, <3>2, <3>3 DEF Handled
      <3>5. Replying(k) => Replying(k)'
        BY <1>1, <1>2, <1>5, <1>8, <2>1, <2>6, <3>1, <3>2 DEF Replying
      <3>6. Replied(k) => Replied(k)'
        BY <1>1, <1>2, <1>5, <1>8, <2>1, <2>6, <3>1, <3>2 DEF Replied
      <3>7. Refused(k) => Refused(k)'
        BY <1>1, <1>2, <1>7, <2>1, <3>2 DEF Refused
      <3> QED
        BY <2>11, <3>4, <3>5, <3>6, <3>7 DEF Phase
    <2>12. ~Idle(k)
      BY <1>3 DEF Idle
    <2> QED
      BY <2>2, <2>9, <2>10, <2>11, <2>12 DEF Phase
  <1> QED
    BY <1>1, <1>6, <1>9, <1>10 DEF OwnKept

(* The step of readn() past the head of a response.                         *)
LEMMA HeadComes ==
  ASSUME NEW k \in Clients, NEW data, NEW tail \in Tails(data), Answering(k, tail),
         rhead[k] = Nothing, HeadReady(down[ConnOf(k)])
  PROVE  /\ down[ConnOf(k)][1] = ResponseHead(k)
         /\ Tail(down[ConnOf(k)]) = tail
  <1>1. tail = <<>> \/ \E x : tail = <<x>> /\ x.seg # "head"
    BY DEF Tails, BodySeg, Part
  <1>2. down[ConnOf(k)] = <<ResponseHead(k)>> \o tail
    <2>1. down[ConnOf(k)] # tail
      <3>1. down[ConnOf(k)] # <<>> /\ down[ConnOf(k)][1].seg = "head"
        BY DEF HeadReady
      <3>2. ASSUME NEW x, tail = <<x>>, x.seg # "head"
            PROVE  down[ConnOf(k)] # tail
        BY <3>1, <3>2
      <3> QED
        BY <1>1, <3>1, <3>2
    <2> QED
      BY <2>1 DEF Answering
  <1>3. CASE tail = <<>>
    <2>1. down[ConnOf(k)] = <<ResponseHead(k)>>
      BY <1>2, <1>3, ShortSequences
    <2> QED
      BY <1>3, <2>1, ShortSequences
  <1>4. ASSUME NEW x, tail = <<x>>
        PROVE  /\ down[ConnOf(k)][1] = ResponseHead(k)
               /\ Tail(down[ConnOf(k)]) = tail
    <2>1. down[ConnOf(k)] = <<ResponseHead(k), x>>
      BY <1>2, <1>4, ShortSequences
    <2> QED
      BY <1>4, <2>1, ShortSequences
  <1> QED
    BY <1>1, <1>3, <1>4

(* Receiving mark and header.                                               *)
LEMMA OwnReceivesHead ==
  ASSUME ProtocolInv, NEW k \in Clients, Clientele(k), ClientRecvHead(k)
  PROVE  /\ OwnKept(k)' /\ conn_i'[k] = conn_i[k] /\ cpc'[k] # "connect"
         /\ performed[k] # NoRes /\ rhead'[k] = ResponseHead(k)
  <1>1. /\ UNCHANGED <<job, conn_i, creq, up, cl_open>> /\ cpc[k] = "recv_head"
        /\ HeadReady(down[ConnOf(k)])
    BY DEF ClientRecvHead
  <1>2. PICK c \in Conns : c = ConnOf(k) /\ c = ConnOf(k)'
    BY <1>1, OwnBefore DEF ConnOf
  <1>3. /\ creq[k] # NoReq /\ rhead[k] = Nothing /\ Alive(k) /\ ClientOK(k)
        /\ ~Silent(k)
    <2>1. ClientOK(k) /\ (cpc[k] \in Active => Alive(k))
      BY OwnBefore
    <2>2. Alive(k)
      BY <1>1, <2>1 DEF Active
    <2>3. ~Silent(k)
      BY <1>1 DEF HeadReady, Silent
    <2>4. creq[k] # NoReq /\ rhead[k] = Nothing
      BY <1>1, <2>1 DEF ClientOK
    <2> QED
      BY <2>1, <2>2, <2>3, <2>4
  <1>4. performed[k] # NoRes /\ \E tail \in Tails(performed[k].data) : Answering(k, tail)
    BY <1>3 DEF ClientOK
  <1>5. performed'[k] = performed[k]
    BY <1>1, ClientPlaces DEF ClientMoves
  <1>6. cpc'[k] = "recv_body" /\ rhead'[k] = down[c][1] /\ down'[c] = Tail(down[c])
    BY <1>2 DEF ClientRecvHead, ProtocolInv, DataTypeOK, NetTypeOK, ClientTypeOK
  <1>7. ResponseHead(k)' = ResponseHead(k) /\ Alive(k)'
    BY <1>1, <1>2, <1>3, <1>5 DEF ResponseHead, Alive
  <1>8. rhead'[k] = ResponseHead(k)
    <2>1. PICK tail \in Tails(performed[k].data) : Answering(k, tail)
      BY <1>4
    <2>2. down[ConnOf(k)][1] = ResponseHead(k)
      BY <1>1, <1>3, <2>1, HeadComes
    <2> QED
      BY <1>2, <1>6, <2>2
  <1>9. \A tail \in Tails(performed[k].data) : Answering(k, tail) => Answering(k, tail)'
    <2> SUFFICES ASSUME NEW tail \in Tails(performed[k].data), Answering(k, tail)
                 PROVE  Answering(k, tail)'
      OBVIOUS
    <2>1. Tail(down[ConnOf(k)]) = tail
      BY <1>1, <1>3, HeadComes
    <2>2. down'[c] = tail
      BY <1>2, <1>6, <2>1
    <2> QED
      BY <1>2, <1>7, <1>8, <2>2 DEF Answering
  <1>10. rhead'[k] # Nothing
    <2>1. PICK r \in Requests : r = creq[k]
      BY <1>3, OwnBefore
    <2>2. PICK d \in Responses : d = performed[k]
      BY <1>4, OwnBefore
    <2>3. HeadSeg(r.id, r.method, d.status, d.data) \in Heads
      BY SegTypes DEF Requests, Responses, Datas
    <2>4. ResponseHead(k) \in Heads
      BY <2>1, <2>2, <2>3 DEF ResponseHead
    <2> QED
      BY <1>8, <2>4, NoneAssumption
  <1>11. ClientOK(k)'
    <2>1. \E tail \in Tails(performed'[k].data) : Answering(k, tail)'
      BY <1>4, <1>5, <1>9
    <2>2. creq'[k] # NoReq /\ performed'[k] # NoRes /\ rhead'[k] = ResponseHead(k)'
          /\ cpc'[k] \in Active
          /\ creq'[k].method = job'[k].method /\ creq'[k].data = job'[k].data
      BY <1>1, <1>3, <1>4, <1>5, <1>6, <1>7, <1>8 DEF Active, ClientOK
    <2> QED
      BY <1>6, <1>7, <1>10, <2>1, <2>2 DEF ClientOK
  <1>12. Served(ConnOf(k))' => Phase(k)'
    <2> SUFFICES ASSUME Served(c)' PROVE Phase(k)'
      BY <1>2
    <2>1. Where(c)' = Where(c) /\ (Served(c)' <=> Served(c)) /\ UNCHANGED <<req, res>>
      <3>1. ~ClientConnect(k)
        BY <1>1 DEF ClientConnect
      <3> QED
        BY <3>1, ClientPlaces DEF ClientMoves
    <2>2. Replying(k) \/ Replied(k)
      <3>1. Phase(k)
        BY <1>2, <2>1, OwnBefore DEF OwnKept
      <3> QED
        BY <1>3, <3>1 DEF Phase, Idle, Underway, HeadTaken, Handled, Refused
    <2>3. BodySkipped(k)'
      BY <1>6 DEF BodySkipped
    <2>4. CASE Replying(k)
      <3>1. Answering(k, <<>>)'
        <4>1. Answering(k, <<>>) /\ <<>> \in Tails(performed[k].data)
          BY <1>3, <2>4 DEF Replying, Tails
        <4> QED
          BY <1>9, <4>1
      <3>2. Replying(k)'
        BY <1>1, <1>2, <1>5, <2>1, <2>3, <2>4, <3>1 DEF Replying
      <3> QED
        BY <3>2 DEF Phase
    <2>5. CASE Replied(k)
      <3>1. \E tail \in Tails(performed'[k].data) :
              Answering(k, tail)' /\ Written(performed'[k].data, tail)
        <4>1. PICK tail \in Tails(performed[k].data) :
                Answering(k, tail) /\ Written(performed[k].data, tail)
          BY <1>3, <2>5 DEF Replied
        <4> QED
          BY <1>5, <1>9, <4>1
      <3>2. /\ Where(ConnOf(k))' \in {"free", "recv_head", "close_quit"}
            /\ creq'[k] # NoReq /\ performed'[k] # NoRes /\ up'[c] = <<>>
        BY <1>1, <1>2, <1>5, <2>1, <2>5 DEF Replied
      <3>3. Replied(k)'
        BY <1>2, <2>3, <3>1, <3>2 DEF Replied
      <3> QED
        BY <3>3 DEF Phase
    <2> QED
      BY <2>2, <2>4, <2>5
  <1> QED
    BY <1>1, <1>4, <1>6, <1>8, <1>11, <1>12 DEF OwnKept

(* Receiving the body: the request is answered, with what was performed.    *)
LEMMA OwnReceivesBody ==
  ASSUME ProtocolInv, NEW k \in Clients, Clientele(k), ClientRecvBody(k)
  PROVE  /\ OwnKept(k)' /\ conn_i'[k] = conn_i[k] /\ cpc'[k] # "connect"
         /\ creq[k] # NoReq /\ performed[k] # NoRes
         /\ rhead[k] = ResponseHead(k)
         /\ BodyData(down[ConnOf(k)], rhead[k].data_len) = performed[k].data
  <1>1. /\ UNCHANGED <<job, conn_i, up, cl_open>> /\ cpc[k] = "recv_body"
        /\ BodyReady(down[ConnOf(k)], rhead[k].data_len)
    BY DEF ClientRecvBody
  <1>2. PICK c \in Conns : c = ConnOf(k) /\ c = ConnOf(k)'
    BY <1>1, OwnBefore DEF ConnOf
  <1>3. /\ creq[k] # NoReq /\ rhead[k] # Nothing /\ Alive(k) /\ ClientOK(k)
        /\ performed[k] # NoRes /\ rhead[k] = ResponseHead(k)
        /\ performed[k].data \in Datas
    <2>1. ClientOK(k) /\ (cpc[k] \in Active => Alive(k))
      BY OwnBefore
    <2>2. Alive(k)
      BY <1>1, <2>1 DEF Active
    <2>3. /\ creq[k] # NoReq /\ rhead[k] # Nothing
          /\ performed[k] # NoRes /\ rhead[k] = ResponseHead(k)
      BY <1>1, <2>1 DEF ClientOK
    <2> QED
      BY <2>1, <2>2, <2>3, OwnBefore
  <1>4. down[c] \in Tails(performed[k].data)
    BY <1>2, <1>3 DEF ClientOK, Silent, Answering
  <1>5. rhead[k].data_len = Len(performed[k].data)
    BY <1>3 DEF ResponseHead, HeadSeg
  <1>6. /\ BodyData(down[c], Len(performed[k].data)) = performed[k].data
        /\ BodyTaken(down[c], Len(performed[k].data)) = <<>>
        /\ down[c] = <<>> => performed[k].data = <<>>
    BY <1>1, <1>2, <1>3, <1>4, <1>5, BodyTakenWhole
  <1>7. /\ cpc'[k] = "request" /\ rhead'[k] = Nothing /\ creq'[k] = NoReq
        /\ down'[c] = BodyTaken(down[c], rhead[k].data_len)
    BY <1>2 DEF ClientRecvBody, ProtocolInv, DataTypeOK, NetTypeOK, ClientTypeOK
  <1>8. performed'[k] = NoRes
    BY <1>3, <1>7, ClientPlaces DEF ClientMoves
  <1>9. down'[c] = <<>>
    BY <1>5, <1>6, <1>7
  <1>10. ClientOK(k)'
    <2>1. Alive(k)' /\ Silent(k)'
      BY <1>1, <1>2, <1>3, <1>7, <1>9 DEF Alive, Silent
    <2> QED
      BY <1>2, <1>7, <1>8, <1>9, <2>1 DEF ClientOK, Active
  <1>11. Served(ConnOf(k))' => Phase(k)'
    <2> SUFFICES ASSUME Served(c)' PROVE Phase(k)'
      BY <1>2
    <2>1. Where(c)' = Where(c) /\ (Served(c)' <=> Served(c)) /\ UNCHANGED <<req, res>>
      <3>1. ~ClientConnect(k)
        BY <1>1 DEF ClientConnect
      <3> QED
        BY <3>1, ClientPlaces DEF ClientMoves
    <2>2. Replying(k) \/ Replied(k)
      <3>1. Phase(k)
        BY <1>2, <2>1, OwnBefore DEF OwnKept
      <3>2. ~Silent(k)
        BY <1>3 DEF Silent
      <3> QED
        BY <1>3, <3>1, <3>2 DEF Phase, Idle, Underway, HeadTaken, Handled, Refused
    <2>3. PortOf(c)' = PortOf(c) /\ PortOf(c) = job[k].port
      BY <1>1, <1>2, OwnBefore DEF PortOf
    <2>4. up[c] = <<>> /\ Late(c)
      <3>1. CASE Replied(k)
        BY <1>2, <3>1 DEF Replied, Late
      <3>2. CASE Replying(k)
        <4>1. Answering(k, <<>>) /\ up[c] = <<>> /\ performed[k] = res[PortOf(c)]
              /\ Where(c) = "reply_body"
          BY <1>2, <1>3, <2>3, <3>2 DEF Replying
        <4>2. down[c] = <<>>
          BY <1>2, <1>3, <4>1 DEF Answering
        <4> QED
          BY <1>6, <4>1, <4>2 DEF Late
      <3> QED
        BY <2>2, <3>1, <3>2
    <2>5. Late(c)' /\ up'[c] = <<>>
      BY <1>1, <2>1, <2>3, <2>4 DEF Late
    <2>6. Idle(k)'
      BY <1>2, <1>7, <1>8, <2>5 DEF Idle
    <2> QED
      BY <2>6 DEF Phase
  <1> QED
    BY <1>1, <1>2, <1>3, <1>5, <1>6, <1>7, <1>10, <1>11 DEF OwnKept

(* Closing a connection, to open the next one or for good.                  *)
LEMMA OwnCloses ==
  ASSUME ProtocolInv, NEW k \in Clients, Clientele(k), ClientClose(k)
  PROVE  /\ OwnKept(k)'
         /\ ConnOf(k) \notin reset' \/ ConnOf(k) \in reset
         /\ \A i \in 1 .. MaxConns :
              /\ i < conn_i'[k] => Past(<<k, i>>)'
              /\ i > conn_i'[k] => Fresh(<<k, i>>)'
              /\ i = conn_i'[k] /\ cpc'[k] = "connect" => Fresh(<<k, i>>)'
  <1>1. UNCHANGED <<job, creq, rhead, up, down>> /\ cpc[k] = "request"
    BY DEF ClientClose, ClientEndClosed
  <1>2. PICK c \in Conns : c = ConnOf(k) /\ c = <<k, conn_i[k]>>
    BY OwnBefore DEF ConnOf
  <1>3. /\ creq[k] = NoReq /\ rhead[k] = Nothing /\ Alive(k) /\ down[c] = <<>>
        /\ performed[k] = NoRes
    <2>1. ClientOK(k) /\ (cpc[k] \in Active => Alive(k))
      BY OwnBefore
    <2>2. Alive(k)
      BY <1>1, <2>1 DEF Active
    <2> QED
      BY <1>1, <1>2, <2>1, <2>2 DEF ClientOK
  <1>4. /\ performed'[k] = NoRes /\ creq'[k] = NoReq /\ rhead'[k] = Nothing
        /\ Where(c)' = Where(c) /\ (Served(c)' <=> Served(c)) /\ UNCHANGED <<req, res>>
    <2>1. ~ClientConnect(k)
      BY <1>1 DEF ClientConnect
    <2> QED
      BY <1>1, <1>3, <2>1, ClientPlaces DEF ClientMoves
  <1>5. Served(c) => Idle(k)
    <2>1. Served(c) => Phase(k)
      BY <1>2, OwnBefore DEF OwnKept
    <2> QED
      BY <1>3, <2>1 DEF Phase, Underway, HeadTaken, Handled, Replying, Replied, Refused
  <1>6. /\ ~cl_open'[c] /\ reset' = reset
        /\ \A d \in Conns : d # c => cl_open'[d] = cl_open[d]
    BY <1>2, <1>3 DEF ClientClose, ClientEndClosed, ProtocolInv, DataTypeOK, NetTypeOK
  <1>7. Late(c) => Late(c)'
    <2>1. PortOf(c)' = PortOf(c)
      BY <1>1 DEF PortOf
    <2> QED
      BY <1>4, <2>1 DEF Late
  <1>8. CASE conn_i[k] < job[k].conns
    <2>1. conn_i'[k] = conn_i[k] + 1 /\ cpc'[k] = "connect"
      BY <1>8 DEF ClientClose, ProtocolInv, DataTypeOK, ClientTypeOK
    <2>2. conn_i[k] + 1 \in 1 .. MaxConns /\ conn_i[k] \in 1 .. MaxConns
      BY <1>8, JobType, ConnsAssumption DEF ProtocolInv, DataTypeOK, ClientTypeOK
    <2>3. Past(c)'
      BY <1>1, <1>2, <1>4, <1>5, <1>7 DEF Past, Idle
    <2>4. ASSUME NEW i \in 1 .. MaxConns, NEW d \in Conns, d = <<k, i>>, i # conn_i[k]
          PROVE  /\ Past(d) => Past(d)'
                 /\ Fresh(d) => Fresh(d)'
      <3>1. d # c
        BY <1>2, <2>4
      <3>2. Where(d)' = Where(d) /\ (Served(d)' <=> Served(d)) /\ UNCHANGED <<res, job>>
        BY <1>2, <3>1, ClientPlaces DEF ClientMoves
      <3>3. PortOf(d)' = PortOf(d)
        BY <1>1 DEF PortOf
      <3> QED
        BY <1>1, <1>6, <3>1, <3>2, <3>3 DEF Past, Late, Fresh
    <2>5. ASSUME NEW i \in 1 .. MaxConns
          PROVE  /\ i < conn_i'[k] => Past(<<k, i>>)'
                 /\ i >= conn_i'[k] => Fresh(<<k, i>>)'
      <3>1. PICK d \in Conns : d = <<k, i>>
        BY DEF Conns
      <3>2. (i < conn_i[k] => Past(d)) /\ (i > conn_i[k] => Fresh(d))
        BY <3>1 DEF ProtocolInv, OthersInv
      <3>3. CASE i = conn_i[k]
        BY <1>2, <2>1, <2>2, <2>3, <3>1, <3>3
      <3>4. CASE i < conn_i[k]
        BY <2>1, <2>2, <2>4, <3>1, <3>2, <3>4
      <3>5. CASE i > conn_i[k]
        BY <2>1, <2>2, <2>4, <3>1, <3>2, <3>5
      <3> QED
        BY <2>2, <3>3, <3>4, <3>5
    <2>6. PICK i \in 1 .. MaxConns : i = conn_i'[k]
      BY <2>1, <2>2
    <2>7. PICK d \in Conns : d = <<k, i>> /\ d = ConnOf(k)'
      BY <2>6 DEF Conns, ConnOf
    <2>8. Fresh(d)'
      BY <2>2, <2>5, <2>6, <2>7
    <2>9. ~Alive(k)' /\ ~Served(ConnOf(k))'
      BY <2>7, <2>8 DEF Fresh, Alive
    <2>10. ClientOK(k)'
      BY <1>4, <2>1, <2>9 DEF ClientOK, Active
    <2> QED
      BY <1>2, <1>6, <2>1, <2>2, <2>5, <2>9, <2>10 DEF OwnKept
  <1>9. CASE ~(conn_i[k] < job[k].conns)
    <2>1. conn_i' = conn_i /\ cpc'[k] = "done" /\ c = ConnOf(k)'
      BY <1>2, <1>9 DEF ClientClose, ConnOf, ProtocolInv, DataTypeOK, ClientTypeOK
    <2>2. ~Alive(k)'
      BY <1>6, <2>1 DEF Alive
    <2>3. ClientOK(k)'
      BY <1>4, <2>1, <2>2 DEF ClientOK, Active
    <2>4. Served(c)' => Idle(k)'
      BY <1>1, <1>2, <1>4, <1>5, <1>7, <2>1 DEF Idle
    <2>5. \A i \in 1 .. MaxConns :
              /\ i < conn_i'[k] => Past(<<k, i>>)'
              /\ i > conn_i'[k] => Fresh(<<k, i>>)'
      BY <2>1, ClientOthers DEF ClientMoves
    <2> QED
      BY <1>2, <1>6, <2>1, <2>3, <2>4, <2>5 DEF OwnKept, Phase
  <1> QED
    BY <1>8, <1>9

-----------------------------------------------------------------------------
(* The protocol over any step *)

(* A step of a client keeps what there is to keep of every client.          *)
LEMMA ClientKept ==
  ASSUME ProtocolInv, NEW k \in Clients, ClientMoves(k)
  PROVE  ClientInv' /\ PhaseInv' /\ OthersInv'
  <1>1. /\ OwnKept(k)'
        /\ \A i \in 1 .. MaxConns :
             /\ i < conn_i'[k] => Past(<<k, i>>)'
             /\ i > conn_i'[k] => Fresh(<<k, i>>)'
             /\ i = conn_i'[k] /\ cpc'[k] = "connect" => Fresh(<<k, i>>)'
    <2>1. CASE ~ClientClose(k)
      <3>1. OwnKept(k)' /\ conn_i'[k] = conn_i[k] /\ cpc'[k] # "connect"
        <4>1. CASE ClientKilled(k)
          BY <4>1, OwnEnds
        <4>2. CASE Clientele(k)
          BY <2>1, <4>2, OwnConnects, OwnEnds, OwnSendsHead, OwnSendsBody,
             OwnReceivesHead, OwnReceivesBody
             DEF Clientele, ClientStep
        <4> QED
          BY <4>1, <4>2 DEF ClientMoves
      <3> QED
        BY <3>1, ClientOthers
    <2>2. CASE ClientClose(k)
      <3>1. Clientele(k)
        <4>1. CASE ClientKilled(k)
          BY <2>2, <4>1
             DEF ClientKilled, ClientClose, ProtocolInv, DataTypeOK, ClientTypeOK
        <4> QED
          BY <4>1 DEF ClientMoves
      <3> QED
        BY <2>2, <3>1, OwnCloses
    <2> QED
      BY <2>1, <2>2
  <1>2. ClientInv'
    <2> SUFFICES ASSUME NEW j \in Clients PROVE ClientOK(j)'
      BY DEF ClientInv
    <2> QED
      BY <1>1, ClientElsewhere DEF OwnKept
  <1>3. PhaseInv'
    <2> SUFFICES ASSUME NEW j \in Clients, Served(ConnOf(j))' PROVE Phase(j)'
      BY DEF PhaseInv
    <2> QED
      BY <1>1, ClientElsewhere DEF OwnKept
  <1>4. OthersInv'
    <2> SUFFICES ASSUME NEW j \in Clients, NEW i \in 1 .. MaxConns
                 PROVE  /\ i < conn_i'[j] => Past(<<j, i>>)'
                        /\ i > conn_i'[j] => Fresh(<<j, i>>)'
                        /\ i = conn_i'[j] /\ cpc'[j] = "connect" => Fresh(<<j, i>>)'
      BY DEF OthersInv
    <2> QED
      BY <1>1, ClientElsewhere
  <1> QED
    BY <1>2, <1>3, <1>4

(* The clients, when nothing of theirs changes.                             *)
LEMMA ClientsSame ==
  ASSUME ClientInv, UNCHANGED <<job, cpc, conn_i, creq, rhead, performed, down, cl_open>>
  PROVE  ClientInv'
  BY DEF ClientInv, ClientOK, Alive, ConnOf, Silent, Answering, ResponseHead

(* What was never accepted, when the process ends.                          *)
LEMMA WaitingServed ==
  ASSUME DataTypeOK, NetInv, proc = "up", NEW c \in Unaccepted(Ports)
  PROVE  Served(c)
  <1>1. Unaccepted(Ports) = UNION {Waiting(q) : q \in Ports}
    BY DEF Unaccepted, Waiting
  <1>2. PICK q \in Ports : c \in Waiting(q)
    BY <1>1
  <1>3. PortOf(c) = q /\ c # cur[q]
    BY <1>2 DEF NetInv, QueueInv
  <1> QED
    BY <1>2, <1>3 DEF Served, Where

(* Everything is kept when the server process ends.                         *)
LEMMA EndKept ==
  ASSUME ProtocolInv, ServerDies \/ ServerExit, UNCHANGED <<clientVars, performed>>
  PROVE  NetInv' /\ ClientInv' /\ PhaseInv' /\ OthersInv'
  <1>1. /\ NetInv' /\ \A c : ~Served(c)'
        /\ UNCHANGED <<job, cpc, conn_i, creq, rhead, performed, up, down, cl_open>>
    BY EndNet DEF clientVars, ServerDies, ServerExit, ServerHostClosed, netVars
  <1>2. ClientInv'
    BY <1>1, ClientsSame DEF ProtocolInv
  <1>3. PhaseInv'
    BY <1>1 DEF PhaseInv
  <1>4. OthersInv'
    <2>1. \A c \in Conns : Past(c)'
      BY <1>1 DEF Past
    <2>2. ASSUME NEW c \in Conns, Fresh(c)
          PROVE  Fresh(c)'
      <3>1. c \in reset' => c \in reset
        <4>1. CASE ServerExit
          BY <4>1 DEF ServerExit, netVars
        <4>2. CASE ServerDies
          <5>1. c \notin Unaccepted(Ports)
            BY <2>2, <4>2, WaitingServed DEF Fresh, ProtocolInv, ServerDies
          <5> QED
            BY <2>2, <4>2, <5>1 DEF ServerDies, ServerHostClosed, Fresh
        <4> QED
          BY <4>1, <4>2
      <3> QED
        BY <1>1, <2>2, <3>1 DEF Fresh
    <2>3. \A k \in Clients, i \in 1 .. MaxConns : <<k, i>> \in Conns
      BY DEF Conns
    <2> QED
      BY <1>1, <2>1, <2>2, <2>3 DEF ProtocolInv, OthersInv
  <1> QED
    BY <1>1, <1>2, <1>3, <1>4

(* A port that does not open.                                               *)
LEMMA ListenFailsKept ==
  ASSUME ProtocolInv, NEW p \in Ports, ServerListenFails(p), UNCHANGED <<clientVars, performed>>
  PROVE  NetInv' /\ ClientInv' /\ PhaseInv' /\ OthersInv'
  <1>1. /\ NetInv' /\ \A c \in Conns : Where(c)' = Where(c) /\ (Served(c)' <=> Served(c))
        /\ UNCHANGED <<job, cpc, conn_i, creq, rhead, performed, up, down, cl_open, reset, req, res>>
    BY ListenNet DEF clientVars, ServerListenFails, netVars
  <1>2. ClientInv'
    BY <1>1, ClientsSame DEF ProtocolInv
  <1>3. PhaseInv'
    <2> SUFFICES ASSUME NEW k \in Clients, Served(ConnOf(k))' PROVE Phase(k)'
      BY DEF PhaseInv
    <2>1. PICK c \in Conns : c = ConnOf(k) /\ c = ConnOf(k)'
      BY <1>1, OwnBefore DEF ConnOf
    <2>2. ClientSame(k, c) /\ Where(c)' = Where(c) /\ Phase(k)
      BY <1>1, <2>1, OwnBefore DEF ClientSame, OwnKept
    <2> QED
      BY <1>1, <2>2, PhaseKept
  <1>4. OthersInv'
    <2>1. ASSUME NEW c \in Conns
          PROVE  (Past(c) => Past(c)') /\ (Fresh(c) => Fresh(c)')
      <3>1. PortOf(c)' = PortOf(c)
        BY <1>1 DEF PortOf
      <3> QED
        BY <1>1, <3>1 DEF Past, Late, Fresh
    <2>2. \A k \in Clients, i \in 1 .. MaxConns : <<k, i>> \in Conns
      BY DEF Conns
    <2> QED
      BY <1>1, <2>1, <2>2 DEF ProtocolInv, OthersInv
  <1> QED
    BY <1>1, <1>2, <1>3, <1>4

(* All the parts of the invariant that speak of one state of the protocol.  *)
LEMMA ProtocolStep ==
  ASSUME ProtocolInv, [Next]_vars
  PROVE  NetInv' /\ ClientInv' /\ PhaseInv' /\ OthersInv'
  <1>1. ASSUME NEW k \in Clients, Clientele(k)
        PROVE  NetInv' /\ ClientInv' /\ PhaseInv' /\ OthersInv'
    BY <1>1, ClientKept, ClientPlaces DEF ClientMoves
  <1>2. ASSUME NEW p \in Ports, Thread(p)
        PROVE  NetInv' /\ ClientInv' /\ PhaseInv' /\ OthersInv'
    BY <1>2, ThreadNet, ClientThread, PhaseThread, OthersThread
  <1>3. CASE Main
    BY <1>3, EndKept DEF Main
  <1>4. CASE Fault
    <2>1. ASSUME NEW k \in Clients, ClientKilled(k), UNCHANGED <<serverVars, performed>>
          PROVE  NetInv' /\ ClientInv' /\ PhaseInv' /\ OthersInv'
      BY <2>1, ClientKept, ClientPlaces DEF ClientMoves
    <2>2. ASSUME NEW p \in Ports, ServerFault(p), UNCHANGED <<clientVars, performed>>
          PROVE  NetInv' /\ ClientInv' /\ PhaseInv' /\ OthersInv'
      BY <2>2, EndKept, ListenFailsKept DEF ServerFault, ServerOpenLogFails
    <2>3. CASE ServerDies /\ UNCHANGED <<clientVars, performed>>
      BY <2>3, EndKept
    <2> QED
      BY <1>4, <2>1, <2>2, <2>3 DEF Fault
  <1>5. CASE UNCHANGED vars
    <2>1. UNCHANGED <<job, cpc, conn_i, creq, rhead, performed, up, down, cl_open, sv_open, reset,
                      req, res, proc, spc, cur, queue, listening>>
      BY <1>5 DEF vars, clientVars, serverVars, netVars
    <2>2. \A c : Where(c)' = Where(c) /\ Served(c)' = Served(c) /\ PortOf(c)' = PortOf(c)
      BY <2>1, WhereKept DEF PortOf
    <2>3. NetInv'
      BY <2>1, <2>2 DEF ProtocolInv, NetInv, QueueInv, EndsInv, Waiting, PortOf
    <2>4. ClientInv'
      BY <2>1, ClientsSame DEF ProtocolInv
    <2>5. PhaseInv'
      <3> SUFFICES ASSUME NEW k \in Clients, Served(ConnOf(k))' PROVE Phase(k)'
        BY DEF PhaseInv
      <3>1. PICK c \in Conns : c = ConnOf(k) /\ c = ConnOf(k)'
        BY <2>1, OwnBefore DEF ConnOf
      <3>2. ClientSame(k, c) /\ Where(c)' = Where(c) /\ Phase(k)
        BY <2>1, <2>2, <3>1, OwnBefore DEF ClientSame, OwnKept
      <3> QED
        BY <2>1, <3>2, PhaseKept
    <2>6. OthersInv'
      BY <2>1, <2>2 DEF ProtocolInv, OthersInv, Past, Fresh, Late
    <2> QED
      BY <2>3, <2>4, <2>5, <2>6
  <1> QED
    BY <1>1, <1>2, <1>3, <1>4, <1>5 DEF Next, Quiet

-----------------------------------------------------------------------------
(* Resets and deaths need a fault *)

(* Until something fails, a thread neither dies of its writes nor resets    *)
(* what it serves.                                                          *)
LEMMA CalmThread ==
  ASSUME ProtocolInv, NEW p \in Ports, Thread(p)
  PROVE  CalmInv'
  <1> SUFFICES ASSUME faults' = 0
               PROVE  /\ proc' # "died"
                      /\ \A c \in Conns : Served(c)' => c \notin reset'
                      /\ \A k \in Clients : cpc'[k] \in {"failed", "killed"} => ~Served(ConnOf(k))'
    BY DEF CalmInv
  <1>1. /\ proc # "died"
        /\ \A c \in Conns : Served(c) => c \notin reset
        /\ \A k \in Clients : cpc[k] \in {"failed", "killed"} => ~Served(ConnOf(k))
    BY DEF ProtocolInv, CalmInv, Thread
  <1>2. ~ServerSigpipe(p)
    <2> SUFFICES ASSUME ServerSigpipe(p) PROVE FALSE
      OBVIOUS
    <2>1. proc = "up" /\ spc[p] \in Serving /\ cur[p] \in reset
      BY DEF ServerSigpipe, ServerDies, Serving
    <2>2. cur[p] \in Conns /\ Served(cur[p])
      BY <2>1, ConnectionOf
    <2> QED
      BY <1>1, <2>1, <2>2
  <1>3. UNCHANGED <<proc, cpc, conn_i>>
    BY <1>2, ThreadLocal
  <1>4. ASSUME NEW c \in Conns, Served(c)', c \in reset'
        PROVE  FALSE
    <2>1. Served(c) /\ c \notin reset
      BY <1>1, <1>4, ThreadPlaces
    <2>2. up[c] # <<>> /\ sv_open[c] => Served(c)'
      BY <1>4
    <2>3. /\ c = cur[p] /\ ~cl_open[c]
          /\ ServerReplyHead(p) \/ (ServerReplyBody(p) /\ res[p].data # <<>>)
      BY <1>4, <2>1, ThreadStreams
    <2>4. PICK k \in Clients : c = ConnOf(k) /\ creq[k] # NoReq
      <3>1. CASE ServerReplyHead(p)
        BY <2>3, <3>1, ReplyHeadStep DEF Handled
      <3>2. CASE ServerReplyBody(p) /\ res[p].data # <<>>
        <4>1. proc = "up" /\ spc[p] = "reply_body"
          BY <3>2 DEF ServerReplyBody, Goto
        <4>2. PICK k \in Clients, i \in 1 .. MaxConns :
                /\ cur[p] = <<k, i>> /\ cur[p] \in Conns /\ cur[p][1] = k /\ job[k].port = p
                /\ Where(<<k, i>>) = spc[p] /\ Served(<<k, i>>)
                /\ \/ i = conn_i[k] /\ <<k, i>> = ConnOf(k)
                   \/ i < conn_i[k] /\ Past(<<k, i>>)
          BY <4>1, ConnectionOf DEF Serving
        <4>3. PortOf(<<k, i>>) = p
          BY <4>2 DEF PortOf
        <4>4. ~Past(<<k, i>>)
          BY <3>2, <4>1, <4>2, <4>3 DEF Past, Late
        <4>5. ConnOf(k) = cur[p]
          BY <4>2, <4>4
        <4>6. Replying(k)
          BY <3>2, <4>5, ThreadReplies
        <4> QED
          BY <2>3, <4>5, <4>6 DEF Replying
      <3> QED
        BY <2>3, <3>1, <3>2
    <2>5. ~Alive(k)
      BY <2>3, <2>4 DEF Alive
    <2>6. cpc[k] \in {"failed", "killed"}
      <3>1. ClientOK(k) /\ cpc[k] \in ClientPC
        BY OwnBefore DEF ProtocolInv, DataTypeOK, ClientTypeOK
      <3> QED
        BY <2>4, <2>5, <3>1 DEF ClientOK, Active, ClientPC, Ended
    <2> QED
      BY <1>1, <2>1, <2>4, <2>6
  <1>5. ASSUME NEW k \in Clients, cpc'[k] \in {"failed", "killed"}
        PROVE  ~Served(ConnOf(k))'
    <2>1. PICK c \in Conns : c = ConnOf(k) /\ c = ConnOf(k)'
      BY <1>3, OwnBefore DEF ConnOf
    <2>2. ~Served(c)
      BY <1>1, <1>3, <1>5, <2>1
    <2>3. ~Served(c)'
      BY <2>2, ThreadPlaces
    <2> QED
      BY <2>1, <2>3
  <1> QED
    BY <1>1, <1>3, <1>4, <1>5

(* Until something fails, a client gives up on no connection that is served,*)
(* nor resets it.                                                           *)
LEMMA CalmClient ==
  ASSUME ProtocolInv, NEW k \in Clients, Clientele(k)
  PROVE  CalmInv'
  <1> SUFFICES ASSUME faults' = 0
               PROVE  /\ proc' # "died"
                      /\ \A c \in Conns : Served(c)' => c \notin reset'
                      /\ \A j \in Clients : cpc'[j] \in {"failed", "killed"} => ~Served(ConnOf(j))'
    BY DEF CalmInv
  <1>1. /\ proc # "died"
        /\ \A c \in Conns : Served(c) => c \notin reset
        /\ \A j \in Clients : cpc[j] \in {"failed", "killed"} => ~Served(ConnOf(j))
    BY DEF ProtocolInv, CalmInv, Clientele
  <1>2. UNCHANGED proc
    BY DEF Clientele, serverVars
  <1>3. PICK c \in Conns : c = ConnOf(k)
    BY OwnBefore
  <1>4. /\ \A d \in Conns : d # c => (Served(d)' <=> Served(d)) /\ (d \in reset' <=> d \in reset)
        /\ \A j \in Clients : j # k => cpc'[j] = cpc[j] /\ conn_i'[j] = conn_i[j]
    BY <1>3, ClientPlaces, ClientLocal DEF ClientMoves, Clientele, ProtocolInv
  <1>5. cpc[k] \in ClientPC /\ cpc \in [Clients -> ClientPC] /\ DataTypeOK /\ OwnKept(k)
    BY OwnBefore DEF ProtocolInv, DataTypeOK, ClientTypeOK
  <1>6. /\ Served(c)' => c \notin reset'
        /\ cpc'[k] \in {"failed", "killed"} => ~Served(c)' /\ conn_i'[k] = conn_i[k]
    <2>1. CASE ClientConnect(k)
      <3>1. Fresh(c) /\ UNCHANGED reset
        BY <1>3, <2>1, ConnectNet DEF Clientele, ClientConnect, TcpConnect
      <3>2. cpc'[k] = "request"
        BY <1>5, <2>1 DEF ClientConnect
      <3> QED
        BY <3>1, <3>2 DEF Fresh
    <2>2. ClientConnect(k) \/ (Served(c)' <=> Served(c))
      BY ClientPlaces DEF ClientMoves
    <2>3. CASE ClientConnectFails(k)
      <3>1. Fresh(c) /\ UNCHANGED <<reset, conn_i>>
        <4>1. cpc[k] = "connect" /\ conn_i[k] \in 1 .. MaxConns
          BY <1>5, <2>3 DEF ClientConnectFails, DataTypeOK, ClientTypeOK
        <4>2. Fresh(<<k, conn_i[k]>>)
          BY <4>1 DEF ProtocolInv, OthersInv
        <4> QED
          BY <1>3, <2>3, <4>2 DEF ConnOf, ClientConnectFails, netVars
      <3>2. ~ClientConnect(k)
        BY <1>5, <2>3 DEF ClientConnect, ClientConnectFails
      <3> QED
        BY <2>2, <3>1, <3>2 DEF Fresh
    <2>4. CASE ClientSendHead(k) \/ ClientSendBody(k)
      <3>1. PICK seg, result, next :
              /\ ClientWrites(k, seg, result, next) /\ next \in {"send_body", "recv_head"}
              /\ UNCHANGED conn_i
        BY <2>4 DEF ClientSendHead, ClientSendBody
      <3>2. cpc[k] \in Active /\ ~ClientConnect(k)
        BY <2>4 DEF ClientSendHead, ClientSendBody, Active, ClientConnect
      <3>3. ASSUME Served(c)
            PROVE  c \notin reset' /\ cpc'[k] \notin {"failed", "killed"}
        <4>1. sv_open[c] /\ c \notin reset
          BY <1>1, <1>3, <3>3, OwnBefore
        <4>2. c \notin reset'
          BY <1>3, <3>1, <4>1 DEF ClientWrites, Sent
        <4>3. cpc'[k] \in {"send_body", "recv_head"}
          BY <1>3, <3>1, <3>2, <3>3, ClientWritesServed
        <4> QED
          BY <4>2, <4>3
      <3> QED
        BY <2>2, <3>1, <3>2, <3>3
    <2>5. CASE ClientRecvHead(k) \/ ClientRecvBody(k)
      <3>1. UNCHANGED reset /\ cpc'[k] \in {"recv_body", "request"} /\ ~ClientConnect(k)
        BY <1>5, <2>5 DEF ClientRecvHead, ClientRecvBody, ClientConnect
      <3> QED
        BY <1>1, <2>2, <3>1
    <2>6. CASE ClientRecvFails(k)
      <3>1. ~sv_open[c] /\ UNCHANGED conn_i /\ ~ClientConnect(k)
        BY <1>3, <2>6 DEF ClientRecvFails, AtEnd, ClientConnect
      <3>2. ~Served(c)
        BY <1>3, <3>1, OwnBefore
      <3> QED
        BY <2>2, <3>1, <3>2
    <2>7. CASE ClientClose(k)
      <3>1. c \in reset' => c \in reset
        BY <1>3, <2>7, OwnCloses
      <3>2. cpc'[k] \in {"connect", "done"} /\ ~ClientConnect(k)
        BY <1>5, <2>7 DEF ClientClose, ClientConnect
      <3> QED
        BY <1>1, <2>2, <3>1, <3>2
    <2> QED
      BY <2>1, <2>3, <2>4, <2>5, <2>6, <2>7 DEF Clientele, ClientStep
  <1>7. ASSUME NEW j \in Clients, cpc'[j] \in {"failed", "killed"}
        PROVE  ~Served(ConnOf(j))'
    <2>1. PICK d \in Conns : d = ConnOf(j) /\ d = ConnOf(j)'
      BY <1>4, <1>6, <1>7, OwnBefore DEF ConnOf
    <2>2. ~Served(d)'
      <3>1. CASE j = k
        BY <1>3, <1>6, <1>7, <2>1, <3>1
      <3>2. CASE j # k
        <4>1. d # c
          BY <1>3, <2>1, <3>2 DEF ConnOf
        <4>2. ~Served(d)
          BY <1>1, <1>4, <1>7, <2>1, <3>2
        <4> QED
          BY <1>4, <4>1, <4>2
      <3> QED
        BY <3>1, <3>2
    <2> QED
      BY <2>1, <2>2
  <1>8. \A d \in Conns : Served(d)' => d \notin reset'
    BY <1>1, <1>4, <1>6
  <1> QED
    BY <1>1, <1>2, <1>7, <1>8

(* The calm lasts until something is killed or does not open.               *)
LEMMA CalmStep ==
  ASSUME ProtocolInv, [Next]_vars
  PROVE  CalmInv'
  <1>1. CASE Main
    <2>1. proc' = "exited" /\ UNCHANGED job /\ ServerExit
      BY <1>1 DEF Main, ServerExit, clientVars
    <2>2. \A c : ~Served(c)'
      BY <2>1, EndNet
    <2> QED
      BY <2>1, <2>2 DEF CalmInv
  <1>2. CASE Fault
    <2>1. faults' # 0
      BY <1>2 DEF Fault, ProtocolInv, DataTypeOK
    <2> QED
      BY <2>1 DEF CalmInv
  <1>3. CASE UNCHANGED vars
    <2>1. UNCHANGED <<cpc, conn_i, reset, proc, spc, cur, queue, job, faults>>
      BY <1>3 DEF vars, clientVars, serverVars, netVars
    <2>2. \A c : Served(c)' <=> Served(c)
      BY <2>1, WhereKept
    <2>3. \A k \in Clients : Served(ConnOf(k))' <=> Served(ConnOf(k))
      <3> SUFFICES ASSUME NEW k \in Clients PROVE Served(ConnOf(k))' <=> Served(ConnOf(k))
        OBVIOUS
      <3>1. PICK c \in Conns : c = ConnOf(k) /\ c = ConnOf(k)'
        BY <2>1, OwnBefore DEF ConnOf
      <3> QED
        BY <2>2, <3>1
    <2> QED
      BY <2>1, <2>2, <2>3 DEF ProtocolInv, CalmInv
  <1> QED
    BY <1>1, <1>2, <1>3, CalmThread, CalmClient DEF Next, Quiet

-----------------------------------------------------------------------------
(* The bodies a thread has allocated *)

(* Counting clients.                                                        *)
LEMMA ClientsCounted ==
  ASSUME NEW U, NEW V, V \subseteq Clients, U \subseteq V
  PROVE  /\ Cardinality(U) \in Nat /\ Cardinality(V) \in Nat
         /\ Cardinality(U) <= Cardinality(V)
         /\ (\E k \in V : k \notin U) => Cardinality(U) + 1 <= Cardinality(V)
  <1>1. IsFiniteSet(V) /\ IsFiniteSet(U)
    BY ClientsAssumption, FS_Subset
  <1>2. Cardinality(U) <= Cardinality(V) /\ (U # V => Cardinality(U) # Cardinality(V))
    BY <1>1, FS_Subset
  <1>3. Cardinality(U) \in Nat /\ Cardinality(V) \in Nat
    BY <1>1, FS_CardinalityType
  <1> QED
    BY <1>2, <1>3

(* A step that allocates nothing keeps the heap within bounds: a body is    *)
(* still in hand, or its client joins those never to be answered.           *)
LEMMA HeapKept ==
  ASSUME ProtocolInv, NEW p \in Ports, live'[p] = live[p],
         spc'[p] \in {"recv_body", "dispatch", "store_op", "unlock", "reply_head",
                      "reply_body", "free"} => live[p] > 0,
         Unanswered(p) \subseteq Unanswered(p)',
         Holds(p) => Holds(p)' \/ \E k \in Unanswered(p)' : k \notin Unanswered(p)
  PROVE  HeapOK(p)'
  <1>1. HeapOK(p) /\ live[p] \in Nat
    BY DEF ProtocolInv, HeapInv, DataTypeOK, ServerTypeOK
  <1>2. Unanswered(p)' \subseteq Clients
    BY DEF Unanswered
  <1> DEFINE u == Cardinality(Unanswered(p))
             v == Cardinality(Unanswered(p)')
  <1>3. /\ u \in Nat /\ v \in Nat /\ u <= v
        /\ (\E k \in Unanswered(p)' : k \notin Unanswered(p)) => u + 1 <= v
    BY <1>2, ClientsCounted
  <1>4. live[p] <= u + IF Holds(p) THEN 1 ELSE 0
    BY <1>1 DEF HeapOK
  <1> HIDE DEF u, v
  <1>5. live[p] <= v + IF Holds(p)' THEN 1 ELSE 0
    <2>1. CASE Holds(p) /\ ~Holds(p)'
      BY <1>1, <1>3, <1>4, <2>1
    <2>2. CASE ~Holds(p) \/ Holds(p)'
      <3>1. live[p] <= u + 1 /\ (~Holds(p) => live[p] <= u)
        BY <1>1, <1>3, <1>4
      <3> QED
        BY <1>1, <1>3, <2>2, <3>1
    <2> QED
      BY <2>1, <2>2
  <1> QED
    BY <1>5 DEF HeapOK, v

(* The body the thread has in hand but will not free is of a request that   *)
(* nothing has been answered to.                                            *)
LEMMA HolderUnanswered ==
  ASSUME ProtocolInv, NEW p \in Ports, proc = "up", Holds(p), spc[p] \notin {"reply_body", "free"}
  PROVE  \E k \in Clients :
           /\ cur[p] = ConnOf(k) /\ cur[p] \in Conns /\ creq[k] # NoReq /\ job[k].port = p
           /\ Served(ConnOf(k)) /\ (Alive(k) => Silent(k))
  <1>1. CASE spc[p] \in {"recv_body", "dispatch", "store_op", "unlock", "reply_head"}
    BY <1>1, ThreadHandles DEF HeadTaken, Handled, Served
  <1>2. CASE spc[p] = "close"
    <2>1. PICK k \in Clients, i \in 1 .. MaxConns :
            /\ cur[p] = <<k, i>> /\ cur[p] \in Conns /\ cur[p][1] = k /\ job[k].port = p
            /\ Where(<<k, i>>) = spc[p] /\ Served(<<k, i>>)
            /\ \/ i = conn_i[k] /\ <<k, i>> = ConnOf(k)
               \/ i < conn_i[k] /\ Past(<<k, i>>)
      BY <1>2, ConnectionOf DEF Serving
    <2>2. creq[k] # NoReq /\ cur[p] = ConnOf(k)
      BY <1>2, <2>1 DEF Holds
    <2>3. Phase(k)
      BY <2>1, <2>2 DEF ProtocolInv, PhaseInv
    <2>4. Where(ConnOf(k)) = "close"
      BY <1>2, <2>1, <2>2
    <2>5. Refused(k)
      BY <2>3, <2>4
         DEF Phase, Idle, Underway, HeadTaken, Handled, Replying, Replied, Late
    <2> QED
      BY <2>1, <2>2, <2>5 DEF Refused
  <1> QED
    BY <1>1, <1>2 DEF Holds

(* A client nothing has been answered to stays with its request.            *)
LEMMA RequestStays ==
  ASSUME ProtocolInv, NEW k \in Clients, ClientMoves(k), creq[k] # NoReq, Alive(k) => Silent(k)
  PROVE  /\ ~ClientConnect(k)
         /\ creq'[k] = creq[k] /\ conn_i'[k] = conn_i[k]
         /\ Alive(k)' => Silent(k)'
  <1>1. cpc[k] \notin {"connect", "request"} /\ OwnKept(k) /\ (cpc[k] \in Active => Silent(k))
    BY OwnBefore DEF ClientOK
  <1>2. ~ClientConnect(k) /\ ~ClientConnectFails(k) /\ ~ClientSendHead(k) /\ ~ClientClose(k)
    BY <1>1 DEF ClientConnect, ClientConnectFails, ClientSendHead, ClientClose
  <1>3. ~ClientRecvHead(k)
    BY <1>1 DEF ClientRecvHead, Silent, HeadReady, Active
  <1>4. ~ClientRecvBody(k)
    BY <1>1, OwnBefore DEF ClientRecvBody, Silent, Active, ClientOK
  <1>5. ClientSendBody(k) \/ ClientRecvFails(k) \/ ClientKilled(k)
    BY <1>2, <1>3, <1>4 DEF ClientMoves, Clientele, ClientStep
  <1>6. UNCHANGED <<conn_i, creq, rhead, down>>
    BY <1>5
       DEF ClientSendBody, ClientWrites, ClientRecvFails, ClientKilled, ClientEndClosed
  <1>7. PICK c \in Conns : c = ConnOf(k) /\ c = ConnOf(k)'
    BY <1>6, OwnBefore DEF ConnOf
  <1>8. cl_open'[c] => Silent(k)
    <2>1. CASE ClientSendBody(k)
      BY <1>1, <2>1 DEF ClientSendBody, Active
    <2>2. CASE ClientRecvFails(k) \/ ClientKilled(k)
      BY <1>7, <2>2
         DEF ClientRecvFails, ClientKilled, ClientEndClosed, ProtocolInv, DataTypeOK,
             NetTypeOK
    <2> QED
      BY <1>5, <2>1, <2>2
  <1> QED
    BY <1>2, <1>6, <1>7, <1>8 DEF Alive, Silent

(* The heap, over a step of a client.                                       *)
LEMMA HeapClient ==
  ASSUME ProtocolInv, NEW k \in Clients, ClientMoves(k)
  PROVE  HeapInv'
  <1> SUFFICES ASSUME NEW p \in Ports PROVE HeapOK(p)'
    BY DEF HeapInv
  <1>1. UNCHANGED <<proc, spc, cur, live, job>> /\ (ClientStep(k) \/ ClientKilled(k))
    BY ClientPlaces DEF ClientMoves, Clientele, serverVars
  <1>2. ASSUME NEW j \in Clients, j # k
        PROVE  /\ creq'[j] = creq[j] /\ conn_i'[j] = conn_i[j] /\ rhead'[j] = rhead[j]
               /\ \E c \in Conns :
                    /\ c = ConnOf(j) /\ c = ConnOf(j)'
                    /\ Served(c)' <=> Served(c)
                    /\ cl_open'[c] = cl_open[c] /\ down'[c] = down[c]
    <2>1. creq'[j] = creq[j] /\ conn_i'[j] = conn_i[j] /\ rhead'[j] = rhead[j]
      BY <1>1, <1>2, ClientLocal DEF ProtocolInv
    <2>2. PICK c \in Conns : c = ConnOf(j) /\ c = ConnOf(j)'
      BY <2>1, OwnBefore DEF ConnOf
    <2>3. c # ConnOf(k)
      BY <1>2, <2>2 DEF ConnOf
    <2>4. cl_open'[c] = cl_open[c] /\ down'[c] = down[c] /\ (Served(c)' <=> Served(c))
      BY <1>1, <2>3, ClientLocal, ClientPlaces DEF ProtocolInv
    <2> QED
      BY <2>1, <2>2, <2>4
  <1>3. ASSUME NEW j \in Clients, j \in Unanswered(p)
        PROVE  j \in Unanswered(p)'
    <2>1. job[j].port = p /\ creq[j] # NoReq /\ ~Served(ConnOf(j)) /\ (Alive(j) => Silent(j))
      BY <1>3 DEF Unanswered
    <2>2. CASE j # k
      <3>1. creq'[j] = creq[j] /\ rhead'[j] = rhead[j]
        BY <1>2, <2>2
      <3>2. PICK c \in Conns :
                    /\ c = ConnOf(j) /\ c = ConnOf(j)'
                    /\ Served(c)' <=> Served(c)
                    /\ cl_open'[c] = cl_open[c] /\ down'[c] = down[c]
        BY <1>2, <2>2
      <3>3. ~Served(ConnOf(j))' /\ (Alive(j)' => Silent(j)')
        BY <2>1, <3>1, <3>2 DEF Alive, Silent
      <3> QED
        BY <1>1, <2>1, <3>1, <3>3 DEF Unanswered
    <2>3. CASE j = k
      <3>1. creq'[k] = creq[k] /\ conn_i'[k] = conn_i[k] /\ (Alive(k)' => Silent(k)') /\ ~ClientConnect(k)
        BY <2>1, <2>3, RequestStays
      <3>2. PICK c \in Conns : c = ConnOf(k) /\ c = ConnOf(k)'
        BY <3>1, OwnBefore DEF ConnOf
      <3>3. ~Served(c)'
        BY <2>1, <2>3, <3>1, <3>2, ClientPlaces
      <3> QED
        BY <1>1, <2>1, <2>3, <3>1, <3>2, <3>3 DEF Unanswered
    <2> QED
      BY <2>2, <2>3
  <1>4. Holds(p) => Holds(p)'
    <2> SUFFICES ASSUME Holds(p) PROVE Holds(p)'
      OBVIOUS
    <2>1. CASE proc = "up" /\ spc[p] = "close"
      <3>1. PICK j \in Clients :
              /\ cur[p] = ConnOf(j) /\ cur[p] \in Conns /\ creq[j] # NoReq /\ job[j].port = p
              /\ Served(ConnOf(j)) /\ (Alive(j) => Silent(j))
        BY <2>1, HolderUnanswered
      <3>2. creq'[j] = creq[j] /\ conn_i'[j] = conn_i[j]
        BY <1>2, <3>1, RequestStays
      <3>3. cur[p][1] = j /\ cur'[p] = cur[p]
        BY <1>1, <3>1 DEF ConnOf
      <3> QED
        BY <1>1, <2>1, <3>1, <3>2, <3>3 DEF Holds, ConnOf
    <2>2. CASE ~(proc = "up" /\ spc[p] = "close")
      BY <1>1, <2>2 DEF Holds
    <2> QED
      BY <2>1, <2>2
  <1>5. Unanswered(p) \subseteq Unanswered(p)'
    BY <1>3 DEF Unanswered
  <1>6. spc'[p] \in {"recv_body", "dispatch", "store_op", "unlock", "reply_head",
                     "reply_body", "free"} => live[p] > 0
    BY <1>1 DEF ProtocolInv, HeapInv, HeapOK
  <1> QED
    BY <1>1, <1>4, <1>5, <1>6, HeapKept

(* Clients the server has let go of stay without an answer.                 *)
LEMMA UnansweredStay ==
  ASSUME ProtocolInv, NEW p \in Ports,
         UNCHANGED <<job, conn_i, creq, rhead, cl_open>>,
         \A c \in Conns : ~Served(c) => ~Served(c)' /\ down'[c] = down[c]
  PROVE  Unanswered(p) \subseteq Unanswered(p)'
  <1> SUFFICES ASSUME NEW k \in Clients, k \in Unanswered(p) PROVE k \in Unanswered(p)'
    BY DEF Unanswered
  <1>1. job[k].port = p /\ creq[k] # NoReq /\ ~Served(ConnOf(k)) /\ (Alive(k) => Silent(k))
    BY DEF Unanswered
  <1>2. PICK c \in Conns : c = ConnOf(k) /\ c = ConnOf(k)'
    BY OwnBefore DEF ConnOf
  <1>3. ~Served(c)' /\ down'[c] = down[c]
    BY <1>1, <1>2
  <1>4. Alive(k)' => Silent(k)'
    BY <1>1, <1>2, <1>3 DEF Alive, Silent
  <1> QED
    BY <1>1, <1>2, <1>3, <1>4 DEF Unanswered

(* The client of a body in hand joins them when the server lets it go.      *)
LEMMA HolderLetGo ==
  ASSUME ProtocolInv, NEW p \in Ports, proc = "up", Holds(p), spc[p] \notin {"reply_body", "free"},
         UNCHANGED <<job, conn_i, creq, rhead, cl_open, down>>,
         NEW c \in Conns, c = cur[p], ~Served(c)'
  PROVE  \E k \in Unanswered(p)' : k \notin Unanswered(p)
  <1>1. PICK k \in Clients :
           /\ cur[p] = ConnOf(k) /\ cur[p] \in Conns /\ creq[k] # NoReq /\ job[k].port = p
           /\ Served(ConnOf(k)) /\ (Alive(k) => Silent(k))
    BY HolderUnanswered
  <1>2. c = ConnOf(k) /\ c = ConnOf(k)'
    BY <1>1 DEF ConnOf
  <1>3. Alive(k)' => Silent(k)'
    BY <1>1, <1>2 DEF Alive, Silent
  <1>4. k \in Unanswered(p)'
    BY <1>1, <1>2, <1>3 DEF Unanswered
  <1>5. k \notin Unanswered(p)
    BY <1>1 DEF Unanswered
  <1> QED
    BY <1>4, <1>5

(* The heap of a process that has ended is no concern any more.             *)
LEMMA HeapEnd ==
  ASSUME ProtocolInv, ServerDies \/ ServerExit, UNCHANGED clientVars
  PROVE  HeapInv'
  <1> SUFFICES ASSUME NEW p \in Ports PROVE HeapOK(p)'
    BY DEF HeapInv
  <1>1. /\ UNCHANGED <<job, conn_i, creq, rhead, cl_open, down, spc, live, cur>>
        /\ proc = "up"
    BY DEF clientVars, ServerDies, ServerExit, ServerHostClosed, netVars
  <1>2. \A c : ~Served(c)'
    BY <1>1, EndNet
  <1>3. Unanswered(p) \subseteq Unanswered(p)'
    BY <1>1, <1>2, UnansweredStay
  <1>4. Holds(p) => Holds(p)' \/ \E k \in Unanswered(p)' : k \notin Unanswered(p)
    <2>1. CASE spc[p] \in {"reply_body", "free"}
      BY <1>1, <2>1 DEF Holds
    <2>2. CASE Holds(p) /\ spc[p] \notin {"reply_body", "free"}
      <3>1. PICK c \in Conns : c = cur[p]
        BY <1>1, <2>2, HolderUnanswered
      <3> QED
        BY <1>1, <1>2, <2>2, <3>1, HolderLetGo
    <2> QED
      BY <2>1, <2>2
  <1>5. spc'[p] \in {"recv_body", "dispatch", "store_op", "unlock", "reply_head",
                     "reply_body", "free"} => live[p] > 0
    BY <1>1 DEF ProtocolInv, HeapInv, HeapOK
  <1> QED
    BY <1>1, <1>3, <1>4, <1>5, HeapKept

(* The heap of the thread that takes the step.                              *)
LEMMA HeapOwn ==
  ASSUME ProtocolInv, NEW p \in Ports, Thread(p), ~ServerSigpipe(p),
         Unanswered(p) \subseteq Unanswered(p)'
  PROVE  HeapOK(p)'
  <1>1. /\ UNCHANGED <<proc, job, conn_i, creq, rhead, cl_open>>
        /\ HeapOK(p) /\ live \in [Ports -> Nat] /\ spc \in [Ports -> ServerPC]
    BY ThreadLocal DEF ProtocolInv, HeapInv, DataTypeOK, ServerTypeOK
  <1>2. proc = "up" /\ proc' = "up"
    BY <1>1 DEF Thread, ServerStep, ServerListen, ServerOpenLog, ServerAccept,
     ServerRecvHead, ServerBadMark, ServerRecvBody, ServerRecvFails,
     ServerDispatchReply, ServerDispatchStore, ServerDispatchUnknown,
     ServerAcquire, ServerStoreOp, ServerStoreRace, ServerUnlock, ServerReplyHead,
     ServerReplyBody, ServerFree, ServerClose, ServerStop, Goto
  <1>3. CASE \/ ServerListen(p) \/ ServerOpenLog(p) \/ ServerAccept(p) \/ ServerBadMark(p)
             \/ ServerStop(p)
    <2>1. /\ live'[p] = live[p]
          /\ spc[p] \in {"start", "open_log", "accept", "recv_head", "stop"}
          /\ spc'[p] \in {"open_log", "accept", "recv_head", "close", "ended"}
      BY <1>1, <1>3
         DEF ServerListen, ServerOpenLog, ServerAccept, ServerBadMark, ServerStop, Goto
    <2>2. ~Holds(p)
      BY <2>1 DEF Holds
    <2> QED
      BY <2>1, <2>2, HeapKept
  <1>4. CASE \/ ServerRecvBody(p) \/ ServerDispatchReply(p) \/ ServerDispatchStore(p)
             \/ ServerAcquire(p) \/ ServerStoreOp(p) \/ ServerStoreRace(p) \/ ServerUnlock(p)
             \/ ServerReplyHead(p) \/ ServerReplyBody(p)
    <2>1. /\ live'[p] = live[p]
          /\ spc[p] \in {"recv_body", "dispatch", "store_op", "unlock", "reply_head", "reply_body"}
          /\ spc'[p] \in {"dispatch", "store_op", "unlock", "reply_head", "reply_body", "free"}
      BY <1>1, <1>4
         DEF ServerRecvBody, ServerDispatchReply, ServerDispatchStore, ServerAcquire,
             ServerStoreOp, ServerStoreRace, ServerUnlock, ServerReplyHead,
             ServerReplyBody, Goto
    <2>2. Holds(p)' /\ live[p] > 0
      BY <1>1, <1>2, <2>1 DEF Holds, HeapOK
    <2> QED
      BY <2>1, <2>2, HeapKept
  <1>5. CASE ServerDispatchUnknown(p) \/ ServerRecvFails(p)
    <2>1. /\ live'[p] = live[p] /\ cur'[p] = cur[p]
          /\ spc[p] \in {"recv_head", "recv_body", "dispatch"} /\ spc'[p] = "close"
      BY <1>1, <1>5 DEF ServerDispatchUnknown, ServerRecvFails, Goto
    <2>2. Holds(p) => Holds(p)'
      <3> SUFFICES ASSUME Holds(p) PROVE Holds(p)'
        OBVIOUS
      <3>1. PICK k \in Clients :
               /\ cur[p] = ConnOf(k) /\ cur[p] \in Conns /\ creq[k] # NoReq /\ job[k].port = p
               /\ Served(ConnOf(k)) /\ (Alive(k) => Silent(k))
        BY <1>2, <2>1, HolderUnanswered
      <3>2. cur[p][1] = k
        BY <3>1 DEF ConnOf
      <3> QED
        BY <1>1, <1>2, <2>1, <3>1, <3>2 DEF Holds, ConnOf
    <2> QED
      BY <2>1, <2>2, HeapKept
  <1> DEFINE u == Cardinality(Unanswered(p))
             v == Cardinality(Unanswered(p)')
  <1>6. /\ u \in Nat /\ v \in Nat /\ u <= v
        /\ live[p] <= u + IF Holds(p) THEN 1 ELSE 0
        /\ live[p] \in Nat
    <2>1. Unanswered(p)' \subseteq Clients
      BY DEF Unanswered
    <2> QED
      BY <1>1, <2>1, ClientsCounted DEF HeapOK
  <1> HIDE DEF u, v
  <1>7. CASE ServerRecvHead(p)
    <2>1. live'[p] = live[p] + 1 /\ spc[p] = "recv_head" /\ spc'[p] = "recv_body"
      BY <1>1, <1>7 DEF ServerRecvHead, Goto
    <2>2. ~Holds(p) /\ Holds(p)'
      BY <1>2, <2>1 DEF Holds
    <2>3. live'[p] > 0 /\ live'[p] <= v + 1
      BY <1>6, <2>1, <2>2
    <2> QED
      BY <2>2, <2>3 DEF HeapOK, v
  <1>8. CASE ServerFree(p)
    <2>1. live'[p] = live[p] - 1 /\ spc[p] = "free" /\ spc'[p] \in {"recv_head", "close_quit"}
      BY <1>1, <1>8 DEF ServerFree, Goto
    <2>2. Holds(p) /\ ~Holds(p)'
      BY <1>2, <2>1 DEF Holds
    <2>3. live'[p] <= v
      BY <1>6, <2>1, <2>2
    <2> QED
      BY <1>6, <2>1, <2>2, <2>3 DEF HeapOK, v
  <1>9. CASE ServerClose(p)
    <2>1. /\ live'[p] = live[p] /\ UNCHANGED down
          /\ spc[p] \in {"close", "close_quit"} /\ spc'[p] \in {"accept", "stop"}
      BY <1>1, <1>9 DEF ServerClose, ServerEndClosed, Goto
    <2>2. PICK c \in Conns : c = cur[p] /\ ~Served(c)'
      BY <1>1, <1>9, CloseNet
    <2>3. Holds(p) => \E k \in Unanswered(p)' : k \notin Unanswered(p)
      BY <1>1, <1>2, <2>1, <2>2, HolderLetGo
    <2> QED
      BY <2>1, <2>3, HeapKept
  <1> QED
    BY <1>3, <1>4, <1>5, <1>7, <1>8, <1>9 DEF Thread, ServerStep

(* The heaps, over a step of a thread.                                      *)
LEMMA HeapThread ==
  ASSUME ProtocolInv, NEW p \in Ports, Thread(p)
  PROVE  HeapInv'
  <1>1. CASE ServerSigpipe(p)
    BY <1>1, HeapEnd DEF ServerSigpipe, Thread
  <1>2. CASE ~ServerSigpipe(p)
    <2> SUFFICES ASSUME NEW q \in Ports PROVE HeapOK(q)'
      BY DEF HeapInv
    <2>1. /\ UNCHANGED <<proc, job, conn_i, creq, rhead, cl_open>>
          /\ q # p => spc'[q] = spc[q] /\ cur'[q] = cur[q] /\ live'[q] = live[q]
      BY <1>2, ThreadLocal
    <2>2. \A c \in Conns : ~Served(c) => ~Served(c)' /\ down'[c] = down[c]
      BY ThreadPlaces, ThreadStreams
    <2>3. Unanswered(q) \subseteq Unanswered(q)'
      BY <2>1, <2>2, UnansweredStay
    <2>4. CASE q = p
      BY <1>2, <2>3, <2>4, HeapOwn
    <2>5. CASE q # p
      <3>1. Holds(q)' = Holds(q)
        BY <2>1, <2>5 DEF Holds, ConnOf
      <3>2. HeapOK(q)
        BY DEF ProtocolInv, HeapInv
      <3>3. spc'[q] \in {"recv_body", "dispatch", "store_op", "unlock", "reply_head",
                         "reply_body", "free"} => live[q] > 0
        BY <2>1, <2>5, <3>2 DEF HeapOK
      <3> QED
        BY <2>1, <2>3, <2>5, <3>1, <3>3, HeapKept
    <2> QED
      BY <2>4, <2>5
  <1> QED
    BY <1>1, <1>2

(* The heaps stay within bounds.                                            *)
LEMMA HeapStep ==
  ASSUME ProtocolInv, [Next]_vars
  PROVE  HeapInv'
  <1>1. ASSUME NEW k \in Clients, ClientMoves(k)
        PROVE  HeapInv'
    BY <1>1, HeapClient
  <1>2. CASE Main
    BY <1>2, HeapEnd DEF Main
  <1>3. ASSUME NEW p \in Ports, ServerListenFails(p), UNCHANGED clientVars
        PROVE  HeapInv'
    <2> SUFFICES ASSUME NEW q \in Ports PROVE HeapOK(q)'
      BY DEF HeapInv
    <2>1. /\ UNCHANGED <<proc, job, conn_i, creq, rhead, cl_open, down, cur, live>>
          /\ spc'[q] = spc[q] \/ (spc[q] = "start" /\ spc'[q] = "ended")
      BY <1>3
         DEF ServerListenFails, netVars, clientVars, Goto, ProtocolInv, DataTypeOK,
             ServerTypeOK
    <2>2. \A c \in Conns : Served(c)' <=> Served(c)
      BY <1>3, <2>1, ListenNet
    <2>3. Unanswered(q) \subseteq Unanswered(q)'
      BY <2>1, <2>2, UnansweredStay
    <2>4. Holds(q) => Holds(q)'
      BY <2>1 DEF Holds, ConnOf
    <2>5. HeapOK(q)
      BY DEF ProtocolInv, HeapInv
    <2> QED
      BY <2>1, <2>3, <2>4, <2>5, HeapKept DEF HeapOK
  <1>4. CASE Fault
    <2>1. \/ \E k \in Clients : ClientMoves(k)
          \/ \E p \in Ports : ServerListenFails(p) /\ UNCHANGED clientVars
          \/ ServerDies /\ UNCHANGED clientVars
      BY <1>4 DEF Fault, ClientMoves, ServerFault, ServerOpenLogFails
    <2> QED
      BY <1>1, <1>3, <2>1, HeapEnd
  <1>5. CASE UNCHANGED vars
    <2> SUFFICES ASSUME NEW q \in Ports PROVE HeapOK(q)'
      BY DEF HeapInv
    <2>1. UNCHANGED <<proc, job, conn_i, creq, rhead, cl_open, down, cur, live, spc, queue>>
      BY <1>5 DEF vars, netVars, clientVars, serverVars
    <2>2. \A c \in Conns : Served(c)' <=> Served(c)
      BY <2>1, WhereKept
    <2>3. Unanswered(q) \subseteq Unanswered(q)'
      BY <2>1, <2>2, UnansweredStay
    <2>4. Holds(q) => Holds(q)'
      BY <2>1 DEF Holds, ConnOf
    <2>5. HeapOK(q)
      BY DEF ProtocolInv, HeapInv
    <2> QED
      BY <2>1, <2>3, <2>4, <2>5, HeapKept DEF HeapOK
  <1>6. \A k \in Clients : Clientele(k) => ClientMoves(k)
    BY DEF ClientMoves
  <1> QED
    BY <1>1, <1>2, <1>4, <1>5, <1>6, HeapThread DEF Next, Quiet

-----------------------------------------------------------------------------
(* The service uses the lock as the lock is specified *)

(* KeyService implements SpinLock: whatever the connections and requests,   *)
(* the threads of the server take the lock as the lock's own specification  *)
(* says, so what is proved of the lock holds in the server.                 *)
THEOREM ImplementsLock == Spec => LockSpec
<1>1. Init => LockInit
  BY DEF Init, ServerInit
<1>2. [Next]_vars => [LockNext]_lockVars
  BY ServiceLockStep
<1> QED
  BY <1>1, <1>2, PTL DEF Spec, LockSpec

-----------------------------------------------------------------------------
(* A race on the key store takes a forced grab *)

(* The count of forced stores never goes down.                              *)
LEMMA GrabsGrow ==
  ASSUME LockTypeOK, [LockNext]_lockVars
  PROVE  grabs' \in Nat /\ grabs' >= grabs
BY DEF LockTypeOK, LockNext, lockVars, SectionsDone, AcquireStep, WaitStep,
       Construct, SpinBusy, SpinFree, Grab, TestAndSetWon, TestAndSetLost,
       HistLoad, HistStore, Destruct

(* Two threads at the map are two threads past the lock.                    *)
LEMMA RaceBreaksExclusion ==
  ASSUME LockTypeOK, NEW p \in Ports, ServerStoreRace(p)
  PROVE  ~MutualExclusion
<1>1. PICK u \in Threads \ {p} : lpc[u] = "in"
  BY DEF ServerStoreRace, Contended
<1>2. p \in Threads /\ lpc[p] = "in"
  BY ThreadPerPort DEF ServerStoreRace
<1> QED
  BY <1>1, <1>2 DEF MutualExclusion, Holders

(* Only ServerStoreRace sets the flag.                                      *)
LEMMA RacedOnlyByRace ==
  ASSUME [Next]_vars, \A p \in Ports : ~ServerStoreRace(p)
  PROVE  raced' = raced
<1>1. ASSUME NEW p \in Ports, ServerStep(p)
      PROVE  raced' = raced
  BY <1>1 DEF ServerStep, ServerListen, ServerOpenLog, ServerAccept,
     ServerRecvHead, ServerBadMark, ServerRecvBody, ServerRecvFails,
     ServerDispatchReply, ServerDispatchStore, ServerDispatchUnknown,
     ServerAcquire, ServerStoreOp, ServerUnlock, ServerReplyHead,
     ServerReplyBody, ServerSigpipe, ServerDies, ServerFree, ServerClose,
     ServerStop
<1>2. ASSUME NEW k \in Clients, Clientele(k)
      PROVE  raced' = raced
  BY <1>2 DEF Clientele, serverVars
<1>3. CASE Main
  BY <1>3 DEF Main, ServerExit
<1>4. CASE Fault
  BY <1>4 DEF Fault, ServerFault, ServerListenFails, ServerOpenLogFails,
              ServerDies, serverVars
<1>5. CASE UNCHANGED vars
  BY <1>5 DEF vars, serverVars
<1> QED
  BY <1>1, <1>2, <1>3, <1>4, <1>5 DEF Next, Thread, Quiet

(* Whatever the ports, clients and requests: two threads are at the         *)
(* unordered_map of server.cc at once only if the safety valve of           *)
(* AcquireSpinlock has cleared the lock by force before.                    *)
THEOREM RaceNeedsGrabCorrect == Spec => []RaceNeedsGrab
<1>1. Init => RaceNeedsGrab
  BY DEF Init, ServerInit, RaceNeedsGrab
<1>2. LockTypeOK /\ (grabs = 0 => MutualExclusion) /\ RaceNeedsGrab
        /\ [Next]_vars => RaceNeedsGrab'
  <2> SUFFICES ASSUME LockTypeOK, grabs = 0 => MutualExclusion, RaceNeedsGrab,
                      [Next]_vars
               PROVE  RaceNeedsGrab'
    OBVIOUS
  <2>1. grabs' \in Nat /\ grabs' >= grabs /\ grabs \in Nat
    BY ServiceLockStep, GrabsGrow DEF LockTypeOK
  <2>2. CASE \E p \in Ports : ServerStoreRace(p)
    <3>1. grabs # 0
      BY <2>2, RaceBreaksExclusion
    <3> QED
      BY <2>1, <3>1 DEF RaceNeedsGrab
  <2>3. CASE \A p \in Ports : ~ServerStoreRace(p)
    <3>1. raced' = raced
      BY <2>3, RacedOnlyByRace
    <3>2. grabs > 0 => grabs' > 0
      BY <2>1
    <3> QED
      BY <3>1, <3>2, Zenon DEF RaceNeedsGrab
  <2> QED
    BY <2>2, <2>3
<1> QED
  BY <1>1, <1>2, ImplementsLock, LockTypeCorrect, MutualExclusionUntilGrab, PTL
     DEF Spec

-----------------------------------------------------------------------------
(* The protocol, and what follows from it *)

(* At the start no connection is served: nobody listens and nobody waits.   *)
LEMMA StartTyped ==
  ASSUME Init
  PROVE  DataTypeOK
  <1>1. NetTypeOK
    BY DEF Init, NetInit, NetTypeOK
  <1>2. job \in Assignments /\ ClientInit
    BY DEF Init, ClientInit
  <1>3. \A k \in Clients : job[k].conns \in 1 .. MaxConns
    BY <1>2, AssignmentsAssumption DEF CommandLines
  <1>4. 1 \in Nat /\ 0 \in Nat /\ \A k \in Clients : 1 \in 1 .. MaxConns /\ 1 <= job[k].conns
    BY <1>3, ConnsAssumption
  <1>5. conn_i \in [Clients -> 1 .. MaxConns] /\ \A k \in Clients : conn_i[k] <= job[k].conns
    BY <1>2, <1>4 DEF ClientInit
  <1>6. ClientTypeOK
    BY <1>2, <1>5 DEF ClientInit, ClientTypeOK, ClientPC
  <1>7. LockTypeOK
    BY LimitAssumption, HistAssumption, SectionAssumption
       DEF Init, ServerInit, LockInit, LockTypeOK, LockPC
  <1>8. ServerTypeOK
    <2>1. <<>> \in Datas /\ NoRequest \in [id : Nat, method : Methods \cup {"none"}, data_len : Nat, data : Datas]
      BY DEF NoRequest, Datas
    <2>2. ServerInit /\ "start" \in ServerPC
      BY DEF Init, ServerPC
    <2>3. /\ req \in [Ports -> [id : Nat, method : Methods \cup {"none"}, data_len : Nat, data : Datas]]
          /\ slog \in [Ports -> Seq({"Request", "Response"} \X Clients \X Nat \X (Methods \cup {"none"}))]
      BY <2>1, <2>2 DEF ServerInit
    <2>4. /\ proc \in {"up", "exited", "died"}
          /\ spc \in [Ports -> ServerPC]
          /\ cur \in [Ports -> Conns \cup {NoConn}]
          /\ res \in [Ports -> Responses \cup {NoRes}]
      BY <2>2 DEF ServerInit
    <2>5. /\ live \in [Ports -> Nat] /\ raced \in BOOLEAN
          /\ keystore \in [Keys -> Vals \cup {NoVal}]
      BY <2>2 DEF ServerInit
    <2> QED
      BY <2>3, <2>4, <2>5 DEF ServerTypeOK
  <1>9. faults \in 0 .. MaxFaults /\ performed \in [Clients -> Responses \cup {NoRes}]
    BY FaultsAssumption DEF Init
  <1> QED
    BY <1>1, <1>6, <1>7, <1>8, <1>9 DEF DataTypeOK

(* The invariant at the start, when nothing is connected and no thread      *)
(* listens.                                                                 *)
LEMMA ProtocolStart ==
  ASSUME Init
  PROVE  ProtocolInv
  <1>1. DataTypeOK
    BY StartTyped
  <1>2. /\ proc = "up" /\ reset = {} /\ faults = 0
        /\ \A p \in Ports : /\ queue[p] = <<>> /\ cur[p] = NoConn /\ spc[p] = "start" /\ res[p] = NoRes
                            /\ live[p] = 0 /\ ~listening[p]
        /\ \A c \in Conns : up[c] = <<>> /\ down[c] = <<>> /\ ~cl_open[c]
        /\ \A k \in Clients : /\ cpc[k] = "connect" /\ conn_i[k] = 1 /\ creq[k] = NoReq
                              /\ rhead[k] = Nothing /\ performed[k] = NoRes
    BY DEF Init, NetInit, ClientInit, ServerInit
  <1>3. \A p \in Ports : Waiting(p) = {}
    BY <1>2 DEF Waiting
  <1>4. ASSUME NEW c \in Conns
        PROVE  Fresh(c)
    <2>1. PortOf(c) \in Ports
      BY <1>1, JobType DEF PortOf, Conns
    <2>2. ~Served(c)
      BY <1>2, <1>3, <2>1, NoneAssumption DEF Served, Where
    <2> QED
      BY <1>2, <2>2 DEF Fresh
  <1>5. \A k \in Clients, i \in 1 .. MaxConns : <<k, i>> \in Conns
    BY DEF Conns
  <1>6. \A k \in Clients : ConnOf(k) \in Conns
    BY <1>1, <1>5 DEF ConnOf, DataTypeOK, ClientTypeOK
  <1>7. NetInv
    BY <1>2, <1>3, <1>4 DEF NetInv, QueueInv, EndsInv, Fresh, Serving
  <1>8. ClientInv
    BY <1>2, <1>6 DEF ClientInv, ClientOK, Alive, Active
  <1>9. OthersInv
    <2>1. \A k \in Clients, i \in 1 .. MaxConns : ~(i < conn_i[k]) /\ Fresh(<<k, i>>)
      <3> SUFFICES ASSUME NEW k \in Clients, NEW i \in 1 .. MaxConns
                   PROVE  ~(i < conn_i[k]) /\ Fresh(<<k, i>>)
        OBVIOUS
      <3>1. i >= 1 /\ conn_i[k] = 1
        BY <1>2, ConnsAssumption
      <3>2. Fresh(<<k, i>>)
        <4>1. PICK c \in Conns : c = <<k, i>>
          BY <1>5
        <4> QED
          BY <1>4, <4>1
      <3> QED
        BY <3>1, <3>2, ConnsAssumption
    <2> QED
      BY <2>1 DEF OthersInv
  <1>10. PhaseInv
    BY <1>4, <1>6 DEF PhaseInv, Fresh
  <1>11. CalmInv
    BY <1>2, <1>4 DEF CalmInv, Fresh
  <1>12. HeapInv
    <2> SUFFICES ASSUME NEW p \in Ports PROVE HeapOK(p)
      BY DEF HeapInv
    <2>1. Cardinality(Unanswered(p)) \in Nat
      BY ClientsCounted DEF Unanswered
    <2> QED
      BY <1>2, <2>1 DEF HeapOK
  <1> QED
    BY <1>1, <1>7, <1>8, <1>9, <1>10, <1>11, <1>12 DEF ProtocolInv

(* Whatever the ports, clients, jobs and faults: the client, the two        *)
(* streams of its connection and the thread that serves it are always in    *)
(* one of the seven phases of a request, and everything the phases rest on  *)
(* holds.                                                                   *)
THEOREM ProtocolCorrect == Spec => []ProtocolInv
  <1>1. Init => ProtocolInv
    BY ProtocolStart
  <1>2. ProtocolInv /\ [Next]_vars => ProtocolInv'
    <2> SUFFICES ASSUME ProtocolInv, [Next]_vars PROVE ProtocolInv'
      OBVIOUS
    <2>1. DataTypeOK'
      BY TypeStep
    <2>2. NetInv' /\ ClientInv' /\ PhaseInv' /\ OthersInv'
      BY ProtocolStep
    <2>3. CalmInv' /\ HeapInv'
      BY CalmStep, HeapStep
    <2> QED
      BY <2>1, <2>2, <2>3 DEF ProtocolInv
  <1> QED
    BY <1>1, <1>2, PTL DEF Spec

(* Every variable of the service keeps its type: no queue, stream, header,  *)
(* result or count of bodies ever takes a value the program has no name     *)
(* for.                                                                     *)
THEOREM TypeCorrect == Spec => []TypeOK
  <1>1. ProtocolInv => TypeOK
    BY TypesAgree DEF ProtocolInv
  <1> QED
    BY <1>1, ProtocolCorrect, PTL

(* rpc_recv_resp never takes the head of a response to another request: the *)
(* client reads id and method back without comparing them, and they are     *)
(* those it sent.                                                           *)
THEOREM AnswersOwnRequestCorrect == Spec => []AnswersOwnRequest
  <1>1. ProtocolInv => AnswersOwnRequest
    <2> SUFFICES ASSUME ProtocolInv, NEW k \in Clients, rhead[k] # Nothing
                 PROVE  creq[k] # NoReq /\ rhead[k].id = creq[k].id /\ rhead[k].method = creq[k].method
      BY DEF AnswersOwnRequest
    <2>1. ClientOK(k)
      BY DEF ProtocolInv, ClientInv
    <2>2. creq[k] # NoReq /\ rhead[k] = ResponseHead(k)
      BY <2>1 DEF ClientOK
    <2> QED
      BY <2>2 DEF ResponseHead, HeadSeg
  <1> QED
    BY <1>1, ProtocolCorrect, PTL

(* The server process dies of SIGPIPE only after a fault: no thread writes  *)
(* to a connection that was reset unless something was killed or did not    *)
(* open.                                                                    *)
THEOREM DeathNeedsFaultCorrect == Spec => []DeathNeedsFault
  <1>1. ProtocolInv => DeathNeedsFault
    BY FaultsAssumption DEF ProtocolInv, CalmInv, DataTypeOK, DeathNeedsFault
  <1> QED
    BY <1>1, ProtocolCorrect, PTL

(* The bodies a thread has allocated and not freed are at most one for each *)
(* client of its port with a request outstanding, leaked or in the thread's *)
(* hands, and the one it is sending the answer to.                          *)
THEOREM BodiesBoundedCorrect == Spec => []BodiesBounded
  <1>1. ProtocolInv => BodiesBounded
    <2> SUFFICES ASSUME ProtocolInv, NEW p \in Ports
                 PROVE  live[p] <= Cardinality({k \in Clients : job[k].port = p /\ creq[k] # NoReq})
                                   + IF spc[p] \in {"reply_body", "free"} THEN 1 ELSE 0
      BY DEF BodiesBounded
    <2> DEFINE V == {k \in Clients : job[k].port = p /\ creq[k] # NoReq}
    <2>1. HeapOK(p) /\ live[p] \in Nat
      BY DEF ProtocolInv, HeapInv, DataTypeOK, ServerTypeOK
    <2>2. V \subseteq Clients /\ Unanswered(p) \subseteq V
      BY DEF Unanswered
    <2>3. /\ Cardinality(Unanswered(p)) \in Nat /\ Cardinality(V) \in Nat
          /\ Cardinality(Unanswered(p)) <= Cardinality(V)
          /\ (\E k \in V : k \notin Unanswered(p)) => Cardinality(Unanswered(p)) + 1 <= Cardinality(V)
      BY <2>2, ClientsCounted
    <2>4. Holds(p) /\ spc[p] \notin {"reply_body", "free"} => \E k \in V : k \notin Unanswered(p)
      <3> SUFFICES ASSUME Holds(p), spc[p] \notin {"reply_body", "free"}
                   PROVE  \E k \in V : k \notin Unanswered(p)
        OBVIOUS
      <3>1. proc = "up"
        BY DEF Holds
      <3> QED
        BY <3>1, HolderUnanswered DEF Unanswered
    <2> HIDE DEF V
    <2>5. live[p] <= Cardinality(Unanswered(p)) + IF Holds(p) THEN 1 ELSE 0
      BY <2>1 DEF HeapOK
    <2>6. live[p] <= Cardinality(V) + IF spc[p] \in {"reply_body", "free"} THEN 1 ELSE 0
      <3>1. CASE spc[p] \in {"reply_body", "free"}
        BY <2>1, <2>3, <2>5, <3>1 DEF Holds
      <3>2. CASE spc[p] \notin {"reply_body", "free"} /\ Holds(p)
        BY <2>1, <2>3, <2>4, <2>5, <3>2
      <3>3. CASE spc[p] \notin {"reply_body", "free"} /\ ~Holds(p)
        BY <2>1, <2>3, <2>5, <3>3
      <3> QED
        BY <3>1, <3>2, <3>3
    <2> QED
      BY <2>6 DEF V
  <1> QED
    BY <1>1, ProtocolCorrect, PTL

(* What is left of a message on a stream of which no more can be taken.     *)
LEMMA StuckTail ==
  ASSUME NEW data \in Datas, NEW tail \in Tails(data), Written(data, tail),
         ~BodyReady(tail, Len(data))
  PROVE  tail = <<Part>>
  <1>1. data # <<>>
    BY DEF BodyReady, Datas
  <1>2. tail = <<BodySeg(data)>> \/ tail = <<Part>>
    BY <1>1 DEF Tails, Written
  <1> QED
    BY <1>2 DEF BodyReady, BodySeg

(* Client and thread wait for each other for ever only after a write() that *)
(* stored a part of its bytes: a whole request is always taken and a whole  *)
(* response always arrives.                                                 *)
THEOREM WaitNeedsShortWriteCorrect == Spec => []WaitNeedsShortWrite
  <1>1. ProtocolInv => WaitNeedsShortWrite
    <2> SUFFICES ASSUME ProtocolInv, NEW k \in Clients, NEW p \in Ports, Deadlocked(k, p)
                 PROVE  \E n \in DOMAIN (up[ConnOf(k)] \o down[ConnOf(k)]) :
                          (up[ConnOf(k)] \o down[ConnOf(k)])[n] = Part
      BY DEF WaitNeedsShortWrite
    <2> DEFINE c == ConnOf(k)
    <2>1. /\ ConnOf(k) \in Conns /\ PortOf(ConnOf(k)) = job[k].port
          /\ OwnKept(k) /\ ClientOK(k)
          /\ creq[k] # NoReq => creq[k] \in Requests /\ creq[k].data \in Datas
          /\ performed[k] # NoRes => performed[k] \in Responses /\ performed[k].data \in Datas
          /\ up[c] \in Seq(Segments) /\ down[c] \in Seq(Segments)
      BY OwnBefore
    <2>2. /\ proc = "up" /\ cur[p] = c /\ Alive(k)
          /\ \/ cpc[k] = "recv_head" /\ ~HeadReady(down[c])
             \/ cpc[k] = "recv_body" /\ ~BodyReady(down[c], rhead[k].data_len)
          /\ \/ spc[p] = "recv_head" /\ ~HeadReady(up[c])
             \/ spc[p] = "recv_body" /\ ~BodyReady(up[c], req[p].data_len)
      BY DEF Deadlocked, Alive
    <2>3. job[k].port = p /\ Where(c) = spc[p] /\ Served(c)
      <3>1. c # NoConn
        BY <2>1, NoneAssumption
      <3>2. PortOf(c) = p
        BY <2>2, <3>1 DEF ProtocolInv, NetInv, QueueInv
      <3> QED
        BY <2>1, <2>2, <3>2 DEF Where, Served
    <2>4. Phase(k) /\ creq[k] # NoReq
      BY <2>1, <2>2, <2>3 DEF OwnKept, ClientOK
    <2>5. up[c] = <<Part>> \/ down[c] = <<Part>>
      <3>1. CASE spc[p] = "recv_head"
        <4>1. ~Underway(k)
          BY <2>2, <3>1, RequestTaken
        <4>2. Replied(k)
          BY <2>3, <2>4, <3>1, <4>1
             DEF Phase, Idle, HeadTaken, Handled, Replying, Refused
        <4>3. PICK tail \in Tails(performed[k].data) :
                     Answering(k, tail) /\ Written(performed[k].data, tail)
          BY <2>2, <4>2 DEF Replied
        <4>4. CASE cpc[k] = "recv_head"
          <5>1. rhead[k] = Nothing /\ down[c] = <<ResponseHead(k)>> \o tail
            <6>1. rhead[k] = Nothing
              BY <2>1, <4>4 DEF ClientOK
            <6>2. ResponseHead(k) \in Heads
              BY <2>1, <2>4, <4>2, SegTypes
                 DEF ResponseHead, Requests, Responses, Replied
            <6> QED
              BY <4>3, <6>1, <6>2, NoneAssumption DEF Answering
          <5>2. HeadReady(down[c])
            <6>1. tail = <<>> \/ \E x : tail = <<x>>
              BY <4>3 DEF Tails
            <6>2. down[c] # <<>> /\ down[c][1] = ResponseHead(k)
              BY <5>1, <6>1, ShortSequences
            <6> QED
              BY <6>2 DEF HeadReady, ResponseHead, HeadSeg
          <5> QED
            BY <2>2, <4>4, <5>2
        <4>5. CASE cpc[k] = "recv_body"
          <5>1. rhead[k] # Nothing /\ performed[k] # NoRes
            BY <2>1, <4>2, <4>5 DEF ClientOK, Replied
          <5>2. rhead[k] = ResponseHead(k) /\ down[c] = tail
            BY <4>3, <5>1 DEF Answering
          <5>3. ~BodyReady(tail, Len(performed[k].data))
            BY <2>2, <4>5, <5>2 DEF ResponseHead, HeadSeg
          <5> QED
            BY <2>1, <4>3, <5>1, <5>2, <5>3, StuckTail
        <4> QED
          BY <2>2, <4>4, <4>5
      <3>2. CASE spc[p] = "recv_body"
        <4>1. HeadTaken(k)
          BY <2>3, <2>4, <3>2
             DEF Phase, Idle, Underway, Handled, Replying, Replied, Refused, Late
        <4>2. rhead[k] = Nothing /\ cpc[k] = "recv_head"
          BY <2>1, <2>2, <4>1 DEF HeadTaken, Silent, ClientOK
        <4>3. /\ up[c] \in Tails(creq[k].data) /\ Written(creq[k].data, up[c])
              /\ req[p].data_len = Len(creq[k].data)
          BY <2>3, <4>1, <4>2 DEF HeadTaken, Requested, InHand
        <4>4. ~BodyReady(up[c], Len(creq[k].data))
          BY <2>2, <3>2, <4>3
        <4> QED
          BY <2>1, <2>4, <4>3, <4>4, StuckTail
      <3> QED
        BY <2>2, <3>1, <3>2
    <2> HIDE DEF c
    <2>6. \E n \in DOMAIN (up[c] \o down[c]) : (up[c] \o down[c])[n] = Part
      <3>1. up[c] \in Seq(Segments) /\ down[c] \in Seq(Segments)
        BY <2>1
      <3>2. CASE up[c] = <<Part>>
        <4>1. 1 \in DOMAIN (up[c] \o down[c]) /\ (up[c] \o down[c])[1] = Part
          BY <3>1, <3>2, ConcatProperties, LenProperties
        <4> QED
          BY <4>1
      <3>3. CASE down[c] = <<Part>>
        <4>1. /\ Len(up[c]) + 1 \in DOMAIN (up[c] \o down[c])
              /\ (up[c] \o down[c])[Len(up[c]) + 1] = Part
          BY <3>1, <3>3, ConcatProperties, LenProperties
        <4> QED
          BY <4>1
      <3> QED
        BY <2>5, <3>2, <3>3
    <2> QED
      BY <2>6 DEF c
  <1> QED
    BY <1>1, ProtocolCorrect, PTL

-----------------------------------------------------------------------------
(* The logs *)

\* What LogsInv says of port p, and a type for its records.
Records == {"Request", "Response"} \X Clients \X Nat \X (Methods \cup {"none"})

Pairs(p) ==
  \A n \in DOMAIN slog[p] :
    LET record == slog[p][n]
    IN  record[1] = "Response" =>
          n > 1 /\ slog[p][n - 1] = <<"Request", record[2], record[3], record[4]>>

PortLogs(p) ==
  /\ RequestLogged(p) /\ ThreadLogged(p) /\ Pairs(p)
  /\ spc[p] = "ended" => slog[p] = <<>> \/ QuitLogged(p)

(* LogsInv port by port, so that a step of one thread is a matter of one    *)
(* port.                                                                    *)
LEMMA PortLogsAll ==
  LogsInv <=> /\ \A p \in Ports : PortLogs(p)
              /\ \A k \in Clients : ResultLogged(k)
              /\ ResponseHasServerRecord
  BY DEF LogsInv, PortLogs, LogPairs, Pairs, EndsByQuit, QuitLogged

(* A log with a record more.                                                *)
LEMMA LogAppended ==
  ASSUME NEW S, NEW s \in Seq(S), NEW r \in S
  PROVE  /\ DOMAIN Append(s, r) = 1 .. Len(s) + 1 /\ Len(Append(s, r)) = Len(s) + 1
         /\ DOMAIN s = 1 .. Len(s) /\ Len(s) \in Nat
         /\ \A n \in DOMAIN s : Append(s, r)[n] = s[n] /\ n \in DOMAIN Append(s, r)
         /\ Append(s, r)[Len(s) + 1] = r /\ Append(s, r) # <<>>
         /\ s # <<>> => Len(s) >= 1
         /\ \A x : Logged(s, x) => Logged(Append(s, r), x)
         /\ Logged(Append(s, r), r)
  <1>1. /\ DOMAIN Append(s, r) = 1 .. Len(s) + 1 /\ Len(Append(s, r)) = Len(s) + 1
        /\ DOMAIN s = 1 .. Len(s) /\ Len(s) \in Nat
        /\ \A n \in DOMAIN s : Append(s, r)[n] = s[n]
        /\ Append(s, r)[Len(s) + 1] = r
    BY AppendProperties, LenProperties
  <1>2. \A n \in DOMAIN s : n \in DOMAIN Append(s, r)
    BY <1>1
  <1>3. Append(s, r) # <<>> /\ (s # <<>> => Len(s) >= 1)
    BY <1>1, EmptySeq
  <1>4. \A x : Logged(s, x) => Logged(Append(s, r), x)
    BY <1>1, <1>2 DEF Logged
  <1>5. Logged(Append(s, r), r)
    BY <1>1 DEF Logged
  <1> QED
    BY <1>1, <1>2, <1>3, <1>4, <1>5

(* The log of a port whose thread stays where it is.                        *)
LEMMA PortLogsSame ==
  ASSUME NEW p, PortLogs(p), cur'[p] = cur[p], req'[p] = req[p], slog'[p] = slog[p],
         \/ spc'[p] = spc[p]
         \/ spc[p] = "start" /\ spc'[p] \in {"open_log", "ended"}
         \/ spc[p] \in {"open_log", "recv_head", "recv_body"} /\ spc'[p] \in {"accept", "recv_body", "close"}
         \/ spc[p] \in Handling /\ spc'[p] \in Handling \cup {"free", "close"}
         \/ spc[p] = "stop" /\ spc'[p] = "ended"
  PROVE  PortLogs(p)'
  <1>1. LogRecord(p, "Request")' = LogRecord(p, "Request")
    BY DEF LogRecord
  <1>2. Pairs(p)' /\ (QuitLogged(p) <=> QuitLogged(p)')
    BY DEF PortLogs, Pairs, QuitLogged
  <1>3. RequestLogged(p)'
    BY <1>1 DEF PortLogs, RequestLogged, Handling
  <1>4. ThreadLogged(p)' /\ (spc'[p] = "ended" => slog'[p] = <<>> \/ QuitLogged(p)')
    BY <1>2 DEF PortLogs, ThreadLogged, Handling
  <1> QED
    BY <1>2, <1>3, <1>4 DEF PortLogs

(* The log of port p, over a step of its thread.                            *)
LEMMA LogsOwn ==
  ASSUME ProtocolInv, NEW p \in Ports, PortLogs(p), Thread(p), ~ServerSigpipe(p)
  PROVE  /\ PortLogs(p)'
         /\ \A x : Logged(slog[p], x) => Logged(slog'[p], x)
  <1>1. /\ slog[p] \in Seq(Records) /\ slog \in [Ports -> Seq(Records)]
        /\ spc \in [Ports -> ServerPC] /\ cur \in [Ports -> Conns \cup {NoConn}]
        /\ req \in [Ports -> [id : Nat, method : Methods \cup {"none"}, data_len : Nat, data : Datas]]
        /\ cur[p] # NoConn <=> spc[p] \in Serving
    BY DEF ProtocolInv, DataTypeOK, ServerTypeOK, Records, NetInv, QueueInv
  <1>2. spc[p] \in Serving => \A type \in {"Request", "Response"} : LogRecord(p, type) \in Records
    <2> SUFFICES ASSUME spc[p] \in Serving, NEW type \in {"Request", "Response"}
                 PROVE  LogRecord(p, type) \in Records
      OBVIOUS
    <2>1. cur[p] \in Conns /\ cur[p][1] \in Clients
      BY <1>1 DEF Conns
    <2>2. req[p].id \in Nat /\ req[p].method \in Methods \cup {"none"}
      BY <1>1
    <2> QED
      BY <2>1, <2>2 DEF LogRecord, Records
  <1>3. CASE ServerListen(p) \/ ServerOpenLog(p) \/ ServerBadMark(p) \/ ServerRecvFails(p) \/ ServerStop(p)
    <2>1. cur'[p] = cur[p] /\ req'[p] = req[p] /\ slog'[p] = slog[p]
      BY <1>3
         DEF ServerListen, ServerOpenLog, ServerBadMark, ServerRecvFails, ServerStop
    <2>2. \/ spc[p] = "start" /\ spc'[p] \in {"open_log", "ended"}
          \/ spc[p] \in {"open_log", "recv_head", "recv_body"} /\ spc'[p] \in {"accept", "recv_body", "close"}
          \/ spc[p] = "stop" /\ spc'[p] = "ended"
      BY <1>1, <1>3
         DEF ServerListen, ServerOpenLog, ServerBadMark, ServerRecvFails, ServerStop,
             Goto
    <2> QED
      BY <2>1, <2>2, PortLogsSame
  <1>4. CASE ServerDispatchReply(p) \/ ServerDispatchStore(p) \/ ServerDispatchUnknown(p)
             \/ ServerAcquire(p) \/ ServerStoreOp(p) \/ ServerStoreRace(p) \/ ServerUnlock(p)
             \/ ServerReplyHead(p)
    <2>1. cur'[p] = cur[p] /\ req'[p] = req[p] /\ slog'[p] = slog[p]
      BY <1>4
         DEF ServerDispatchReply, ServerDispatchStore, ServerDispatchUnknown,
             ServerAcquire, ServerStoreOp, ServerStoreRace, ServerUnlock,
             ServerReplyHead
    <2>2. spc[p] \in Handling /\ spc'[p] \in Handling \cup {"free", "close"}
      BY <1>1, <1>4
         DEF ServerDispatchReply, ServerDispatchStore, ServerDispatchUnknown,
             ServerAcquire, ServerStoreOp, ServerStoreRace, ServerUnlock,
             ServerReplyHead, Goto, Handling
    <2> QED
      BY <2>1, <2>2, PortLogsSame
  <1>5. CASE ServerAccept(p) \/ ServerRecvHead(p) \/ ServerFree(p) \/ ServerClose(p)
    <2>1. slog'[p] = slog[p]
      BY <1>5 DEF ServerAccept, ServerRecvHead, ServerFree, ServerClose
    <2>2. \/ spc'[p] \in {"recv_head", "recv_body", "accept"}
          \/ spc[p] = "free" /\ spc'[p] = "close_quit" /\ req[p].method = "quit"
          \/ spc[p] = "close_quit" /\ spc'[p] = "stop"
      BY <1>1, <1>5 DEF ServerAccept, ServerRecvHead, ServerFree, ServerClose, Goto
    <2>3. Pairs(p)' /\ (QuitLogged(p) <=> QuitLogged(p)')
      BY <2>1 DEF PortLogs, Pairs, QuitLogged
    <2>4. RequestLogged(p)'
      BY <2>2 DEF RequestLogged, Handling
    <2>5. spc[p] = "free" /\ req[p].method = "quit" => QuitLogged(p)
      BY DEF PortLogs, RequestLogged, Logged, LogRecord, QuitLogged
    <2>6. ThreadLogged(p)' /\ spc'[p] # "ended"
      BY <2>2, <2>3, <2>5 DEF ThreadLogged, PortLogs
    <2> QED
      BY <2>1, <2>3, <2>4, <2>6 DEF PortLogs
  <1>6. CASE ServerRecvBody(p)
    <2>1. /\ spc[p] = "recv_body" /\ spc'[p] = "dispatch" /\ cur'[p] = cur[p]
          /\ req'[p].id = req[p].id /\ req'[p].method = req[p].method
          /\ slog'[p] = Append(slog[p], LogRecord(p, "Request"))
      BY <1>1, <1>6 DEF ServerRecvBody, Goto
    <2>2. PICK r \in Records : r = LogRecord(p, "Request")
      BY <1>2, <2>1 DEF Serving
    <2>3. LogRecord(p, "Request")' = r
      BY <2>1, <2>2 DEF LogRecord
    <2>4. /\ slog'[p] # <<>> /\ slog'[p][Len(slog'[p])] = r /\ Logged(slog'[p], r)
          /\ \A x : Logged(slog[p], x) => Logged(slog'[p], x)
          /\ \A n \in DOMAIN slog'[p] : n \in DOMAIN slog[p] \/ slog'[p][n] = r
          /\ \A n \in DOMAIN slog[p] : /\ slog'[p][n] = slog[p][n]
                                       /\ n > 1 => slog'[p][n - 1] = slog[p][n - 1]
      BY <1>1, <2>1, <2>2, LogAppended
    <2>5. RequestLogged(p)'
      BY <2>3, <2>4 DEF RequestLogged
    <2>6. Pairs(p)'
      <3> SUFFICES ASSUME NEW n \in DOMAIN slog'[p], slog'[p][n][1] = "Response"
                   PROVE  n > 1 /\ slog'[p][n - 1] = <<"Request", slog'[p][n][2], slog'[p][n][3], slog'[p][n][4]>>
        BY DEF Pairs
      <3>1. n \in DOMAIN slog[p]
        BY <2>2, <2>4 DEF LogRecord
      <3> QED
        BY <2>4, <3>1 DEF PortLogs, Pairs
    <2>7. ThreadLogged(p)' /\ spc'[p] # "ended"
      BY <2>1 DEF ThreadLogged
    <2> QED
      BY <2>4, <2>5, <2>6, <2>7 DEF PortLogs
  <1>7. CASE ServerReplyBody(p)
    <2>1. /\ spc[p] = "reply_body" /\ spc'[p] = "free" /\ cur'[p] = cur[p] /\ req'[p] = req[p]
          /\ slog'[p] = slog[p] \/ slog'[p] = Append(slog[p], LogRecord(p, "Response"))
      BY <1>1, <1>7 DEF ServerReplyBody, Goto
    <2>2. CASE slog'[p] = slog[p]
      BY <2>1, <2>2, PortLogsSame DEF Handling
    <2>3. CASE slog'[p] = Append(slog[p], LogRecord(p, "Response"))
      <3>1. PICK r \in Records : r = LogRecord(p, "Response")
        BY <1>2, <2>1 DEF Serving
      <3>2. /\ slog[p] # <<>> /\ Logged(slog[p], LogRecord(p, "Request"))
            /\ slog[p][Len(slog[p])] = <<"Request", r[2], r[3], r[4]>>
        BY <2>1, <3>1 DEF PortLogs, RequestLogged, Handling, LogRecord
      <3>3. /\ \A x : Logged(slog[p], x) => Logged(slog'[p], x)
            /\ \A n \in DOMAIN slog'[p] : \/ n \in DOMAIN slog[p]
                                          \/ slog'[p][n] = r /\ n > 1 /\ slog'[p][n - 1] = slog[p][Len(slog[p])]
            /\ \A n \in DOMAIN slog[p] : /\ slog'[p][n] = slog[p][n]
                                         /\ n > 1 => slog'[p][n - 1] = slog[p][n - 1]
        BY <1>1, <2>3, <3>1, <3>2, LogAppended
      <3>4. RequestLogged(p)'
        <4>1. LogRecord(p, "Request")' = LogRecord(p, "Request")
          BY <2>1 DEF LogRecord
        <4> QED
          BY <2>1, <3>2, <3>3, <4>1 DEF RequestLogged, Handling
      <3>5. Pairs(p)'
        <4> SUFFICES ASSUME NEW n \in DOMAIN slog'[p], slog'[p][n][1] = "Response"
                     PROVE  n > 1 /\ slog'[p][n - 1] = <<"Request", slog'[p][n][2], slog'[p][n][3], slog'[p][n][4]>>
          BY DEF Pairs
        <4>1. CASE n \in DOMAIN slog[p]
          BY <3>3, <4>1 DEF PortLogs, Pairs
        <4>2. CASE n \notin DOMAIN slog[p]
          BY <3>2, <3>3, <4>2
        <4> QED
          BY <4>1, <4>2
      <3>6. ThreadLogged(p)' /\ spc'[p] # "ended"
        BY <2>1 DEF ThreadLogged
      <3> QED
        BY <3>3, <3>4, <3>5, <3>6 DEF PortLogs
    <2> QED
      BY <2>1, <2>2, <2>3
  <1> QED
    BY <1>3, <1>4, <1>5, <1>6, <1>7 DEF Thread, ServerStep

\* What a step keeps of the logs.
LogsKept ==
  \A p \in Ports : /\ PortLogs(p)'
                   /\ \A x : Logged(slog[p], x) => Logged(slog'[p], x)

(* Only a thread writes to the logs of the server.                          *)
LEMMA LogsOthers ==
  ASSUME \A p \in Ports : PortLogs(p),
         UNCHANGED <<cur, req, slog>>,
         \A p \in Ports : spc'[p] = spc[p] \/ (spc[p] = "start" /\ spc'[p] = "ended")
  PROVE  LogsKept
  BY PortLogsSame DEF LogsKept

(* The same after a step.                                                   *)
LEMMA PortLogsNext ==
  ASSUME \A p \in Ports : PortLogs(p)', \A k \in Clients : ResultLogged(k)',
         ResponseHasServerRecord'
  PROVE  LogsInv'
  BY DEF LogsInv, PortLogs, LogPairs, Pairs, EndsByQuit, QuitLogged

(* A step of a thread keeps what is in every log, and the form of its own.  *)
LEMMA LogsThread ==
  ASSUME ProtocolInv, \A p \in Ports : PortLogs(p), NEW p \in Ports, Thread(p)
  PROVE  LogsKept
  <1>1. CASE ServerSigpipe(p)
    BY <1>1, LogsOthers DEF ServerSigpipe, ServerDies
  <1>2. CASE ~ServerSigpipe(p)
    <2> SUFFICES ASSUME NEW q \in Ports
                 PROVE  PortLogs(q)' /\ \A x : Logged(slog[q], x) => Logged(slog'[q], x)
      BY DEF LogsKept
    <2>1. CASE q = p
      BY <1>2, <2>1, LogsOwn
    <2>2. CASE q # p
      BY <1>2, <2>2, ThreadLocal, PortLogsSame
    <2> QED
      BY <2>1, <2>2
  <1> QED
    BY <1>1, <1>2

(* A result is of a request on record, and what a client logs as answered   *)
(* has had a result.                                                        *)
LEMMA ResultsLogged ==
  ASSUME LogsKept, UNCHANGED <<job, creq>>,
         \A k \in Clients : performed'[k] # performed[k] =>
           creq[k] # NoReq /\ Logged(LogOf(k), <<"Request", k, creq[k].id, creq[k].method>>),
         DataTypeOK, \A k \in Clients : ResultLogged(k)
  PROVE  \A k \in Clients : ResultLogged(k)'
  <1> SUFFICES ASSUME NEW k \in Clients, performed'[k] # NoRes
               PROVE  /\ creq'[k] # NoReq
                      /\ Logged(slog'[job'[k].port], <<"Request", k, creq'[k].id, creq'[k].method>>)
    BY DEF ResultLogged, LogOf
  <1>1. creq[k] # NoReq /\ Logged(LogOf(k), <<"Request", k, creq[k].id, creq[k].method>>)
    BY DEF ResultLogged
  <1>2. job[k].port \in Ports
    BY JobType
  <1> QED
    BY <1>1, <1>2 DEF LogsKept, LogOf

(* What the clients have on record as answered stays on record at the       *)
(* server.                                                                  *)
LEMMA RecordsKept ==
  ASSUME LogsKept, UNCHANGED <<job, clog>>, DataTypeOK, ResponseHasServerRecord
  PROVE  ResponseHasServerRecord'
  <1> SUFFICES ASSUME NEW k \in Clients, NEW n \in DOMAIN clog'[k], clog'[k][n][1] = "Response"
               PROVE  Logged(slog'[job'[k].port], <<"Request", k, clog'[k][n][2], job'[k].method>>)
    BY DEF ResponseHasServerRecord, LogOf
  <1>1. Logged(LogOf(k), <<"Request", k, clog[k][n][2], job[k].method>>)
    BY DEF ResponseHasServerRecord
  <1>2. job[k].port \in Ports
    BY JobType
  <1> QED
    BY <1>1, <1>2 DEF LogsKept, LogOf

(* A thread keeps LogsInv: it computes results only for the request at the  *)
(* end of its log.                                                          *)
LEMMA ThreadLogsStep ==
  ASSUME ProtocolInv, LogsInv, NEW p \in Ports, Thread(p)
  PROVE  LogsInv'
  <1>1. LogsKept /\ \A q \in Ports : PortLogs(q)
    BY PortLogsAll, LogsThread
  <1>2. UNCHANGED <<job, creq, clog>> /\ DataTypeOK
    BY DEF Thread, clientVars, ProtocolInv
  <1>3. ASSUME NEW k \in Clients, performed'[k] # performed[k]
        PROVE  creq[k] # NoReq /\ Logged(LogOf(k), <<"Request", k, creq[k].id, creq[k].method>>)
    <2>1. /\ cur[p] = ConnOf(k) /\ Handled(k) /\ job[k].port = p
          /\ spc[p] \in {"dispatch", "store_op"}
      BY <1>3, ThreadPerforms
    <2>2. creq[k] # NoReq /\ req[p].id = creq[k].id /\ req[p].method = creq[k].method /\ cur[p][1] = k
      BY <2>1 DEF Handled, InHand, ConnOf
    <2>3. LogRecord(p, "Request") = <<"Request", k, creq[k].id, creq[k].method>>
      BY <2>2 DEF LogRecord
    <2>4. Logged(slog[p], LogRecord(p, "Request"))
      BY <1>1, <2>1 DEF PortLogs, RequestLogged, Handling
    <2> QED
      BY <2>1, <2>2, <2>3, <2>4 DEF LogOf
  <1>4. \A k \in Clients : ResultLogged(k)'
    BY <1>1, <1>2, <1>3, PortLogsAll, ResultsLogged
  <1>5. ResponseHasServerRecord'
    BY <1>1, <1>2, PortLogsAll, RecordsKept
  <1>6. \A q \in Ports : PortLogs(q)'
    BY <1>1 DEF LogsKept
  <1> QED
    BY <1>4, <1>5, <1>6, PortLogsNext

(* A client logs a response to the request it made, which has a result.     *)
LEMMA ClientLogs ==
  ASSUME ProtocolInv, LogsInv, NEW k \in Clients, Clientele(k)
  PROVE  \A n \in DOMAIN clog'[k] : clog'[k][n][1] = "Response" =>
           Logged(LogOf(k), <<"Request", k, clog'[k][n][2], job[k].method>>)
  <1>1. /\ clog[k] \in Seq({"Request", "Response"} \X Nat) /\ clog \in [Clients -> Seq({"Request", "Response"} \X Nat)]
        /\ \A n \in DOMAIN clog[k] : clog[k][n][1] = "Response" =>
             Logged(LogOf(k), <<"Request", k, clog[k][n][2], job[k].method>>)
    BY DEF ProtocolInv, DataTypeOK, ClientTypeOK, LogsInv, ResponseHasServerRecord
  <1>2. CASE clog' = clog
    BY <1>1, <1>2
  <1>3. ASSUME NEW r \in {"Request", "Response"} \X Nat, clog'[k] = Append(clog[k], r),
               r[1] = "Response" => Logged(LogOf(k), <<"Request", k, r[2], job[k].method>>)
        PROVE  \A n \in DOMAIN clog'[k] : clog'[k][n][1] = "Response" =>
                 Logged(LogOf(k), <<"Request", k, clog'[k][n][2], job[k].method>>)
    <2>1. \A n \in DOMAIN clog'[k] : \/ clog'[k][n] = r
                                     \/ n \in DOMAIN clog[k] /\ clog'[k][n] = clog[k][n]
      BY <1>1, <1>3, LogAppended
    <2> QED
      BY <1>1, <1>3, <2>1
  <1>4. CASE ClientSendBody(k)
    <2>1. creq[k] \in Requests /\ creq[k].id \in Nat
      BY <1>4, OwnBefore DEF ClientSendBody, ClientOK, Requests
    <2>2. clog' = clog \/ clog'[k] = Append(clog[k], <<"Request", creq[k].id>>)
      BY <1>1, <1>4 DEF ClientSendBody
    <2> QED
      BY <1>2, <1>3, <2>1, <2>2
  <1>5. CASE ClientRecvBody(k)
    <2>1. /\ creq[k] # NoReq /\ performed[k] # NoRes /\ rhead[k] = ResponseHead(k)
          /\ creq[k] \in Requests /\ creq[k].method = job[k].method
      BY <1>5, OwnReceivesBody, OwnBefore DEF ClientOK
    <2>2. rhead[k].id = creq[k].id /\ creq[k].id \in Nat
      BY <2>1 DEF ResponseHead, HeadSeg, Requests
    <2>3. clog'[k] = Append(clog[k], <<"Response", creq[k].id>>)
      BY <1>1, <1>5, <2>2 DEF ClientRecvBody
    <2>4. Logged(LogOf(k), <<"Request", k, creq[k].id, job[k].method>>)
      BY <2>1 DEF LogsInv, ResultLogged
    <2> QED
      BY <1>3, <2>2, <2>3, <2>4
  <1>6. ~ClientSendBody(k) /\ ~ClientRecvBody(k) => clog' = clog
    BY
       DEF Clientele, ClientStep, ClientConnect, ClientConnectFails, ClientSendHead,
           ClientRecvHead, ClientRecvFails, ClientClose
  <1> QED
    BY <1>2, <1>4, <1>5, <1>6

(* A client keeps LogsInv: it logs as answered what has a result.           *)
LEMMA ClientLogsStep ==
  ASSUME ProtocolInv, LogsInv, NEW k \in Clients, Clientele(k)
  PROVE  LogsInv'
  <1>1. LogsKept
    BY PortLogsAll, LogsOthers DEF Clientele, serverVars
  <1>2. /\ UNCHANGED <<job, slog>> /\ DataTypeOK
        /\ \A j \in Clients : performed'[j] = IF creq'[j] = creq[j] THEN performed[j] ELSE NoRes
    BY ClientPlaces DEF ClientMoves, Clientele, serverVars, ProtocolInv
  <1>3. ASSUME NEW j \in Clients
        PROVE  ResultLogged(j)'
    <2>1. ResultLogged(j)
      BY DEF LogsInv
    <2> QED
      BY <1>2, <2>1 DEF ResultLogged, LogOf
  <1>4. ResponseHasServerRecord'
    <2> SUFFICES ASSUME NEW j \in Clients, NEW n \in DOMAIN clog'[j], clog'[j][n][1] = "Response"
                 PROVE  Logged(slog'[job'[j].port], <<"Request", j, clog'[j][n][2], job'[j].method>>)
      BY DEF ResponseHasServerRecord, LogOf
    <2>1. CASE j = k
      BY <1>2, <2>1, ClientLogs DEF LogOf
    <2>2. CASE j # k
      <3>1. clog'[j] = clog[j]
        BY <1>2, <2>2, ClientLocal DEF Clientele
      <3> QED
        BY <1>2, <3>1 DEF LogsInv, ResponseHasServerRecord, LogOf
    <2> QED
      BY <2>1, <2>2
  <1>5. \A q \in Ports : PortLogs(q)'
    BY <1>1 DEF LogsKept
  <1> QED
    BY <1>3, <1>4, <1>5, PortLogsNext

(* Every step keeps LogsInv; main, and faults, write no log.                *)
LEMMA LogsStep ==
  ASSUME ProtocolInv, LogsInv, [Next]_vars
  PROVE  LogsInv'
  <1>1. ASSUME UNCHANGED <<cur, req, slog, job, creq, clog, performed>>,
               \A p \in Ports : spc'[p] = spc[p] \/ (spc[p] = "start" /\ spc'[p] = "ended")
        PROVE  LogsInv'
    <2>1. LogsKept /\ DataTypeOK
      BY <1>1, PortLogsAll, LogsOthers DEF ProtocolInv
    <2>2. \A k \in Clients : ResultLogged(k)'
      BY <1>1, <2>1, PortLogsAll, ResultsLogged
    <2>3. ResponseHasServerRecord'
      BY <1>1, <2>1, PortLogsAll, RecordsKept
    <2>4. \A q \in Ports : PortLogs(q)'
      BY <2>1 DEF LogsKept
    <2> QED
      BY <2>2, <2>3, <2>4, PortLogsNext
  <1>2. spc \in [Ports -> ServerPC]
    BY DEF ProtocolInv, DataTypeOK, ServerTypeOK
  <1>3. CASE Main
    BY <1>1, <1>3 DEF Main, ServerExit, clientVars
  <1>4. CASE Fault
    <2>1. ASSUME NEW k \in Clients, ClientKilled(k), UNCHANGED <<serverVars, performed>>
          PROVE  LogsInv'
      BY <1>1, <2>1 DEF ClientKilled, serverVars
    <2>2. ASSUME NEW p \in Ports, ServerListenFails(p), UNCHANGED <<clientVars, performed>>
          PROVE  LogsInv'
      BY <1>1, <1>2, <2>2 DEF ServerListenFails, Goto, clientVars
    <2>3. CASE ServerDies /\ UNCHANGED <<clientVars, performed>>
      BY <1>1, <2>3 DEF ServerDies, clientVars
    <2> QED
      BY <1>4, <2>1, <2>2, <2>3 DEF Fault, ServerFault, ServerOpenLogFails
  <1>5. CASE UNCHANGED vars
    BY <1>1, <1>5 DEF vars, clientVars, serverVars
  <1> QED
    BY <1>3, <1>4, <1>5, ThreadLogsStep, ClientLogsStep DEF Next, Quiet

(* The invariant of the logs, for any number of ports and clients.          *)
THEOREM LogsCorrect == Spec => []LogsInv
  <1>1. Init => LogsInv
    <2> SUFFICES ASSUME Init PROVE LogsInv
      OBVIOUS
    <2>1. /\ \A p \in Ports : spc[p] = "start" /\ slog[p] = <<>>
          /\ \A k \in Clients : performed[k] = NoRes /\ clog[k] = <<>>
      BY DEF Init, ServerInit, ClientInit
    <2>2. \A p \in Ports : RequestLogged(p) /\ ThreadLogged(p)
      BY <2>1 DEF RequestLogged, ThreadLogged, Handling
    <2>3. \A k \in Clients : ResultLogged(k)
      BY <2>1 DEF ResultLogged
    <2>4. LogPairs /\ EndsByQuit /\ ResponseHasServerRecord
      BY <2>1 DEF LogPairs, EndsByQuit, ResponseHasServerRecord
    <2> QED
      BY <2>2, <2>3, <2>4 DEF LogsInv
  <1>2. ProtocolInv /\ LogsInv /\ [Next]_vars => LogsInv'
    BY LogsStep
  <1> QED
    BY <1>1, <1>2, ProtocolCorrect, PTL DEF Spec

(* In the log of a port every response follows the request it answers at    *)
(* once, with its client, id and method: records of two requests never      *)
(* interleave.                                                              *)
THEOREM LogPairsCorrect == Spec => []LogPairs
  <1>1. LogsInv => LogPairs
    BY DEF LogsInv
  <1> QED
    BY <1>1, LogsCorrect, PTL

(* A thread that has ended after it opened its log has a quit request on    *)
(* record: nothing else ends the loop of kv_server.                         *)
THEOREM EndsByQuitCorrect == Spec => []EndsByQuit
  <1>1. LogsInv => EndsByQuit
    BY DEF LogsInv
  <1> QED
    BY <1>1, LogsCorrect, PTL

(* What a client has on record as answered, the server has on record as     *)
(* requested, under the same id and method, whatever was lost on the way.   *)
THEOREM ResponseHasServerRecordCorrect == Spec => []ResponseHasServerRecord
  <1>1. LogsInv => ResponseHasServerRecord
    BY DEF LogsInv
  <1> QED
    BY <1>1, LogsCorrect, PTL

-----------------------------------------------------------------------------
(* The service implements the key store *)

\* The request of client k, as a call of KeyStore.
CallBy(k) == [method |-> creq[k].method, data |-> creq[k].data]

(* The three things a client can be at, for KeyStore.                       *)
LEMMA CallForms ==
  ASSUME ProtocolInv, NEW k \in Clients
  PROVE  /\ creq[k] = NoReq => CallOf(k) = Nothing
         /\ creq[k] # NoReq /\ performed[k] = NoRes =>
              CallOf(k) = [st |-> "open", call |-> CallBy(k)] /\ CallOf(k) # Nothing
         /\ creq[k] # NoReq /\ performed[k] # NoRes =>
              /\ CallOf(k) = [st |-> "served", call |-> CallBy(k), result |-> performed[k]]
              /\ CallOf(k) # Nothing
  <1>1. creq[k] # NoReq => CallBy(k) \in [method : Methods, data : Seq(Keys \cup Vals)]
    BY DEF ProtocolInv, DataTypeOK, ClientTypeOK, Requests, CallBy
  <1>2. performed[k] # NoRes => performed[k] \in Responses
    BY DEF ProtocolInv, DataTypeOK
  <1> QED
    BY <1>1, <1>2, IdleAssumption DEF CallOf, CallBy

(* A step that changes the call of one client at most.                      *)
LEMMA CallChanges ==
  ASSUME NEW k \in Clients, NEW v, CallOf(k)' = v,
         \A j \in Clients : j # k => creq'[j] = creq[j] /\ performed'[j] = performed[j]
  PROVE  [j \in Clients |-> CallOf(j)]' = [[j \in Clients |-> CallOf(j)] EXCEPT ![k] = v]
  <1>1. \A j \in Clients : j # k => CallOf(j)' = CallOf(j)
    BY DEF CallOf
  <1> QED
    BY <1>1

(* Calls, answers and the whole of the store, when what they are made of    *)
(* stays.                                                                   *)
LEMMA SameCalls ==
  ASSUME UNCHANGED <<creq, performed>>
  PROVE  UNCHANGED [k \in Clients |-> CallOf(k)]
  BY DEF CallOf

(* The answers, when no client hears one.                                   *)
LEMMA SameAnswers ==
  ASSUME UNCHANGED heard
  PROVE  UNCHANGED [k \in Clients |-> AnswerOf(k)]
  BY DEF AnswerOf

(* Nothing of the store changes in a step that touches none of its parts.   *)
LEMMA StoreStutters ==
  ASSUME UNCHANGED <<creq, performed, heard, keystore, raced>>
  PROVE  UNCHANGED Store!storeVars
  BY SameCalls, SameAnswers DEF Store!storeVars

(* rpc_send_req makes a call.                                               *)
LEMMA SendsCall ==
  ASSUME ProtocolInv, ProtocolInv', NEW k \in Clients, Clientele(k), ClientSendHead(k)
  PROVE  Store!StoreNext
  <1>1. /\ creq[k] = NoReq /\ creq \in [Clients -> Requests \cup {NoReq}] /\ job \in Assignments
        /\ creq' \in [Clients -> Requests \cup {NoReq}]
    BY OwnBefore DEF ClientSendHead, ClientOK, ProtocolInv, DataTypeOK, ClientTypeOK
  <1> DEFINE message == [id |-> next_rpc_id[k], method |-> job[k].method, data |-> job[k].data]
  <1>2. creq'[k] = message /\ UNCHANGED <<job, heard>>
    BY <1>1 DEF ClientSendHead, GenBody
  <1>3. message \in Requests /\ creq'[k] # NoReq
    <2>1. job[k].method \in Methods /\ job[k].data \in Datas /\ next_rpc_id[k] \in Nat
      BY JobType DEF ProtocolInv, DataTypeOK, ClientTypeOK
    <2>2. message \in Requests
      BY <2>1 DEF Requests, Datas
    <2> QED
      BY <1>2, <2>2, NoneAssumption
  <1>4. /\ \A j \in Clients : j # k => creq'[j] = creq[j] /\ performed'[j] = performed[j]
        /\ performed'[k] = NoRes
    <2>1. \A j \in Clients : j # k => creq'[j] = creq[j]
      BY <1>1 DEF ClientSendHead
    <2> QED
      BY <1>1, <1>3, <2>1, ClientPlaces DEF ClientMoves
  <1>5. UNCHANGED <<keystore, raced>>
    BY DEF Clientele, serverVars
  <1>6. CallOf(k)' = [st |-> "open", call |-> [method |-> job[k].method, data |-> job[k].data]]
    BY <1>2, <1>3, <1>4 DEF CallOf
  <1>7. CallOf(k) = Nothing
    BY <1>1, CallForms
  <1>8. PICK c \in JobCalls : c = [method |-> job[k].method, data |-> job[k].data]
    <2>1. [method |-> job[k].method, data |-> job[k].data] \in JobCalls
      BY <1>1 DEF JobCalls
    <2> QED
      BY <2>1
  <1>9. [j \in Clients |-> CallOf(j)]' =
          [[j \in Clients |-> CallOf(j)] EXCEPT ![k] = [st |-> "open", call |-> c]]
    BY <1>4, <1>6, <1>8, CallChanges
  <1>10. Store!Make(k, c)
    BY <1>2, <1>5, <1>7, <1>9, SameAnswers DEF Store!Make, Store!Open
  <1> QED
    BY <1>8, <1>10 DEF Store!StoreNext

(* rpc_recv_resp hears the result of that call.                             *)
LEMMA HearsResult ==
  ASSUME ProtocolInv, ProtocolInv', NEW k \in Clients, Clientele(k), ClientRecvBody(k)
  PROVE  Store!StoreNext
  <1>1. /\ creq[k] # NoReq /\ performed[k] # NoRes /\ rhead[k] = ResponseHead(k)
        /\ BodyData(down[ConnOf(k)], rhead[k].data_len) = performed[k].data
        /\ performed[k] \in Responses
    BY OwnReceivesBody, OwnBefore
  <1>2. /\ creq \in [Clients -> Requests \cup {NoReq}] /\ heard \in [Clients -> Answers \cup {Nothing}]
        /\ heard' \in [Clients -> Answers \cup {Nothing}]
    BY DEF ProtocolInv, DataTypeOK, ClientTypeOK
  <1>3. /\ creq'[k] = NoReq /\ UNCHANGED <<keystore, raced>>
        /\ \A j \in Clients : j # k => creq'[j] = creq[j] /\ heard'[j] = heard[j]
    BY <1>2 DEF ClientRecvBody, Clientele, serverVars
  <1>4. \A j \in Clients : j # k => performed'[j] = performed[j]
    BY <1>3, ClientPlaces DEF ClientMoves
  <1>5. CallOf(k) = [st |-> "served", call |-> CallBy(k), result |-> performed[k]] /\ CallOf(k) # Nothing
    BY <1>1, CallForms
  <1>6. CallOf(k)' = Nothing
    BY <1>3 DEF CallOf
  <1>7. [j \in Clients |-> CallOf(j)]' = [[j \in Clients |-> CallOf(j)] EXCEPT ![k] = Nothing]
    BY <1>3, <1>4, <1>6, CallChanges
  <1>8. AnswerOf(k)' = performed[k]
    <2>1. heard'[k] = [id |-> rhead[k].id, status |-> rhead[k].status, data |-> performed[k].data]
      BY <1>1, <1>2 DEF ClientRecvBody
    <2>2. creq[k].id \in Nat /\ rhead[k].id = creq[k].id /\ rhead[k].status = performed[k].status
      BY <1>1, <1>2 DEF ResponseHead, HeadSeg, Requests
    <2>3. heard'[k] \in Answers
      BY <1>1, <2>1, <2>2 DEF Answers, Responses
    <2>4. AnswerOf(k)' = [status |-> performed[k].status, data |-> performed[k].data]
      BY <2>1, <2>2, <2>3, NoneAssumption DEF AnswerOf
    <2> QED
      BY <1>1, <2>4 DEF Responses
  <1>9. [j \in Clients |-> AnswerOf(j)]' = [[j \in Clients |-> AnswerOf(j)] EXCEPT ![k] = performed[k]]
    <2>1. \A j \in Clients : j # k => AnswerOf(j)' = AnswerOf(j)
      BY <1>3 DEF AnswerOf
    <2> QED
      BY <1>8, <2>1
  <1>10. Store!Hear(k)
    <2>1. [j \in Clients |-> CallOf(j)][k] = CallOf(k)
      OBVIOUS
    <2>2. CallOf(k).st = "served" /\ CallOf(k).result = performed[k]
      BY <1>5
    <2> QED
      BY <1>3, <1>5, <1>7, <1>9, <2>1, <2>2 DEF Store!Hear
  <1> QED
    BY <1>10 DEF Store!StoreNext

(* Whatever else a client does is of no concern to the store.               *)
LEMMA ClientRefines ==
  ASSUME ProtocolInv, ProtocolInv', NEW k \in Clients, Clientele(k)
  PROVE  [Store!StoreNext]_Store!storeVars
  <1>1. CASE ClientSendHead(k)
    BY <1>1, SendsCall
  <1>2. CASE ClientRecvBody(k)
    BY <1>2, HearsResult
  <1>3. CASE ~ClientSendHead(k) /\ ~ClientRecvBody(k)
    <2>1. UNCHANGED <<creq, heard, keystore, raced>>
      BY <1>3
         DEF Clientele, serverVars, ClientStep, ClientConnect, ClientConnectFails,
             ClientSendBody, ClientRecvHead, ClientRecvFails, ClientClose
    <2>2. performed' = performed
      BY <2>1 DEF Clientele, Forgotten, ProtocolInv, DataTypeOK
    <2> QED
      BY <2>1, <2>2, StoreStutters
  <1> QED
    BY <1>1, <1>2, <1>3

(* The client for which a thread computes a result, and its call before and *)
(* after.                                                                   *)
LEMMA ResultComputed ==
  ASSUME ProtocolInv, NEW p \in Ports, Thread(p), NEW r \in Responses, res'[p] = r,
         ServerDispatchReply(p) \/ ServerStoreOp(p) \/ ServerStoreRace(p)
  PROVE  \E k \in Clients :
           /\ CallOf(k) = [st |-> "open", call |-> CallBy(k)] /\ CallOf(k) # Nothing
           /\ CallBy(k).method = req[p].method /\ CallBy(k).data = req[p].data
           /\ [j \in Clients |-> CallOf(j)]' =
                [[j \in Clients |-> CallOf(j)] EXCEPT
                   ![k] = [st |-> "served", call |-> CallBy(k), result |-> r]]
  <1>1. proc = "up" /\ spc[p] \in {"dispatch", "store_op"}
    BY DEF ServerDispatchReply, ServerStoreOp, ServerStoreRace, Goto
  <1>2. PICK k \in Clients :
           /\ cur[p] = ConnOf(k) /\ cur[p] \in Conns /\ cur[p][1] = k
           /\ Where(ConnOf(k)) = spc[p] /\ Handled(k)
           /\ req[p].method = job[k].method /\ req[p].data = job[k].data
           /\ creq[k].method = job[k].method /\ creq[k].data = job[k].data
    BY <1>1, HandlesJob
  <1>3. creq[k] # NoReq /\ performed[k] = NoRes
    BY <1>1, <1>2 DEF Handled
  <1>4. res[p] = NoRes /\ r # NoRes /\ cur[p] # NoConn /\ UNCHANGED creq
    BY <1>1, <1>2, NoneAssumption DEF ProtocolInv, NetInv, QueueInv, Thread, clientVars
  <1>5. \A j \in Clients : performed'[j] = IF j = k THEN r ELSE performed[j]
    BY <1>2, <1>4, ObservedOf
  <1>6. CallOf(k) = [st |-> "open", call |-> CallBy(k)] /\ CallOf(k) # Nothing
    BY <1>3, CallForms
  <1>7. CallOf(k)' = [st |-> "served", call |-> CallBy(k), result |-> r]
    BY <1>3, <1>4, <1>5 DEF CallOf, CallBy
  <1>8. \A j \in Clients : j # k => creq'[j] = creq[j] /\ performed'[j] = performed[j]
    BY <1>4, <1>5
  <1>9. [j \in Clients |-> CallOf(j)]' =
                [[j \in Clients |-> CallOf(j)] EXCEPT
                   ![k] = [st |-> "served", call |-> CallBy(k), result |-> r]]
    BY <1>7, <1>8, CallChanges
  <1> QED
    BY <1>2, <1>6, <1>9 DEF CallBy

(* What a step of the store consists of, in terms of the service.           *)
LEMMA ServeStep ==
  ASSUME NEW k \in Clients, NEW c, NEW r,
         CallOf(k) = [st |-> "open", call |-> c], CallOf(k) # Nothing,
         c.method \in {"ping", "write", "read", "quit"},
         r = Store!Result(c), keystore' = Store!Effect(c),
         [j \in Clients |-> CallOf(j)]' =
           [[j \in Clients |-> CallOf(j)] EXCEPT ![k] = [st |-> "served", call |-> c, result |-> r]],
         UNCHANGED <<heard, raced>>
  PROVE  Store!StoreNext
  <1>1. [j \in Clients |-> CallOf(j)][k] = CallOf(k)
    OBVIOUS
  <1>2. CallOf(k).st = "open" /\ CallOf(k).call = c
    OBVIOUS
  <1>3. Store!Serve(k)
    BY <1>1, <1>2, SameAnswers DEF Store!Serve, Store!Served
  <1> QED
    BY <1>3 DEF Store!StoreNext

(* The same of a store that was raced on: its effect and result are any.    *)
LEMMA RaceStep ==
  ASSUME NEW k \in Clients, NEW c, NEW r \in SomeResult("write") \cup SomeResult("read"),
         CallOf(k) = [st |-> "open", call |-> c], CallOf(k) # Nothing,
         keystore' \in [Keys -> Vals \cup {NoVal}], raced',
         [j \in Clients |-> CallOf(j)]' =
           [[j \in Clients |-> CallOf(j)] EXCEPT ![k] = [st |-> "served", call |-> c, result |-> r]],
         UNCHANGED heard
  PROVE  Store!StoreNext
  <1>1. [j \in Clients |-> CallOf(j)][k] = CallOf(k)
    OBVIOUS
  <1>2. CallOf(k).st = "open" /\ CallOf(k).call = c
    OBVIOUS
  <1>3. raced' = TRUE => Store!ServeRaced(k)
    BY <1>1, <1>2, SameAnswers DEF Store!ServeRaced, Store!Served
  <1> QED
    BY <1>3 DEF Store!StoreNext

(* Every result a thread computes is the one the store gives, and the map   *)
(* changes as the store does; under a race, anything goes.                  *)
LEMMA ThreadRefines ==
  ASSUME ProtocolInv, ProtocolInv', NEW p \in Ports, Thread(p)
  PROVE  [Store!StoreNext]_Store!storeVars
  <1>1. /\ res \in [Ports -> Responses \cup {NoRes}] /\ UNCHANGED <<creq, heard>>
        /\ res'[p] \in Responses \cup {NoRes}
    BY DEF ProtocolInv, DataTypeOK, ServerTypeOK, Thread, clientVars
  <1>2. ASSUME ServerDispatchReply(p) \/ ServerStoreOp(p) \/ ServerStoreRace(p)
        PROVE  res'[p] \in Responses
    <2>1. spc'[p] \in {"reply_head", "unlock"}
      BY <1>2
         DEF ServerDispatchReply, ServerStoreOp, ServerStoreRace, Goto, ProtocolInv,
             DataTypeOK, ServerTypeOK
    <2>2. res'[p] # NoRes
      BY <2>1 DEF ProtocolInv, NetInv, QueueInv
    <2> QED
      BY <1>1, <2>2
  <1>3. CASE ServerDispatchReply(p)
    <2>1. PICK r \in Responses : res'[p] = r
      BY <1>2, <1>3
    <2>2. PICK k \in Clients :
           /\ CallOf(k) = [st |-> "open", call |-> CallBy(k)] /\ CallOf(k) # Nothing
           /\ CallBy(k).method = req[p].method /\ CallBy(k).data = req[p].data
           /\ [j \in Clients |-> CallOf(j)]' =
                [[j \in Clients |-> CallOf(j)] EXCEPT
                   ![k] = [st |-> "served", call |-> CallBy(k), result |-> r]]
      BY <1>3, <2>1, ResultComputed
    <2>3. PICK c : c = CallBy(k)
      OBVIOUS
    <2>4. /\ Immediate(c.method, c.data) /\ r = ImmediateResult(c.method, c.data)
          /\ UNCHANGED <<keystore, raced>>
      BY <1>1, <1>3, <2>1, <2>2, <2>3 DEF ServerDispatchReply
    <2>5. r = Store!Result(c) /\ keystore' = Store!Effect(c) /\ c.method \in {"ping", "write", "read", "quit"}
      BY <2>4
         DEF Immediate, ImmediateResult, ParsesAsWrite, Store!Result, Store!Effect,
             Store!Echo, Store!Refuse, Store!Note
    <2> QED
      BY <1>1, <2>2, <2>3, <2>4, <2>5, ServeStep
  <1>4. CASE ServerStoreOp(p)
    <2>1. PICK r \in Responses : res'[p] = r
      BY <1>2, <1>4
    <2>2. PICK k \in Clients :
           /\ CallOf(k) = [st |-> "open", call |-> CallBy(k)] /\ CallOf(k) # Nothing
           /\ CallBy(k).method = req[p].method /\ CallBy(k).data = req[p].data
           /\ [j \in Clients |-> CallOf(j)]' =
                [[j \in Clients |-> CallOf(j)] EXCEPT
                   ![k] = [st |-> "served", call |-> CallBy(k), result |-> r]]
      BY <1>4, <2>1, ResultComputed
    <2>3. PICK c : c = CallBy(k)
      OBVIOUS
    <2>4. /\ r = StoreResult(keystore, c.method, c.data)
          /\ keystore' = StoreAfter(keystore, c.method, c.data) /\ UNCHANGED raced
      BY <1>1, <1>4, <2>1, <2>2, <2>3 DEF ServerStoreOp
    <2>5. c.method \in {"read", "write"} /\ ~Immediate(c.method, c.data)
      <3>1. proc = "up" /\ spc[p] = "store_op"
        BY <1>4 DEF ServerStoreOp, Goto
      <3>2. PICK j \in Clients :
           /\ Where(ConnOf(j)) = spc[p] /\ Handled(j)
           /\ req[p].method = job[j].method /\ req[p].data = job[j].data
           /\ creq[j].method = job[j].method /\ creq[j].data = job[j].data
        BY <3>1, HandlesJob
      <3> QED
        BY <2>2, <2>3, <3>1, <3>2 DEF Handled
    <2>6. r = Store!Result(c) /\ keystore' = Store!Effect(c)
      BY <2>4, <2>5
         DEF Immediate, StoreResult, StoreAfter, ParsesAsWrite, Store!Result,
             Store!Effect, Store!Echo, Store!Refuse, Store!Note
    <2> QED
      BY <1>1, <2>2, <2>3, <2>4, <2>5, <2>6, ServeStep
  <1>5. CASE ServerStoreRace(p)
    <2>1. PICK r \in Responses : res'[p] = r
      BY <1>2, <1>5
    <2>2. PICK k \in Clients :
           /\ CallOf(k) = [st |-> "open", call |-> CallBy(k)] /\ CallOf(k) # Nothing
           /\ CallBy(k).method = req[p].method /\ CallBy(k).data = req[p].data
           /\ [j \in Clients |-> CallOf(j)]' =
                [[j \in Clients |-> CallOf(j)] EXCEPT
                   ![k] = [st |-> "served", call |-> CallBy(k), result |-> r]]
      BY <1>5, <2>1, ResultComputed
    <2>3. PICK c : c = CallBy(k)
      OBVIOUS
    <2>4. /\ r \in SomeResult(req[p].method) /\ raced'
          /\ keystore' \in [Keys -> Vals \cup {NoVal}]
      BY <1>1, <1>5, <2>1 DEF ServerStoreRace
    <2>5. r \in SomeResult("write") \cup SomeResult("read")
      BY <2>4 DEF SomeResult
    <2> QED
      BY <1>1, <2>2, <2>3, <2>4, <2>5, RaceStep
  <1>6. CASE ~ServerDispatchReply(p) /\ ~ServerStoreOp(p) /\ ~ServerStoreRace(p)
    <2>1. UNCHANGED <<keystore, raced>> /\ (res'[p] = res[p] \/ res'[p] = NoRes)
      BY <1>1, <1>6 DEF Thread, ServerStep, ServerListen, ServerOpenLog, ServerAccept,
     ServerRecvHead, ServerBadMark, ServerRecvBody, ServerRecvFails,
     ServerDispatchStore, ServerDispatchUnknown,
     ServerAcquire, ServerUnlock, ServerReplyHead,
     ServerReplyBody, ServerSigpipe, ServerDies, ServerFree, ServerClose, ServerStop
    <2>2. \A j \in Clients : performed'[j] = performed[j]
      BY <2>1, ObservedOf
    <2>3. performed' = performed
      BY <2>2 DEF ProtocolInv, DataTypeOK
    <2> QED
      BY <1>1, <2>1, <2>3, StoreStutters
  <1> QED
    BY <1>3, <1>4, <1>5, <1>6

(* Every step of the service is a step of KeyStore, or none.                *)
LEMMA ServiceRefines ==
  ASSUME ProtocolInv, ProtocolInv', [Next]_vars
  PROVE  [Store!StoreNext]_Store!storeVars
  <1>1. CASE Main
    BY <1>1, StoreStutters DEF Main, ServerExit, clientVars
  <1>2. CASE Fault
    BY <1>2, StoreStutters
       DEF Fault, ServerFault, ServerListenFails, ServerOpenLogFails, ServerDies,
           ClientKilled, serverVars, clientVars
  <1>3. CASE UNCHANGED vars
    BY <1>3, StoreStutters DEF vars, serverVars, clientVars
  <1> QED
    BY <1>1, <1>2, <1>3, ThreadRefines, ClientRefines DEF Next, Quiet

(* KeyService implements KeyStore: every answer a client hears is that of   *)
(* one operation on the map, performed at one moment between the request    *)
(* and the answer, until two threads have been at the map at once.          *)
THEOREM LinearizableCorrect == Spec => Linearizable
  <1>1. Init => Store!StoreInit
    <2> SUFFICES ASSUME Init PROVE Store!StoreInit
      OBVIOUS
    <2>1. \A k \in Clients : creq[k] = NoReq /\ heard[k] = Nothing
      BY DEF Init, ClientInit
    <2>2. \A k \in Clients : CallOf(k) = Nothing /\ AnswerOf(k) = Nothing
      BY <2>1 DEF CallOf, AnswerOf
    <2> QED
      BY <2>2 DEF Init, ServerInit, Store!StoreInit
  <1>2. ProtocolInv /\ ProtocolInv' /\ [Next]_vars => [Store!StoreNext]_Store!storeVars
    BY ServiceRefines
  <1> QED
    BY <1>1, <1>2, ProtocolCorrect, PTL DEF Spec, Linearizable, Store!StoreSpec
=============================================================================
