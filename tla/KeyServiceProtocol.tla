------------------------- MODULE KeyServiceProtocol -------------------------
(***************************************************************************)
(* The inductive invariant of KeyService: how far a client, the two streams *)
(* of its connection and the thread that serves it can be apart. There is a *)
(* phase for every stage of a request, and each step of a client or thread  *)
(* either stays in its phase or moves to the next.                          *)
(***************************************************************************)
EXTENDS KeyService

-----------------------------------------------------------------------------
(* Where the server has a connection *)

Waiting(p) == {queue[p][n] : n \in DOMAIN queue[p]}

\* The port the client of connection c connects to.
PortOf(c) == job[c[1]].port

\* In the accept queue, at a place of the program of the thread that serves it,
\* or gone: not yet there, closed, or its server dead.
Where(c) ==
  IF proc # "up" THEN "gone"
  ELSE IF cur[PortOf(c)] = c THEN spc[PortOf(c)]
  ELSE IF c \in Waiting(PortOf(c)) THEN "queue"
  ELSE "gone"

Served(c) == Where(c) # "gone"

\* Where a thread has a connection at all.
Serving == {"recv_head", "recv_body", "dispatch", "store_op", "unlock", "reply_head",
            "reply_body", "free", "close", "close_quit"}

\* The server has still to take notice of what comes on c next: the client may
\* be ahead of a thread that ends an earlier request with a body of no bytes.
Late(c) ==
  \/ Where(c) \in {"queue", "recv_head", "free", "close_quit"}
  \/ Where(c) = "reply_body" /\ res[PortOf(c)].data = <<>>

-----------------------------------------------------------------------------
(* The streams *)

Datas    == Seq(Keys \cup Vals)
Segments == Heads \cup [seg : {"body"}, data : Datas] \cup {Part}

\* What may follow a head: nothing yet, the body, or a part of it for ever.
Tails(data) ==
  IF data = <<>> THEN {<<>>} ELSE {<<>>, <<BodySeg(data)>>, <<Part>>}

\* All the writer will ever write of it is written.
Written(data, tail) == tail = <<>> => data = <<>>

RequestHead(k)  == HeadSeg(creq[k].id, creq[k].method, "Ok", creq[k].data)
ResponseHead(k) == HeadSeg(creq[k].id, creq[k].method, performed[k].status, performed[k].data)

\* No part of a response has left the server.
Silent(k) == rhead[k] = Nothing /\ down[ConnOf(k)] = <<>>

\* The head of the response is on its way to client k or taken, its body is tail.
Answering(k, tail) ==
  \/ rhead[k] = Nothing /\ down[ConnOf(k)] = <<ResponseHead(k)>> \o tail
  \/ rhead[k] = ResponseHead(k) /\ down[ConnOf(k)] = tail

\* The body of the request is tail, if its client has got as far.
Requested(k, tail) ==
  /\ cpc[k] = "send_body" => tail = <<>>
  /\ cpc[k] = "recv_head" => Written(creq[k].data, tail)

\* A request without a body may be taken, and answered, before the client calls
\* write() for the body.
BodySkipped(k) == cpc[k] = "send_body" => creq[k].data = <<>>

\* The thread has the request of k, and its header.
InHand(k) ==
  LET message == req[job[k].port]
  IN  message.id = creq[k].id /\ message.method = creq[k].method
        /\ message.data_len = Len(creq[k].data)

-----------------------------------------------------------------------------
(* The phases of the current connection of a client *)

Alive(k) == cl_open[ConnOf(k)]

Idle(k) ==
  /\ creq[k] = NoReq /\ performed[k] = NoRes
  /\ Late(ConnOf(k))
  /\ up[ConnOf(k)] = <<>>

Underway(k) ==
  /\ creq[k] # NoReq /\ performed[k] = NoRes
  /\ Late(ConnOf(k))
  /\ Alive(k) => Silent(k)
  /\ \E tail \in Tails(creq[k].data) :
       up[ConnOf(k)] = <<RequestHead(k)>> \o tail /\ Requested(k, tail)

HeadTaken(k) ==
  /\ creq[k] # NoReq /\ performed[k] = NoRes
  /\ Where(ConnOf(k)) = "recv_body"
  /\ Alive(k) => Silent(k)
  /\ InHand(k)
  /\ up[ConnOf(k)] \in Tails(creq[k].data) /\ Requested(k, up[ConnOf(k)])

Handled(k) ==
  /\ creq[k] # NoReq
  /\ \/ Where(ConnOf(k)) \in {"dispatch", "store_op"} /\ performed[k] = NoRes
     \/ /\ Where(ConnOf(k)) \in {"unlock", "reply_head"}
        /\ performed[k] = res[job[k].port] /\ performed[k] # NoRes
  /\ Where(ConnOf(k)) = "store_op" =>
       creq[k].method \in {"read", "write"} /\ ~Immediate(creq[k].method, creq[k].data)
  /\ Alive(k) => Silent(k)
  /\ InHand(k) /\ req[job[k].port].data = creq[k].data
  /\ up[ConnOf(k)] = <<>> /\ BodySkipped(k)

Replying(k) ==
  /\ creq[k] # NoReq
  /\ Where(ConnOf(k)) = "reply_body"
  /\ performed[k] = res[job[k].port] /\ performed[k] # NoRes
  /\ Alive(k) => Answering(k, <<>>)
  /\ up[ConnOf(k)] = <<>> /\ BodySkipped(k)

Replied(k) ==
  /\ creq[k] # NoReq
  /\ Where(ConnOf(k)) \in {"free", "recv_head", "close_quit"}
  /\ performed[k] # NoRes
  /\ Alive(k) => \E tail \in Tails(performed[k].data) :
                   Answering(k, tail) /\ Written(performed[k].data, tail)
  /\ up[ConnOf(k)] = <<>> /\ BodySkipped(k)

Refused(k) ==
  /\ Where(ConnOf(k)) = "close"
  /\ Alive(k) => creq[k] # NoReq /\ Silent(k)

Phase(k) ==
  \/ Idle(k) \/ Underway(k) \/ HeadTaken(k) \/ Handled(k)
  \/ Replying(k) \/ Replied(k) \/ Refused(k)

PhaseInv == \A k \in Clients : Served(ConnOf(k)) => Phase(k)

\* A connection its client has done with, and one it has not opened yet.
Past(c)  == Served(c) => up[c] = <<>> /\ (Late(c) \/ Where(c) = "close")
Fresh(c) == ~Served(c) /\ up[c] = <<>> /\ down[c] = <<>> /\ ~cl_open[c] /\ c \notin reset

OthersInv ==
  \A k \in Clients, i \in 1 .. MaxConns :
    /\ i < conn_i[k] => Past(<<k, i>>)
    /\ i > conn_i[k] => Fresh(<<k, i>>)
    /\ i = conn_i[k] /\ cpc[k] = "connect" => Fresh(<<k, i>>)

-----------------------------------------------------------------------------
(* Each side by itself *)

Active == {"request", "send_body", "recv_head", "recv_body"}

ClientOK(k) ==
  /\ Alive(k) <=> cpc[k] \in Active
  /\ cpc[k] \in {"connect", "request", "done"} => creq[k] = NoReq
  /\ cpc[k] \in {"send_body", "recv_head"} => creq[k] # NoReq /\ rhead[k] = Nothing
  /\ cpc[k] = "recv_body" => creq[k] # NoReq /\ rhead[k] # Nothing
  /\ creq[k] = NoReq =>
       performed[k] = NoRes /\ rhead[k] = Nothing /\ (Alive(k) => down[ConnOf(k)] = <<>>)
  /\ creq[k] # NoReq => creq[k].method = job[k].method /\ creq[k].data = job[k].data
  /\ rhead[k] # Nothing => creq[k] # NoReq /\ performed[k] # NoRes /\ rhead[k] = ResponseHead(k)
  /\ Alive(k) => \/ Silent(k)
                 \/ /\ performed[k] # NoRes
                    /\ \E tail \in Tails(performed[k].data) : Answering(k, tail)

ClientInv == \A k \in Clients : ClientOK(k)

\* A connection is in one queue once, or with one thread, and that of its port.
QueueInv ==
  \A p \in Ports :
    /\ \A c \in Waiting(p) : PortOf(c) = p /\ c # cur[p]
    /\ \A m, n \in DOMAIN queue[p] : queue[p][m] = queue[p][n] => m = n
    /\ cur[p] # NoConn => PortOf(cur[p]) = p
    /\ cur[p] # NoConn <=> spc[p] \in Serving
    /\ listening[p] => proc = "up" /\ spc[p] \notin {"start", "ended"}
    /\ res[p] # NoRes <=> spc[p] \in {"unlock", "reply_head", "reply_body", "free"}

\* The server closes its end when it lets go of a connection; a reset takes one
\* of the ends to be closed.
EndsInv ==
  \A c \in Conns : Served(c) => sv_open[c] /\ (c \in reset => ~cl_open[c])

NetInv == QueueInv /\ EndsInv

-----------------------------------------------------------------------------
(* What needs the phases to be kept *)

\* Unless something was killed or did not open, no connection that is served has
\* been reset, and no client has given up on one.
CalmInv ==
  faults = 0 =>
    /\ proc # "died"
    /\ \A c \in Conns : Served(c) => c \notin reset
    /\ \A k \in Clients : cpc[k] \in {"failed", "killed"} => ~Served(ConnOf(k))

\* Clients of port p whose request the server will never answer.
Unanswered(p) ==
  {k \in Clients : /\ job[k].port = p /\ creq[k] # NoReq
                   /\ ~Served(ConnOf(k))
                   /\ Alive(k) => Silent(k)}

\* The thread holds a body it will free, or leak with the request unanswered.
Holds(p) ==
  \/ spc[p] \in {"reply_body", "free"}
  \/ /\ proc = "up"
     /\ \/ spc[p] \in {"recv_body", "dispatch", "store_op", "unlock", "reply_head"}
        \/ /\ spc[p] = "close"
           /\ creq[cur[p][1]] # NoReq /\ cur[p] = ConnOf(cur[p][1])

HeapOK(p) ==
  /\ spc[p] \in {"recv_body", "dispatch", "store_op", "unlock", "reply_head",
                 "reply_body", "free"} => live[p] > 0
  /\ live[p] <= Cardinality(Unanswered(p)) + IF Holds(p) THEN 1 ELSE 0

HeapInv == \A p \in Ports : HeapOK(p)

-----------------------------------------------------------------------------
(* Types *)

NetTypeOK ==
  /\ listening \in [Ports -> BOOLEAN]
  /\ queue \in [Ports -> Seq(Conns)]
  /\ up \in [Conns -> Seq(Segments)] /\ down \in [Conns -> Seq(Segments)]
  /\ cl_open \in [Conns -> BOOLEAN] /\ sv_open \in [Conns -> BOOLEAN]
  /\ reset \subseteq Conns

ClientTypeOK ==
  /\ job \in Assignments
  /\ cpc \in [Clients -> ClientPC]
  /\ conn_i \in [Clients -> 1 .. MaxConns]
  /\ \A k \in Clients : conn_i[k] <= job[k].conns
  /\ rpc_j \in [Clients -> Nat] /\ next_rpc_id \in [Clients -> Nat]
  /\ creq \in [Clients -> Requests \cup {NoReq}]
  /\ rhead \in [Clients -> Heads \cup {Nothing}]
  /\ heard \in [Clients -> Answers \cup {Nothing}]
  /\ clog \in [Clients -> Seq({"Request", "Response"} \X Nat)]

ServerTypeOK ==
  /\ proc \in {"up", "exited", "died"}
  /\ spc \in [Ports -> ServerPC]
  /\ cur \in [Ports -> Conns \cup {NoConn}]
  /\ req \in [Ports -> [id : Nat, method : Methods \cup {"none"}, data_len : Nat, data : Datas]]
  /\ res \in [Ports -> Responses \cup {NoRes}]
  /\ live \in [Ports -> Nat]
  /\ keystore \in [Keys -> Vals \cup {NoVal}]
  /\ raced \in BOOLEAN
  /\ slog \in [Ports -> Seq({"Request", "Response"} \X Clients \X Nat \X (Methods \cup {"none"}))]

DataTypeOK ==
  /\ NetTypeOK /\ ClientTypeOK /\ ServerTypeOK /\ LockTypeOK
  /\ faults \in 0 .. MaxFaults
  /\ performed \in [Clients -> Responses \cup {NoRes}]

ProtocolInv ==
  /\ DataTypeOK /\ NetInv /\ ClientInv /\ OthersInv /\ PhaseInv
  /\ CalmInv /\ HeapInv
-----------------------------------------------------------------------------
(* The logs of the server and of the clients *)

\* Where a thread has a request in hand: the record of it is in the log, and
\* nothing after it until the response is sent.
Handling == {"dispatch", "store_op", "unlock", "reply_head", "reply_body"}

RequestLogged(p) ==
  /\ spc[p] \in Handling \cup {"free"} => Logged(slog[p], LogRecord(p, "Request"))
  /\ spc[p] \in Handling =>
       slog[p] # <<>> /\ slog[p][Len(slog[p])] = LogRecord(p, "Request")

\* The record of the request whose result client k waits for, or is reading.
ResultLogged(k) ==
  performed[k] # NoRes =>
    creq[k] # NoReq /\ Logged(LogOf(k), <<"Request", k, creq[k].id, creq[k].method>>)

QuitLogged(p) ==
  \E n \in DOMAIN slog[p] : slog[p][n][1] = "Request" /\ slog[p][n][4] = "quit"

\* A thread that has not opened its log yet, and one that is told to end.
ThreadLogged(p) ==
  /\ spc[p] \in {"start", "open_log"} => slog[p] = <<>>
  /\ spc[p] \in {"close_quit", "stop"} => QuitLogged(p)

LogsInv ==
  /\ \A p \in Ports : RequestLogged(p) /\ ThreadLogged(p)
  /\ \A k \in Clients : ResultLogged(k)
  /\ LogPairs /\ EndsByQuit /\ ResponseHasServerRecord
=============================================================================
