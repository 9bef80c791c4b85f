------------------------------ MODULE RpcStream ------------------------------
(***************************************************************************)
(* One connection of ch6-network below the unit of a write(): rpc_send_req, *)
(* rpc_send_resp, rpc_recv_req and rpc_recv_resp of rpc.cc, which at this   *)
(* level are one protocol for both ends, over readn() of network.cc.        *)
(* A message is MarkLen units of mark, HeaderLen units of header and a body;*)
(* nothing but the length in the mark tells where it ends. write() may      *)
(* store any part of what it is given, read() return any part of what is    *)
(* there. Units carry what they are part of, so that a reader that takes    *)
(* one thing for another is seen to.                                        *)
(*                                                                          *)
(* stage[e], for e the client's or the server's end:                        *)
(*   off                     no connection                                  *)
(*   ready                   between messages: to send, or to handle one    *)
(*   send_body               between the two writes of a message            *)
(*   mark, header, body      in the readn() of that part                    *)
(*   failed                  rpc_recv_* returned -1                         *)
(***************************************************************************)
EXTENDS Integers, Sequences

CONSTANTS
  MarkLen,    \* sizeof(RPCMark)
  HeaderLen,  \* sizeof(RPCHeader)
  MaxShorts,  \* bound: writes that store less than they are given
  None        \* no message

ASSUME MarkLenAssumption   == MarkLen \in Nat \ {0}
ASSUME HeaderLenAssumption == HeaderLen \in Nat \ {0}
ASSUME ShortsAssumption    == MaxShorts \in Nat

VARIABLES
  wire,    \* end -> units on their way to it
  stage,   \* end -> see above
  buf,     \* end -> what the current readn() has read
  sent,    \* end -> the message it is sending, or has sent last
  taken,   \* end -> the message it is receiving, or has received last
  shorts   \* short writes so far

streamVars == <<wire, stage, buf, sent, taken, shorts>>

Ends == {"client", "server"}
Peer(e) == IF e = "client" THEN "server" ELSE "client"

\* ilog2 as compiled for x86-64, where bsr finds the highest bit set.
ilog2(x) == CHOOSE n \in 0 .. x : 2 ^ n <= x /\ x < 2 ^ (n + 1)

\* The logarithm of the length of a message with these data.
LengthLog(data) == ilog2(Len(data) + MarkLen + HeaderLen)

\* A request, and the response to one: its header is a copy of the request's.
Request(id, method, data) ==
  [header |-> [id |-> id, method |-> method, type |-> "Request", status |-> "Ok",
               req_len_log |-> LengthLog(data), res_len_log |-> None],
   data |-> data]

\* Mutant of Response: the header is a new one, with an id of its own.
ResponseRenumbered(request, status, data) ==
  [header |-> [request.header EXCEPT !.id = 0, !.type = "Response", !.status = status,
                                     !.res_len_log = LengthLog(data)],
   data |-> data]

Response(request, status, data) ==
  [header |-> [request.header EXCEPT !.type = "Response", !.status = status,
                                     !.res_len_log = LengthLog(data)],
   data |-> data]

\* The units of a message. The mark says how long the data are.
HeadOf(msg) ==
  [n \in 1 .. MarkLen + HeaderLen |->
     IF n <= MarkLen THEN [mark |-> n, data_len |-> Len(msg.data)]
     ELSE [part |-> n - MarkLen, header |-> msg.header]]
WholeOf(msg) == HeadOf(msg) \o msg.data

StreamInit ==
  /\ wire = [e \in Ends |-> <<>>]
  /\ stage = [e \in Ends |-> "off"]
  /\ buf = [e \in Ends |-> <<>>]
  /\ sent = [e \in Ends |-> None]
  /\ taken = [e \in Ends |-> None]
  /\ shorts = 0

\* tcp_connect at the one end, tcp_accept at the other.
Opened ==
  /\ wire' = [e \in Ends |-> <<>>]
  /\ stage' = [client |-> "ready", server |-> "mark"]
  /\ buf' = [e \in Ends |-> <<>>]
  /\ sent' = [e \in Ends |-> None]
  /\ taken' = [e \in Ends |-> None]
  /\ UNCHANGED shorts

\* close() of one end.
Closed(e) ==
  /\ stage' = [stage EXCEPT ![e] = "off"]
  /\ UNCHANGED <<wire, buf, sent, taken, shorts>>

-----------------------------------------------------------------------------
(* Sending: what either write() returns, the caller goes on to receive *)

\* The first k of these units are stored, all or, by a short write, fewer.
Stores(e, units, k) ==
  /\ k = Len(units) \/ shorts < MaxShorts
  /\ shorts' = IF k = Len(units) THEN shorts ELSE shorts + 1
  /\ wire' = [wire EXCEPT ![Peer(e)] = @ \o SubSeq(units, 1, k)]

\* Mutant of SendHead: the body is sent even if the head was not stored whole.
SendHeadHeedless(e, msg) ==
  /\ stage[e] = "ready"
  /\ sent' = [sent EXCEPT ![e] = msg]
  /\ \E k \in 0 .. MarkLen + HeaderLen : Stores(e, HeadOf(msg), k)
  /\ stage' = [stage EXCEPT ![e] = "send_body"]
  /\ UNCHANGED <<buf, taken>>

\* Mark and header, in one write().
SendHead(e, msg) ==
  /\ stage[e] = "ready"
  /\ sent' = [sent EXCEPT ![e] = msg]
  /\ \E k \in 0 .. MarkLen + HeaderLen :
       /\ Stores(e, HeadOf(msg), k)
       /\ stage' = [stage EXCEPT ![e] =
                      IF k = MarkLen + HeaderLen THEN "send_body" ELSE "mark"]
  /\ UNCHANGED <<buf, taken>>

\* The data.
SendBody(e) ==
  /\ stage[e] = "send_body"
  /\ \E k \in 0 .. Len(sent[e].data) : Stores(e, sent[e].data, k)
  /\ stage' = [stage EXCEPT ![e] = "mark"]
  /\ UNCHANGED <<buf, sent, taken>>

-----------------------------------------------------------------------------
(* Receiving *)

\* What the current readn() is to read.
Wanted(e) == CASE stage[e] = "mark"   -> MarkLen
               [] stage[e] = "header" -> HeaderLen
               [] stage[e] = "body"   -> taken[e].data_len

Reading(e) == stage[e] \in {"mark", "header", "body"}

\* One read() in the loop of readn().
Read(e) ==
  /\ Reading(e)
  /\ \E n \in 1 .. Wanted(e) - Len(buf[e]) :
       /\ n <= Len(wire[e])
       /\ buf' = [buf EXCEPT ![e] = @ \o SubSeq(wire[e], 1, n)]
       /\ wire' = [wire EXCEPT ![e] = SubSeq(@, n + 1, Len(@))]
  /\ UNCHANGED <<stage, sent, taken, shorts>>

\* readn() has read it all.
Complete(e, at, next) ==
  /\ stage[e] = at
  /\ Len(buf[e]) = Wanted(e)
  /\ buf' = [buf EXCEPT ![e] = <<>>]
  /\ stage' = [stage EXCEPT ![e] = next]
  /\ UNCHANGED <<wire, sent, shorts>>

\* The mark: it is checked for the length of the header (other programs' marks are
\* in KeyServer) and believed about the length of the data.
GotMark(e) ==
  /\ Complete(e, "mark", "header")
  /\ taken' = [taken EXCEPT ![e] = [data_len |-> buf[e][1].data_len]]

GotHeader(e) ==
  /\ Complete(e, "header", "body")
  /\ taken' = [taken EXCEPT ![e] = [data_len |-> @.data_len, header |-> buf[e][1].header]]

GotBody(e) ==
  /\ Complete(e, "body", "ready")
  /\ taken' = [taken EXCEPT ![e] = [header |-> @.header, data |-> buf[e]]]

\* Mutant of RecvFails: readn() takes the end of the stream for "nothing yet".
RecvFailsRetries(e) ==
  /\ Reading(e)
  /\ Len(buf[e]) < Wanted(e) /\ wire[e] = <<>>
  /\ stage[Peer(e)] = "off"
  /\ UNCHANGED streamVars

\* The other end is closed and there is less than this readn() needs.
RecvFails(e) ==
  /\ Reading(e)
  /\ Len(buf[e]) < Wanted(e) /\ wire[e] = <<>>
  /\ stage[Peer(e)] = "off"
  /\ stage' = [stage EXCEPT ![e] = "failed"]
  /\ UNCHANGED <<wire, buf, sent, taken, shorts>>

\* Both ends are in readn(), and neither will get what it waits for.
BothWait ==
  \A e \in Ends : Reading(e) /\ Len(buf[e]) < Wanted(e) /\ wire[e] = <<>>

Receive(e) == Read(e) \/ GotMark(e) \/ GotHeader(e) \/ GotBody(e) \/ RecvFails(e)
=============================================================================
