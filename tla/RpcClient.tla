------------------------------ MODULE RpcClient ------------------------------
(***************************************************************************)
(* The client processes: main() of ch6-network/client.cc with rpc_send_req  *)
(* and rpc_recv_resp of rpc.cc. A process has one job, its command line: a  *)
(* method, the body it sends, the port, how many connections it makes one   *)
(* after the other (-rep) and how many requests it sends on each (-k).      *)
(*                                                                          *)
(* cpc[k]:                                                                  *)
(*   connect    at the head of the connection loop                          *)
(*   request    at the head of the request loop, connection open            *)
(*   send_body  rpc_send_req, between its two writes                        *)
(*   recv_head  rpc_recv_resp, waiting for mark and header                  *)
(*   recv_body  rpc_recv_resp, waiting for the body                         *)
(*   done, failed, killed   main returned, exit(1), ended by a signal       *)
(*                                                                          *)
(* The pause of -waitms between requests is a pause and nothing else: the   *)
(* next step of a process may be as late as it likes in any case.           *)
(***************************************************************************)
EXTENDS Network

CONSTANTS
  Assignments,  \* who runs what: functions client -> command line, a record
                \* [method, data, port, conns, rpcs]
  NoReq,        \* no request outstanding
  Nothing       \* nothing received

VARIABLES
  job,          \* client -> its command line
  cpc,          \* client -> where it stands
  conn_i,       \* client -> number of the current connection (i, from 1)
  rpc_j,        \* client -> requests answered on this connection (j)
  next_rpc_id,  \* client -> the process-wide counter of rpc.cc
  creq,         \* client -> the request it waits for an answer to, or NoReq
  rhead,        \* client -> mark and header of the response being received
  heard,        \* client -> history: the last complete response
  clog          \* client -> client.log, a sequence of <<message type, rpc_id>>

clientVars == <<job, cpc, conn_i, rpc_j, next_rpc_id, creq, rhead, heard, clog>>

Ended   == {"done", "failed", "killed"}
ClientPC == {"connect", "request", "send_body", "recv_head", "recv_body"} \cup Ended

ClientInit ==
  /\ job \in Assignments
  /\ cpc = [k \in Clients |-> "connect"]
  /\ conn_i = [k \in Clients |-> 1]
  /\ rpc_j = [k \in Clients |-> 0]
  /\ next_rpc_id = [k \in Clients |-> 1]
  /\ creq = [k \in Clients |-> NoReq]
  /\ rhead = [k \in Clients |-> Nothing]
  /\ heard = [k \in Clients |-> Nothing]
  /\ clog = [k \in Clients |-> <<>>]

\* The connection the client is on.
ConnOf(k) == <<k, conn_i[k]>>

\* gen_str_direct and WriteRequest::Make. The "nth string" does not depend on n:
\* every request of a process carries the same body.
GenBody(k, n) == job[k].data

-----------------------------------------------------------------------------
(* Connecting *)

ClientConnect(k) ==
  /\ cpc[k] = "connect"
  /\ TcpConnect(ConnOf(k), job[k].port)
  /\ cpc' = [cpc EXCEPT ![k] = "request"]
  /\ UNCHANGED <<job, conn_i, rpc_j, next_rpc_id, creq, rhead, heard, clog>>

\* tcp_connect returned -1: exit(1).
ClientConnectFails(k) ==
  /\ cpc[k] = "connect"
  /\ TcpRefused(job[k].port)
  /\ cpc' = [cpc EXCEPT ![k] = "failed"]
  /\ UNCHANGED <<netVars, job, conn_i, rpc_j, next_rpc_id, creq, rhead, heard, clog>>

-----------------------------------------------------------------------------
(* rpc_send_req; its return value is ignored *)

\* One write() to the client's socket, going on at `next' if it looks complete
\* and at rpc_recv_resp if it does not. SIGPIPE ends the process.
ClientWrites(k, seg, result, next) ==
  /\ result \in WriteResults(ConnOf(k), seg, sv_open[ConnOf(k)])
  /\ up' = [up EXCEPT ![ConnOf(k)] = Stored(@, seg, result)]
  /\ Sent(ConnOf(k), seg, sv_open[ConnOf(k)], result)
  /\ cpc' = [cpc EXCEPT ![k] = CASE result = "sigpipe" -> "killed"
                                 [] Wrote(result)      -> next
                                 [] OTHER              -> "recv_head"]
  /\ cl_open' = [cl_open EXCEPT ![ConnOf(k)] = result # "sigpipe"]
  /\ UNCHANGED <<listening, queue, down, sv_open>>

\* The mark and the header; the request is numbered whatever becomes of it.
ClientSendHead(k) ==
  /\ cpc[k] = "request"
  /\ rpc_j[k] < job[k].rpcs
  /\ LET req == [id |-> next_rpc_id[k], method |-> job[k].method,
                 data |-> GenBody(k, rpc_j[k])]
     IN  /\ creq' = [creq EXCEPT ![k] = req]
         /\ \E result \in {"all", "lost", "fail", "sigpipe"} :
              ClientWrites(k, HeadSeg(req.id, req.method, "Ok", req.data),
                           result, "send_body")
  /\ next_rpc_id' = [next_rpc_id EXCEPT ![k] = @ + 1]
  /\ UNCHANGED <<job, conn_i, rpc_j, rhead, heard, clog>>

\* The body; the request is logged only if both writes looked complete.
ClientSendBody(k) ==
  /\ cpc[k] = "send_body"
  /\ \E result \in {"all", "short", "lost", "fail", "sigpipe"} :
       /\ ClientWrites(k, BodySeg(creq[k].data), result, "recv_head")
       /\ clog' = IF Wrote(result)
                  THEN [clog EXCEPT ![k] = Append(@, <<"Request", creq[k].id>>)]
                  ELSE clog
  /\ UNCHANGED <<job, conn_i, rpc_j, next_rpc_id, creq, rhead, heard>>

-----------------------------------------------------------------------------
(* rpc_recv_resp *)

ClientRecvHead(k) ==
  /\ cpc[k] = "recv_head"
  /\ HeadReady(down[ConnOf(k)])
  /\ rhead' = [rhead EXCEPT ![k] = down[ConnOf(k)][1]]
  /\ down' = [down EXCEPT ![ConnOf(k)] = Tail(@)]
  /\ cpc' = [cpc EXCEPT ![k] = "recv_body"]
  /\ UNCHANGED <<listening, queue, up, cl_open, sv_open, reset, shorts,
                 job, conn_i, rpc_j, next_rpc_id, creq, heard, clog>>

\* The response is complete: it is logged and the request loop goes on. Neither
\* its rpc_id nor its status is looked at.
ClientRecvBody(k) ==
  /\ cpc[k] = "recv_body"
  /\ BodyReady(down[ConnOf(k)], rhead[k].data_len)
  /\ heard' = [heard EXCEPT ![k] =
                 [id |-> rhead[k].id, status |-> rhead[k].status,
                  data |-> BodyData(down[ConnOf(k)], rhead[k].data_len)]]
  /\ down' = [down EXCEPT ![ConnOf(k)] = BodyTaken(@, rhead[k].data_len)]
  /\ clog' = [clog EXCEPT ![k] = Append(@, <<"Response", rhead[k].id>>)]
  /\ creq' = [creq EXCEPT ![k] = NoReq]
  /\ rhead' = [rhead EXCEPT ![k] = Nothing]
  /\ rpc_j' = [rpc_j EXCEPT ![k] = @ + 1]
  /\ cpc' = [cpc EXCEPT ![k] = "request"]
  /\ UNCHANGED <<listening, queue, up, cl_open, sv_open, reset, shorts,
                 job, conn_i, next_rpc_id>>

\* rpc_recv_resp returned -1: exit(1), and the kernel closes the socket.
ClientRecvFails(k) ==
  /\ \/ cpc[k] = "recv_head"
     \/ cpc[k] = "recv_body" /\ ~BodyReady(down[ConnOf(k)], rhead[k].data_len)
  /\ AtEnd(down[ConnOf(k)], sv_open[ConnOf(k)])
  /\ ClientEndClosed(ConnOf(k))
  /\ cpc' = [cpc EXCEPT ![k] = "failed"]
  /\ UNCHANGED <<job, conn_i, rpc_j, next_rpc_id, creq, rhead, heard, clog>>

-----------------------------------------------------------------------------
(* The end of a connection, and of a process *)

\* Mutant of ClientClose: the loop variable runs on past the last connection.
ClientCloseOneMore(k) ==
  /\ cpc[k] = "request"
  /\ rpc_j[k] = job[k].rpcs
  /\ ClientEndClosed(ConnOf(k))
  /\ rpc_j' = [rpc_j EXCEPT ![k] = 0]
  /\ conn_i' = [conn_i EXCEPT ![k] = @ + 1]
  /\ cpc' = [cpc EXCEPT ![k] = IF conn_i[k] < job[k].conns THEN "connect" ELSE "done"]
  /\ UNCHANGED <<job, next_rpc_id, creq, rhead, heard, clog>>

\* Mutant of ClientClose: the client does not wait for its last response.
ClientCloseUnanswered(k) ==
  /\ cpc[k] \in {"request", "recv_head"}
  /\ rpc_j[k] + (IF cpc[k] = "recv_head" THEN 1 ELSE 0) = job[k].rpcs
  /\ ClientEndClosed(ConnOf(k))
  /\ rpc_j' = [rpc_j EXCEPT ![k] = 0]
  /\ conn_i' = [conn_i EXCEPT ![k] = IF @ < job[k].conns THEN @ + 1 ELSE @]
  /\ cpc' = [cpc EXCEPT ![k] = IF conn_i[k] < job[k].conns THEN "connect" ELSE "done"]
  /\ UNCHANGED <<job, next_rpc_id, creq, rhead, heard, clog>>

\* close() at the end of the connection loop's body.
ClientClose(k) ==
  /\ cpc[k] = "request"
  /\ rpc_j[k] = job[k].rpcs
  /\ ClientEndClosed(ConnOf(k))
  /\ rpc_j' = [rpc_j EXCEPT ![k] = 0]
  /\ IF conn_i[k] < job[k].conns
     THEN /\ conn_i' = [conn_i EXCEPT ![k] = @ + 1]
          /\ cpc' = [cpc EXCEPT ![k] = "connect"]
     ELSE /\ cpc' = [cpc EXCEPT ![k] = "done"]
          /\ UNCHANGED conn_i
  /\ UNCHANGED <<job, next_rpc_id, creq, rhead, heard, clog>>

\* The process is killed, wherever it is; creat() of client.log failing is the
\* case of a process that ends before it connects.
ClientKilled(k) ==
  /\ cpc[k] \notin Ended
  /\ ClientEndClosed(ConnOf(k))
  /\ cpc' = [cpc EXCEPT ![k] = "killed"]
  /\ UNCHANGED <<job, conn_i, rpc_j, next_rpc_id, creq, rhead, heard, clog>>

ClientStep(k) ==
  \/ ClientConnect(k) \/ ClientConnectFails(k)
  \/ ClientSendHead(k) \/ ClientSendBody(k)
  \/ ClientRecvHead(k) \/ ClientRecvBody(k) \/ ClientRecvFails(k)
  \/ ClientClose(k)
=============================================================================
