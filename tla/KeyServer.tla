------------------------------ MODULE KeyServer ------------------------------
(***************************************************************************)
(* The server process: ch6-network/server.cc with rpc_recv_req and          *)
(* rpc_send_resp of rpc.cc. One thread per port accepts connections one     *)
(* after the other and answers the requests of each in turn; all threads    *)
(* share the key store under one SpinLock.                                  *)
(*                                                                          *)
(* spc[p]:                                                                  *)
(*   start       thread created, before tcp_listen                          *)
(*   open_log    listening, before creat() of server-<port>.log             *)
(*   accept      before tcp_accept                                          *)
(*   recv_head   rpc_recv_req, waiting for mark and header                  *)
(*   recv_body   rpc_recv_req, body allocated, waiting for it               *)
(*   dispatch    request logged, before the method is looked at             *)
(*   store_op    in the block of the SpinLock, before the map operation     *)
(*   unlock      map operation done, before the end of the block            *)
(*   reply_head, reply_body   rpc_send_resp, before its two writes          *)
(*   free        handler returned, before free(message.body)                *)
(*   close       before close() of the connection, CONTINUE                 *)
(*   close_quit  before close() of the connection, QUIT                     *)
(*   stop        left the accept loop, before close() of the listening fd   *)
(*   ended       thread returned                                            *)
(* While spc[p] = "store_op" the thread first runs the SpinLock constructor,*)
(* whose steps are those of module SpinLock.                                *)
(***************************************************************************)
EXTENDS Network, SpinLock

CONSTANTS
  Keys, Vals,  \* the strings clients use as keys and as values
  NoVal,       \* what the store maps an absent key to
  NoRes,       \* no result computed
  NoConn       \* no connection accepted

ASSUME ThreadPerPort == Threads = Ports

VARIABLES
  proc,      \* "up", "exited" (main returned) or "died"
  spc,       \* port -> where its thread stands
  cur,       \* port -> the connection it serves
  req,       \* port -> the request in `message'
  res,       \* port -> status and body of the response, or NoRes
  live,      \* port -> request bodies allocated and not freed
  keystore,  \* the unordered_map
  raced,     \* history: two threads were at the map at once
  slog       \* port -> server-<port>.log, a sequence of <<message type, client, rpc_id, method>>

serverVars == <<proc, spc, cur, req, res, live, keystore, raced, slog, lockVars>>

ServerPC ==
  {"start", "open_log", "accept", "recv_head", "recv_body", "dispatch",
   "store_op", "unlock", "reply_head", "reply_body", "free", "close",
   "close_quit", "stop", "ended"}

NoRequest == [id |-> 0, method |-> "none", data_len |-> 0, data |-> <<>>]

ServerInit ==
  /\ LockInit
  /\ proc = "up"
  /\ spc = [p \in Ports |-> "start"]
  /\ cur = [p \in Ports |-> NoConn]
  /\ req = [p \in Ports |-> NoRequest]
  /\ res = [p \in Ports |-> NoRes]
  /\ live = [p \in Ports |-> 0]
  /\ keystore = [key \in Keys |-> NoVal]
  /\ raced = FALSE
  /\ slog = [p \in Ports |-> <<>>]

\* A step of thread p from one point of its program to another.
Goto(p, from, to) ==
  /\ proc = "up"
  /\ spc[p] = from
  /\ spc' = [spc EXCEPT ![p] = to]

\* The log record of the message in hand.
LogRecord(p, type) == <<type, cur[p][1], req[p].id, req[p].method>>

-----------------------------------------------------------------------------
(* rpc_listen *)

ServerListen(p) ==
  /\ Goto(p, "start", "open_log")
  /\ TcpListen(p)
  /\ UNCHANGED <<proc, cur, req, res, live, keystore, raced, slog, lockVars>>

\* tcp_listen returned -1: this thread is gone, the others are not told.
ServerListenFails(p) ==
  /\ Goto(p, "start", "ended")
  /\ UNCHANGED <<netVars, proc, cur, req, res, live, keystore, raced, slog, lockVars>>

ServerOpenLog(p) ==
  /\ Goto(p, "open_log", "accept")
  /\ UNCHANGED <<netVars, proc, cur, req, res, live, keystore, raced, slog, lockVars>>

\* exit(1) in any thread, or a signal, ends the process with all its threads.
ServerDies ==
  /\ proc = "up"
  /\ proc' = "died"
  /\ ServerHostClosed
  /\ UNCHANGED <<spc, cur, req, res, live, keystore, raced, slog, lockVars>>

\* creat() of the log failed: exit(1).
ServerOpenLogFails(p) == spc[p] = "open_log" /\ ServerDies

ServerAccept(p) ==
  /\ Goto(p, "accept", "recv_head")
  /\ TcpAccept(p)
  /\ cur' = [cur EXCEPT ![p] = queue[p][1]]
  /\ UNCHANGED <<proc, req, res, live, keystore, raced, slog, lockVars>>

-----------------------------------------------------------------------------
(* rpc_recv_req, and the log of the request *)

\* The oldest segment of the connection's stream: the mark and header.
HeadIn(p) == up[cur[p]][1]

\* Mutant of ServerRecvHead: the rpc_id of an earlier request is kept.
ServerRecvHeadStale(p) ==
  /\ Goto(p, "recv_head", "recv_body")
  /\ HeadReady(up[cur[p]])
  /\ HeadIn(p).method # "badmark"
  /\ up' = [up EXCEPT ![cur[p]] = Tail(@)]
  /\ req' = [req EXCEPT ![p] =
               [id |-> IF @.id = 0 THEN 1 ELSE @.id, method |-> HeadIn(p).method,
                data_len |-> HeadIn(p).data_len, data |-> <<>>]]
  /\ live' = [live EXCEPT ![p] = @ + 1]
  /\ UNCHANGED <<listening, queue, down, cl_open, sv_open, reset, shorts,
                 proc, cur, res, keystore, raced, slog, lockVars>>

\* Mark and header are in: malloc(data_len), then the body.
ServerRecvHead(p) ==
  /\ Goto(p, "recv_head", "recv_body")
  /\ HeadReady(up[cur[p]])
  /\ HeadIn(p).method # "badmark"
  /\ up' = [up EXCEPT ![cur[p]] = Tail(@)]
  /\ req' = [req EXCEPT ![p] =
               [id |-> HeadIn(p).id, method |-> HeadIn(p).method,
                data_len |-> HeadIn(p).data_len, data |-> <<>>]]
  /\ live' = [live EXCEPT ![p] = @ + 1]
  /\ UNCHANGED <<listening, queue, down, cl_open, sv_open, reset, shorts,
                 proc, cur, res, keystore, raced, slog, lockVars>>

\* The mark has another header_len than ours: the connection ends before
\* anything is allocated, and what follows the mark is never read.
ServerBadMark(p) ==
  /\ Goto(p, "recv_head", "close")
  /\ HeadReady(up[cur[p]])
  /\ HeadIn(p).method = "badmark"
  /\ UNCHANGED <<netVars, proc, cur, req, res, live, keystore, raced, slog, lockVars>>

\* Mutant of ServerRecvBody: a request without a body is not logged.
ServerRecvBodyUnlogged(p) ==
  LET n == req[p].data_len
  IN  /\ Goto(p, "recv_body", "dispatch")
      /\ BodyReady(up[cur[p]], n)
      /\ req' = [req EXCEPT ![p].data = BodyData(up[cur[p]], n)]
      /\ up' = [up EXCEPT ![cur[p]] = BodyTaken(@, n)]
      /\ slog' = IF n = 0 THEN slog
                 ELSE [slog EXCEPT ![p] = Append(@, LogRecord(p, "Request"))]
      /\ UNCHANGED <<listening, queue, down, cl_open, sv_open, reset, shorts,
                     proc, cur, res, live, keystore, raced, lockVars>>

\* The body is in; handle_rpc_conn logs the request.
ServerRecvBody(p) ==
  LET n == req[p].data_len
  IN  /\ Goto(p, "recv_body", "dispatch")
      /\ BodyReady(up[cur[p]], n)
      /\ req' = [req EXCEPT ![p].data = BodyData(up[cur[p]], n)]
      /\ up' = [up EXCEPT ![cur[p]] = BodyTaken(@, n)]
      /\ slog' = [slog EXCEPT ![p] = Append(@, LogRecord(p, "Request"))]
      /\ UNCHANGED <<listening, queue, down, cl_open, sv_open, reset, shorts,
                     proc, cur, res, live, keystore, raced, lockVars>>

\* readn() returned -1: break out of the loop. A body already allocated is
\* not freed.
ServerRecvFails(p) ==
  /\ \/ Goto(p, "recv_head", "close")
     \/ Goto(p, "recv_body", "close") /\ ~BodyReady(up[cur[p]], req[p].data_len)
  /\ AtEnd(up[cur[p]], cl_open[cur[p]])
  /\ UNCHANGED <<netVars, proc, cur, req, res, live, keystore, raced, slog, lockVars>>

-----------------------------------------------------------------------------
(* handle_rpc_conn: the dispatch on the method, and the handlers *)

\* WriteRequest::FromBody: the two lengths add up to the length of the body.
ParsesAsWrite(data) == Len(data) = 2

\* handle_rpc_ping echoes the body; a write that does not parse is a BadArg;
\* quit is answered like a successful write.
Immediate(method, data) ==
  \/ method \in {"ping", "quit"}
  \/ method = "write" /\ ~ParsesAsWrite(data)

ImmediateResult(method, data) ==
  CASE method = "ping" -> [status |-> "Ok", data |-> data]
    [] method = "quit" -> [status |-> "Ok", data |-> <<>>]
    [] OTHER           -> [status |-> "BadArg", data |-> <<>>]

ServerDispatchReply(p) ==
  /\ Goto(p, "dispatch", "reply_head")
  /\ Immediate(req[p].method, req[p].data)
  /\ res' = [res EXCEPT ![p] = ImmediateResult(req[p].method, req[p].data)]
  /\ UNCHANGED <<netVars, proc, cur, req, live, keystore, raced, slog, lockVars>>

\* A read or a write goes on to the block of the SpinLock.
ServerDispatchStore(p) ==
  /\ Goto(p, "dispatch", "store_op")
  /\ req[p].method \in {"read", "write"}
  /\ ~Immediate(req[p].method, req[p].data)
  /\ Construct(p)
  /\ UNCHANGED <<netVars, proc, cur, req, res, live, keystore, raced, slog>>

\* Mutant of ServerDispatchUnknown: an unrecognized method returns QUIT.
ServerDispatchUnknownQuits(p) ==
  /\ Goto(p, "dispatch", "close_quit")
  /\ req[p].method \notin {"ping", "write", "read", "quit"}
  /\ UNCHANGED <<netVars, proc, cur, req, res, live, keystore, raced, slog, lockVars>>

\* Mutant of ServerDispatchUnknown: it is ignored and the next request awaited.
ServerDispatchUnknownIgnored(p) ==
  /\ Goto(p, "dispatch", "recv_head")
  /\ req[p].method \notin {"ping", "write", "read", "quit"}
  /\ UNCHANGED <<netVars, proc, cur, req, res, live, keystore, raced, slog, lockVars>>

\* An unrecognized method: return CONTINUE without freeing the body.
ServerDispatchUnknown(p) ==
  /\ Goto(p, "dispatch", "close")
  /\ req[p].method \notin {"ping", "write", "read", "quit"}
  /\ UNCHANGED <<netVars, proc, cur, req, res, live, keystore, raced, slog, lockVars>>

\* The constructor of the SpinLock.
ServerAcquire(p) ==
  /\ proc = "up"
  /\ spc[p] = "store_op"
  /\ AcquireStep(p)
  /\ UNCHANGED <<netVars, proc, spc, cur, req, res, live, keystore, raced, slog>>

\* Mutant of StoreAfter: a plain assignment, the last write wins.
StoreAfterAssigned(store, method, data) ==
  IF method = "write" THEN [store EXCEPT ![data[1]] = data[2]] ELSE store

\* keystore.emplace(key, value): an entry that exists is left alone.
StoreAfter(store, method, data) ==
  IF method = "write" /\ store[data[1]] = NoVal
  THEN [store EXCEPT ![data[1]] = data[2]]
  ELSE store

\* Ok for every write; for a read, what keystore.find says.
StoreResult(store, method, data) ==
  IF method = "write" THEN [status |-> "Ok", data |-> <<>>]
  ELSE IF store[data[1]] = NoVal THEN [status |-> "NotFound", data |-> <<>>]
  ELSE [status |-> "Ok", data |-> <<store[data[1]]>>]

\* The results a read or a write can be answered with at all.
SomeResult(method) ==
  IF method = "write" THEN {[status |-> "Ok", data |-> <<>>]}
  ELSE {[status |-> "NotFound", data |-> <<>>]}
       \cup {[status |-> "Ok", data |-> <<v>>] : v \in Vals}

\* Another thread is inside the block too.
Contended(p) == \E u \in Threads \ {p} : lpc[u] = "in"

\* The map operation, alone in the block.
ServerStoreOp(p) ==
  /\ Goto(p, "store_op", "unlock")
  /\ lpc[p] = "in"
  /\ ~Contended(p)
  /\ keystore' = StoreAfter(keystore, req[p].method, req[p].data)
  /\ res' = [res EXCEPT ![p] = StoreResult(keystore, req[p].method, req[p].data)]
  /\ UNCHANGED <<netVars, proc, cur, req, live, raced, slog, lockVars>>

\* The map operation with another thread in the block: a data race on an
\* unordered_map, which may leave anything in it and find anything.
ServerStoreRace(p) ==
  /\ Goto(p, "store_op", "unlock")
  /\ lpc[p] = "in"
  /\ Contended(p)
  /\ raced' = TRUE
  /\ keystore' \in [Keys -> Vals \cup {NoVal}]
  /\ \E r \in SomeResult(req[p].method) : res' = [res EXCEPT ![p] = r]
  /\ UNCHANGED <<netVars, proc, cur, req, live, slog, lockVars>>

ServerUnlock(p) ==
  /\ Goto(p, "unlock", "reply_head")
  /\ Destruct(p)
  /\ UNCHANGED <<netVars, proc, cur, req, res, live, keystore, raced, slog>>

-----------------------------------------------------------------------------
(* rpc_send_resp; its return value is ignored *)

\* One write() to the socket of the connection, other than a fatal one.
ServerWrites(p, seg, result) ==
  /\ result \in WriteResults(cur[p], seg, cl_open[cur[p]]) \ {"sigpipe"}
  /\ down' = [down EXCEPT ![cur[p]] = Stored(@, seg, result)]
  /\ Sent(cur[p], seg, cl_open[cur[p]], result)
  /\ UNCHANGED <<listening, queue, up, cl_open, sv_open>>

\* Mark and header: those of the request, with the status and length set.
ServerReplyHead(p) ==
  /\ \E result \in {"all", "lost", "fail"} :
       /\ Goto(p, "reply_head", IF Wrote(result) THEN "reply_body" ELSE "free")
       /\ ServerWrites(p, HeadSeg(req[p].id, req[p].method, res[p].status,
                                  res[p].data), result)
  /\ UNCHANGED <<proc, cur, req, res, live, keystore, raced, slog, lockVars>>

\* Mutant of ServerReplyBody: the response is sent again if the client's end of
\* the connection is no longer there.
ServerReplyBodyRetried(p) ==
  /\ \E result \in {"all", "short", "lost", "fail"} :
       /\ Goto(p, "reply_body", IF result = "lost" THEN "reply_head" ELSE "free")
       /\ ServerWrites(p, BodySeg(res[p].data), result)
       /\ slog' = IF Wrote(result)
                  THEN [slog EXCEPT ![p] = Append(@, LogRecord(p, "Response"))]
                  ELSE slog
  /\ UNCHANGED <<proc, cur, req, res, live, keystore, raced, lockVars>>

\* The body; the response is logged only if both writes looked complete.
ServerReplyBody(p) ==
  /\ Goto(p, "reply_body", "free")
  /\ \E result \in {"all", "short", "lost", "fail"} :
       /\ ServerWrites(p, BodySeg(res[p].data), result)
       /\ slog' = IF Wrote(result)
                  THEN [slog EXCEPT ![p] = Append(@, LogRecord(p, "Response"))]
                  ELSE slog
  /\ UNCHANGED <<proc, cur, req, res, live, keystore, raced, lockVars>>

\* Nobody handles SIGPIPE: writing to a client that is gone may end the
\* process with every thread of it.
ServerSigpipe(p) ==
  /\ spc[p] \in {"reply_head", "reply_body"}
  /\ cur[p] \in reset
  /\ ServerDies

\* Mutant of ServerFree: the body is not freed.
ServerFreeForgotten(p) ==
  /\ Goto(p, "free", IF req[p].method = "quit" THEN "close_quit" ELSE "recv_head")
  /\ req' = [req EXCEPT ![p] = NoRequest]
  /\ res' = [res EXCEPT ![p] = NoRes]
  /\ UNCHANGED <<netVars, proc, cur, live, keystore, raced, slog, lockVars>>

\* Mutant of ServerFree: quit is answered and nothing else.
ServerFreeNeverQuits(p) ==
  /\ Goto(p, "free", "recv_head")
  /\ live' = [live EXCEPT ![p] = @ - 1]
  /\ req' = [req EXCEPT ![p] = NoRequest]
  /\ res' = [res EXCEPT ![p] = NoRes]
  /\ UNCHANGED <<netVars, proc, cur, keystore, raced, slog, lockVars>>

\* free(message.body), and back to the loop or out of it.
ServerFree(p) ==
  /\ Goto(p, "free", IF req[p].method = "quit" THEN "close_quit" ELSE "recv_head")
  /\ live' = [live EXCEPT ![p] = @ - 1]
  /\ req' = [req EXCEPT ![p] = NoRequest]
  /\ res' = [res EXCEPT ![p] = NoRes]
  /\ UNCHANGED <<netVars, proc, cur, keystore, raced, slog, lockVars>>

-----------------------------------------------------------------------------
(* The end of a connection, of a thread, of the process *)

\* Mutant of ServerClose: the connection is left open.
ServerCloseForgotten(p) ==
  /\ \/ Goto(p, "close", "accept")
     \/ Goto(p, "close_quit", "stop")
  /\ cur' = [cur EXCEPT ![p] = NoConn]
  /\ req' = [req EXCEPT ![p] = NoRequest]
  /\ UNCHANGED <<netVars, proc, res, live, keystore, raced, slog, lockVars>>

ServerClose(p) ==
  /\ \/ Goto(p, "close", "accept")
     \/ Goto(p, "close_quit", "stop")
  /\ ServerEndClosed(cur[p])
  /\ cur' = [cur EXCEPT ![p] = NoConn]
  /\ req' = [req EXCEPT ![p] = NoRequest]
  /\ UNCHANGED <<proc, res, live, keystore, raced, slog, lockVars>>

\* close(listen_sock_fd), close(log_fd), return.
ServerStop(p) ==
  /\ Goto(p, "stop", "ended")
  /\ ListenClosed(p)
  /\ UNCHANGED <<proc, cur, req, res, live, keystore, raced, slog, lockVars>>

\* main has joined every thread and returns.
ServerExit ==
  /\ proc = "up"
  /\ \A p \in Ports : spc[p] = "ended"
  /\ proc' = "exited"
  /\ UNCHANGED <<netVars, spc, cur, req, res, live, keystore, raced, slog, lockVars>>

\* What thread p does of its own accord.
ServerStep(p) ==
  \/ ServerListen(p) \/ ServerOpenLog(p) \/ ServerAccept(p)
  \/ ServerRecvHead(p) \/ ServerBadMark(p) \/ ServerRecvBody(p) \/ ServerRecvFails(p)
  \/ ServerDispatchReply(p) \/ ServerDispatchStore(p) \/ ServerDispatchUnknown(p)
  \/ ServerAcquire(p) \/ ServerStoreOp(p) \/ ServerStoreRace(p) \/ ServerUnlock(p)
  \/ ServerReplyHead(p) \/ ServerReplyBody(p) \/ ServerSigpipe(p) \/ ServerFree(p)
  \/ ServerClose(p) \/ ServerStop(p)

\* What its surroundings may do to thread p.
ServerFault(p) == ServerListenFails(p) \/ ServerOpenLogFails(p)
=============================================================================
