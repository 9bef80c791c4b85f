----------------------------- MODULE KeyService -----------------------------
(***************************************************************************)
(* The whole of ch6-network at work: client processes, the network between  *)
(* them and the server process, its threads and their lock. Processes are   *)
(* interleaved step by step; a client or the server may be killed, and a    *)
(* port may fail to open.                                                   *)
(***************************************************************************)
EXTENDS RpcClient, KeyServer

CONSTANT MaxFaults   \* bound: processes killed and ports that fail to open

ASSUME FaultsAssumption == MaxFaults \in Nat

\* The methods of rpc.h; another one; and a mark that is not of our header_len.
Methods  == {"ping", "write", "read", "quit", "other", "badmark"}
Requests == [id : Nat, method : Methods, data : Seq(Keys \cup Vals)]

CommandLines == [method : Methods, data : Seq(Keys \cup Vals), port : Ports,
                 conns : 1 .. MaxConns, rpcs : Nat]

\* A process of these connects at least once; what it reads is a key, and what
\* parses as a write is a key and a value.
ASSUME AssignmentsAssumption ==
  \A run \in Assignments :
    /\ run \in [Clients -> CommandLines]
    /\ \A k \in Clients :
         /\ run[k].method = "read" => Len(run[k].data) = 1 /\ run[k].data[1] \in Keys
         /\ run[k].method = "write" /\ ParsesAsWrite(run[k].data) =>
              run[k].data[1] \in Keys /\ run[k].data[2] \in Vals

Statuses  == {"Ok", "BadArg", "NotFound"}
Heads     == [seg : {"head"}, id : Nat, method : Methods, status : Statuses, data_len : Nat]
Responses == [status : Statuses, data : Seq(Keys \cup Vals)]
Answers   == [id : Nat, status : Statuses, data : Seq(Keys \cup Vals)]

\* What stands for the absence of a thing is not one.
ASSUME NoneAssumption ==
  /\ NoConn \notin Conns /\ NoReq \notin Requests
  /\ NoRes \notin Responses
  /\ Nothing \notin Heads /\ Nothing \notin Answers

\* Nor is it a call of KeyStore, made or served.
ASSUME IdleAssumption ==
  LET Call == [method : Methods, data : Seq(Keys \cup Vals)]
  IN  /\ Nothing \notin [st : {"open"}, call : Call]
      /\ Nothing \notin [st : {"served"}, call : Call, result : Responses]

VARIABLES
  faults,     \* faults so far
  performed   \* client -> history: the result of its open request, once the
              \* server has computed it, or NoRes

vars == <<netVars, clientVars, serverVars, faults, performed>>

Init ==
  /\ NetInit /\ ClientInit /\ ServerInit
  /\ faults = 0
  /\ performed = [k \in Clients |-> NoRes]

\* Thread p computes the result of the request of client k in this step.
Computes(p, k) ==
  res[p] = NoRes /\ res'[p] # NoRes /\ cur[p] # NoConn /\ cur[p][1] = k

\* The history of results, over a step of the server.
Observed ==
  performed' = [k \in Clients |->
    IF \E p \in Ports : Computes(p, k)
    THEN LET p == CHOOSE p \in Ports : Computes(p, k) IN res'[p]
    ELSE performed[k]]

\* The history forgets a result once the client goes on to another request.
Forgotten ==
  performed' = [k \in Clients |-> IF creq'[k] = creq[k] THEN performed[k] ELSE NoRes]

Clientele(k) == ClientStep(k) /\ Forgotten /\ UNCHANGED <<serverVars, faults>>

Thread(p) == ServerStep(p) /\ Observed /\ UNCHANGED <<clientVars, faults>>

Main == ServerExit /\ UNCHANGED <<clientVars, faults, performed>>

Fault ==
  /\ faults < MaxFaults
  /\ faults' = faults + 1
  /\ \/ \E k \in Clients : ClientKilled(k) /\ UNCHANGED serverVars
     \/ \E p \in Ports : ServerFault(p) /\ UNCHANGED clientVars
     \/ ServerDies /\ UNCHANGED clientVars
  /\ UNCHANGED performed

\* Every client has ended: the server waits for connections, or is gone.
Quiet ==
  /\ \A k \in Clients : cpc[k] \in Ended
  /\ \A p \in Ports : \/ proc # "up"
                      \/ spc[p] = "accept" /\ queue[p] = <<>>
                      \/ spc[p] = "ended"
  /\ UNCHANGED vars

Next ==
  \/ \E k \in Clients : Clientele(k)
  \/ \E p \in Ports : Thread(p)
  \/ Main \/ Fault \/ Quiet

Spec == Init /\ [][Next]_vars

\* The operating system keeps running every process and thread.
FairSpec ==
  /\ Spec
  /\ \A k \in Clients : WF_vars(Clientele(k))
  /\ \A p \in Ports : WF_vars(Thread(p))
  /\ WF_vars(Main)

-----------------------------------------------------------------------------
(* Properties *)

TypeOK ==
  /\ LockTypeOK
  /\ listening \in [Ports -> BOOLEAN]
  /\ \A p \in Ports : queue[p] \in Seq(Conns)
  /\ cl_open \in [Conns -> BOOLEAN] /\ sv_open \in [Conns -> BOOLEAN]
  /\ cpc \in [Clients -> ClientPC]
  /\ \A k \in Clients : conn_i[k] \in 1 .. MaxConns
  /\ \A k \in Clients : creq[k] = NoReq \/ creq[k] \in Requests
  /\ proc \in {"up", "exited", "died"}
  /\ spc \in [Ports -> ServerPC]
  /\ \A p \in Ports : cur[p] = NoConn \/ cur[p] \in Conns
  /\ \A p \in Ports : live[p] \in Nat
  /\ keystore \in [Keys -> Vals \cup {NoVal}]
  /\ raced \in BOOLEAN
  /\ faults \in 0 .. MaxFaults

\* The map is only ever raced on after the safety valve of the spinlock has
\* fired: until then no two threads are in a block that declares a SpinLock.
RaceNeedsGrab == raced => grabs > 0

\* The client's view of its call, for KeyStore.
CallOf(k) ==
  LET c == [method |-> creq[k].method, data |-> creq[k].data]
  IN  IF creq[k] = NoReq THEN Nothing
      ELSE IF performed[k] = NoRes THEN [st |-> "open", call |-> c]
      ELSE [st |-> "served", call |-> c, result |-> performed[k]]

AnswerOf(k) ==
  IF heard[k] = Nothing THEN Nothing
  ELSE [status |-> heard[k].status, data |-> heard[k].data]

\* What the clients can be told to call.
JobCalls ==
  {[method |-> run[k].method, data |-> run[k].data] : run \in Assignments, k \in Clients}

Store == INSTANCE KeyStore WITH
  Calls   <- JobCalls,
  Results <- SomeResult("write") \cup SomeResult("read"),
  Idle    <- Nothing,
  store   <- keystore,
  call    <- [k \in Clients |-> CallOf(k)],
  answer  <- [k \in Clients |-> AnswerOf(k)],
  broken  <- raced

\* Threads, connections, kills and lost replies notwithstanding, the clients see
\* a store on which each request takes effect at one moment, the first write of a
\* key wins, and the answer a client takes is the one to its own request. Only a
\* race on the map, after a forced grab of the lock, is excepted.
Linearizable == Store!StoreSpec

\* rpc.h: "Unique ID number for each outstanding request". The client does not
\* compare the rpc_id of a response with that of its request, and need not: the
\* response it is receiving is to the one request it has outstanding.
AnswersOwnRequest ==
  \A k \in Clients :
    rhead[k] # Nothing =>
      creq[k] # NoReq /\ rhead[k].id = creq[k].id /\ rhead[k].method = creq[k].method

LogOf(k) == slog[job[k].port]
Logged(log, record) == \E n \in DOMAIN log : log[n] = record

\* dumplogfile joins the two logs by rpc_id. Whatever is killed and whenever: a
\* response a client has logged answers a request the server had logged before.
ResponseHasServerRecord ==
  \A k \in Clients : \A n \in DOMAIN clog[k] :
    clog[k][n][1] = "Response" =>
      Logged(LogOf(k), <<"Request", k, clog[k][n][2], job[k].method>>)

\* A server log never holds a response that does not directly follow the record
\* of its own request: requests on a port are handled one at a time.
LogPairs ==
  \A p \in Ports : \A n \in DOMAIN slog[p] :
    LET record == slog[p][n]
    IN  record[1] = "Response" =>
          n > 1 /\ slog[p][n - 1] = <<"Request", record[2], record[3], record[4]>>

\* Request bodies on the heap are those of requests whose clients have not been
\* answered, and the one being answered: the leaks of rpc_recv_req and of the
\* unrecognized-command path cost one body for each client that gave up.
BodiesBounded ==
  \A p \in Ports :
    live[p] <= Cardinality({k \in Clients : job[k].port = p /\ creq[k] # NoReq})
               + IF spc[p] \in {"reply_body", "free"} THEN 1 ELSE 0

\* A port stops serving only because it never opened or because it was told to:
\* of all the ways a connection can end, quit alone ends the thread.
EndsByQuit ==
  \A p \in Ports :
    spc[p] = "ended" =>
      \/ slog[p] = <<>>
      \/ \E n \in DOMAIN slog[p] :
           slog[p][n][1] = "Request" /\ slog[p][n][4] = "quit"

\* Left to itself the system does not kill its server: no order of requests,
\* replies and closes makes it write to a client that is gone (SIGPIPE is not
\* handled), unless a process was killed or a port failed to open.
DeathNeedsFault == proc = "died" => faults > 0

\* Client k waits for a response that thread p will not send, as it waits for
\* the client's request on the same connection.
Deadlocked(k, p) ==
  /\ proc = "up" /\ cur[p] = ConnOf(k) /\ cl_open[cur[p]]
  /\ \/ cpc[k] = "recv_head" /\ ~HeadReady(down[cur[p]])
     \/ cpc[k] = "recv_body" /\ ~BodyReady(down[cur[p]], rhead[k].data_len)
  /\ \/ spc[p] = "recv_head" /\ ~HeadReady(up[cur[p]])
     \/ spc[p] = "recv_body" /\ ~BodyReady(up[cur[p]], req[p].data_len)

\* Neither end has a timeout, and both ignore what rpc_send_req and rpc_send_resp
\* return. Still, client and thread never wait for each other unless a write on
\* their connection stored only part of a message.
WaitNeedsShortWrite ==
  \A k \in Clients, p \in Ports :
    Deadlocked(k, p) => \E n \in DOMAIN (up[ConnOf(k)] \o down[ConnOf(k)]) :
                          (up[ConnOf(k)] \o down[ConnOf(k)])[n] = Part

\* Every client process ends, whoever else is killed and whichever ports do not
\* open: also one that waits in the accept queue behind another. Only a short
\* write, to which neither end has an answer, can keep one for ever.
ClientsEnd == \A k \in Clients : <>(cpc[k] \in Ended \/ shorts > 0)

\* A port that has received quit is eventually closed, its own thread gone,
\* whether or not the client that asked is still there to hear it.
QuitStops ==
  \A p \in Ports :
    (\E n \in DOMAIN slog[p] : slog[p][n][4] = "quit")
      ~> (spc[p] = "ended" \/ proc # "up" \/ shorts > 0)
=============================================================================
