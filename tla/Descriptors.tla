---------------------------- MODULE Descriptors ----------------------------
(***************************************************************************)
(* The descriptors of the server of ch6-network. All its threads share one  *)
(* table of them; each keeps the numbers of its listening socket, its log   *)
(* and its connection in variables. rpc_listen ignores what tcp_accept      *)
(* returns, so that after a failed accept the number in `connection' is     *)
(* one that was closed before, or was never set; it is read from, written   *)
(* to and closed all the same, whatever it stands for by then.              *)
(*                                                                          *)
(* A system call looks its number up once, on entry; from then on it holds  *)
(* the open file, also if the number is closed meanwhile. accept() claims   *)
(* the lowest free number before it waits, as Linux does.                   *)
(*                                                                          *)
(* A message is one write() and one read() here, and requests differ only   *)
(* in what the thread does next: "write" stands for all methods after which *)
(* it goes on with the connection. Number 0 stands for the three standard   *)
(* descriptors, with standard input at its end.                             *)
(***************************************************************************)
EXTENDS Naturals, Sequences, FiniteSets

CONSTANTS
  NPorts,     \* ports, and threads: 1 .. NPorts
  Clients,    \* client processes, each making one connection
  Jobs,       \* functions from Clients to [port, method]
  Junk,       \* bound: what `connection.sock_fd' may hold before it is first set
  Settings    \* bound: the systems considered, of records [limit, errors]: the size
              \* of the table (ulimit -n), and how many system calls fail for no
              \* reason in the program

ASSUME DescriptorsAssumption ==
  /\ NPorts \in Nat \ {0}
  /\ Settings \subseteq [limit : Nat \ {0}, errors : Nat]
  /\ \E s \in Settings : \A t \in Settings : t.limit <= s.limit
  /\ Junk \subseteq Nat
  /\ Jobs \subseteq [Clients -> [port : 1 .. NPorts, method : {"write", "quit"}]]

Ports == 1 .. NPorts
TableSize == CHOOSE n \in {s.limit : s \in Settings} : \A s \in Settings : s.limit <= n
Numbers == 0 .. TableSize - 1

Unset == TableSize   \* a variable that has not been assigned to

NoFile == <<"none", 0>>
Std == <<"std", 0>>
Listener(p) == <<"listen", p>>
LogOf(p) == <<"log", p>>
Claimed(p) == <<"claimed", p>>   \* by the accept() of thread p
Sock(k) == <<"sock", k>>

NoMsg == <<>>

VARIABLES
  limit,      \* the size of the table
  errors,     \* system calls that may still fail
  proc,       \* "up", "exited" or "died"
  spawned,    \* threads created by main()
  table,      \* number -> open file
  pc,         \* port -> where its thread stands
  listen_fd, log_fd, sock_fd,   \* port -> number
  held,       \* port -> file its thread is blocked on, or NoFile
  msg,        \* port -> request in hand, <<client, method>>, or NoMsg
  queue,      \* port -> connections to be accepted
  up, down,   \* client -> messages on their way to, from the server
  cpc,        \* client -> where it stands
  job         \* client -> what it does

\* History variables.
VARIABLES
  lost,       \* port -> which of its numbers may no longer be its own
  strayed,    \* such a number was used while it stood for an open file
  leaked,     \* connections dropped by tcp_accept without a close
  full        \* the table had no room

fdVars == <<listen_fd, log_fd, sock_fd>>
wireVars == <<queue, up, down>>
history == <<lost, strayed, leaked, full>>
vars == <<limit, errors, proc, spawned, table, pc, fdVars, held, msg, wireVars, cpc, job,
          history>>

NoFds(fds) == fds = [p \in Ports |-> Unset]

Init ==
  /\ \E s \in Settings : limit = s.limit /\ errors = s.errors
  /\ proc = "up" /\ spawned = 0
  /\ table = [n \in Numbers |-> IF n = 0 THEN Std ELSE NoFile]
  /\ pc = [p \in Ports |-> "none"]
  /\ NoFds(listen_fd) /\ NoFds(log_fd) /\ NoFds(sock_fd)
  /\ held = [p \in Ports |-> NoFile]
  /\ msg = [p \in Ports |-> NoMsg]
  /\ queue = [p \in Ports |-> <<>>]
  /\ up = [k \in Clients |-> <<>>] /\ down = [k \in Clients |-> <<>>]
  /\ cpc = [k \in Clients |-> "start"]
  /\ job \in Jobs
  /\ lost = [p \in Ports |-> {}]
  /\ strayed = FALSE /\ leaked = 0 /\ full = FALSE

-----------------------------------------------------------------------------
(* The table, the files and what keeps them open *)

\* The lowest free number, if there is one: a set of at most one element.
Lowest ==
  {n \in Numbers : /\ n < limit /\ table[n] = NoFile
                   /\ \A m \in 0 .. n - 1 : table[m] # NoFile}

File(n) == IF n \in Numbers THEN table[n] ELSE NoFile

IsListener(file) == file[1] = "listen"
IsSock(file) == file[1] = "sock"
IsOpen(n) == File(n)[1] \notin {"none", "claimed"}

\* close(): a number without an open file is refused.
Closed(t, n) == [m \in Numbers |-> IF m = n /\ t[m][1] # "claimed" THEN NoFile ELSE t[m]]

\* The number that the accept() of thread p has claimed.
ClaimOf(p) == CHOOSE n \in Numbers : table[n] = Claimed(p)

\* An open file lives while a number or a call in progress refers to it.
Lives(file) ==
  \/ \E n \in Numbers : table[n] = file
  \/ \E p \in Ports : held[p] = file

InQueue(k, p) == \E n \in DOMAIN queue[p] : queue[p][n] = k

\* The server's end of the connection of k is there.
Attached(k) ==
  \/ Lives(Sock(k))
  \/ InQueue(k, job[k].port) /\ Lives(Listener(job[k].port))

\* The process is gone, with its threads, their variables and all its files.
Gone(how) ==
  /\ proc' = how
  /\ table' = [n \in Numbers |-> NoFile]
  /\ pc' = [p \in Ports |-> "ended"]
  /\ NoFds(listen_fd') /\ NoFds(log_fd') /\ NoFds(sock_fd')
  /\ held' = [p \in Ports |-> NoFile]
  /\ msg' = [p \in Ports |-> NoMsg]

\* Thread p uses number n, one of its own unless `which' of them is lost.
Uses(p, which, n) == strayed' = (strayed \/ (which \in lost[p] /\ IsOpen(n)))

\* A system call fails for reasons of its own.
Errs == errors > 0 /\ errors' = errors - 1

Goto(p, from, to) ==
  /\ pc[p] = from
  /\ pc' = [pc EXCEPT ![p] = to]

-----------------------------------------------------------------------------
(* main(): the threads are created one by one *)

\* Mutant of Spawn: one thread too many.
SpawnOneMore ==
  /\ proc = "up" /\ spawned <= NPorts
  /\ spawned' = spawned + 1
  /\ IF spawned < NPorts THEN Goto(spawned', "none", "listen") ELSE UNCHANGED pc
  /\ UNCHANGED <<errors, proc, table, fdVars, held, msg>>

Spawn ==
  /\ proc = "up" /\ spawned < NPorts
  /\ spawned' = spawned + 1
  /\ Goto(spawned', "none", "listen")
  /\ UNCHANGED <<errors, proc, table, fdVars, held, msg>>

\* pthread_create fails: exit(1), whatever the other threads are doing.
SpawnFails ==
  /\ proc = "up" /\ spawned < NPorts
  /\ Errs
  /\ Gone("exited")
  /\ UNCHANGED spawned

\* All threads joined, main() returns.
Return ==
  /\ proc = "up" /\ spawned = NPorts
  /\ \A p \in Ports : pc[p] = "ended"
  /\ Gone("exited")
  /\ UNCHANGED <<spawned, errors>>

Main == (Spawn \/ SpawnFails \/ Return) /\ UNCHANGED <<limit, wireVars, cpc, job, history>>

-----------------------------------------------------------------------------
(* rpc_listen: the two descriptors of a thread *)

Listen(p) ==
  /\ Goto(p, "listen", "creat")
  /\ \E n \in Lowest :
       /\ table' = [table EXCEPT ![n] = Listener(p)]
       /\ listen_fd' = [listen_fd EXCEPT ![p] = n]
  /\ UNCHANGED <<errors, proc, log_fd, sock_fd, held, msg, wireVars, history>>

\* socket() finds no number, or bind() or listen() fails and the socket is
\* closed: the thread ends, the others are not told.
ListenFails(p) ==
  /\ Goto(p, "listen", "ended")
  /\ \/ Lowest = {} /\ full' = TRUE /\ UNCHANGED errors
     \/ Lowest # {} /\ Errs /\ UNCHANGED full
  /\ UNCHANGED <<proc, table, fdVars, held, msg, wireVars, lost, strayed, leaked>>

Creat(p) ==
  /\ Goto(p, "creat", "accept")
  /\ \E n \in Lowest :
       /\ table' = [table EXCEPT ![n] = LogOf(p)]
       /\ log_fd' = [log_fd EXCEPT ![p] = n]
  /\ UNCHANGED <<errors, proc, listen_fd, sock_fd, held, msg, wireVars, history>>

\* creat() finds no number: exit(1) for all threads.
CreatFails(p) ==
  /\ pc[p] = "creat" /\ Lowest = {}
  /\ Gone("exited")
  /\ full' = TRUE
  /\ UNCHANGED <<errors, wireVars, lost, strayed, leaked>>

-----------------------------------------------------------------------------
(* tcp_accept, and rpc_listen that goes on whatever comes of it *)

\* accept() is called: it claims a number and waits for a connection.
AcceptEnter(p) ==
  /\ Goto(p, "accept", "accepting")
  /\ IsListener(File(listen_fd[p]))
  /\ \E n \in Lowest : table' = [table EXCEPT ![n] = Claimed(p)]
  /\ held' = [held EXCEPT ![p] = File(listen_fd[p])]
  /\ Uses(p, "listen", listen_fd[p])
  /\ UNCHANGED <<errors, proc, fdVars, msg, wireVars, lost, leaked, full>>

\* tcp_accept has returned -1: sock_fd is what it was in the last iteration, or
\* in the first one anything that was on the stack. The numbers in `which' are
\* not, or may not be, the thread's own any more.
Unassigned(p, which) ==
  /\ \E n \in IF sock_fd[p] = Unset THEN Junk ELSE {sock_fd[p]} :
       sock_fd' = [sock_fd EXCEPT ![p] = n]
  /\ lost' = [lost EXCEPT ![p] = @ \cup which]
  /\ UNCHANGED <<listen_fd, log_fd>>

\* accept() fails at once: no listening socket (EBADF, ENOTSOCK, EINVAL), or no
\* room in the table (EMFILE).
AcceptRefused(p) ==
  /\ Goto(p, "accept", "read")
  /\ ~IsListener(File(listen_fd[p])) \/ Lowest = {}
  /\ full' = (full \/ Lowest = {})
  /\ Unassigned(p, {"sock"})
  /\ UNCHANGED <<errors, proc, table, held, msg, wireVars, strayed, leaked>>

\* The next connection of the queue, for the accept() thread p waits in.
NextConn(p) == queue[held[p][2]][1]
Dequeued(p) ==
  /\ queue[held[p][2]] # <<>>
  /\ queue' = [queue EXCEPT ![held[p][2]] = Tail(@)]
  /\ held' = [held EXCEPT ![p] = NoFile]

\* Mutant of AcceptReturns: `connection' is one variable for all threads.
AcceptReturnsShared(p) ==
  /\ Goto(p, "accepting", "read")
  /\ Dequeued(p)
  /\ table' = [table EXCEPT ![ClaimOf(p)] = Sock(NextConn(p))]
  /\ sock_fd' = [q \in Ports |-> ClaimOf(p)]
  /\ lost' = [lost EXCEPT ![p] = @ \ {"sock"}]
  /\ UNCHANGED <<errors, proc, listen_fd, log_fd, msg, up, down, strayed, leaked, full>>

AcceptReturns(p) ==
  /\ Goto(p, "accepting", "read")
  /\ Dequeued(p)
  /\ table' = [table EXCEPT ![ClaimOf(p)] = Sock(NextConn(p))]
  /\ sock_fd' = [sock_fd EXCEPT ![p] = ClaimOf(p)]
  /\ lost' = [lost EXCEPT ![p] = @ \ {"sock"}]
  /\ UNCHANGED <<errors, proc, listen_fd, log_fd, msg, up, down, strayed, leaked, full>>

\* The connection was reset while it was in the queue (ECONNABORTED), or accept()
\* had to give up before it took one (ENOMEM).
AcceptAborted(p) ==
  /\ Goto(p, "accepting", "read")
  /\ Errs
  /\ Dequeued(p) \/ (held' = [held EXCEPT ![p] = NoFile] /\ UNCHANGED queue)
  /\ table' = [table EXCEPT ![ClaimOf(p)] = NoFile]
  /\ Unassigned(p, {"sock"})
  /\ UNCHANGED <<proc, msg, up, down, strayed, leaked, full>>

\* getsockname() fails: tcp_accept closes the listening socket, not the new one.
GetsocknameFails(p) ==
  /\ Goto(p, "accepting", "read")
  /\ Errs
  /\ Dequeued(p)
  /\ table' = Closed([table EXCEPT ![ClaimOf(p)] = Sock(NextConn(p))], listen_fd[p])
  /\ Unassigned(p, {"sock", "listen"})
  /\ Uses(p, "listen", listen_fd[p])
  /\ leaked' = leaked + 1
  /\ UNCHANGED <<proc, msg, up, down, full>>

-----------------------------------------------------------------------------
(* handle_rpc_conn: reading and writing by number *)

Over == {"done", "failed"}

\* read() waits if the number stands for a connection.
ReadEnter(p) ==
  /\ pc[p] = "read" /\ held[p] = NoFile
  /\ IsSock(File(sock_fd[p]))
  /\ held' = [held EXCEPT ![p] = File(sock_fd[p])]
  /\ Uses(p, "sock", sock_fd[p])
  /\ UNCHANGED <<errors, proc, table, pc, fdVars, msg, wireVars, lost, leaked, full>>

\* Mutant of ReadFails: only an error ends the connection, not its end.
ReadFailsAtError(p) ==
  /\ Goto(p, "read", "hangup")
  /\ held[p] = NoFile /\ ~IsSock(File(sock_fd[p]))
  /\ Uses(p, "sock", sock_fd[p])
  /\ UNCHANGED <<errors, proc, table, fdVars, held, msg, wireVars, lost, leaked, full>>

\* rpc_recv_req fails: there is nothing to read from, or the client has closed.
ReadFails(p) ==
  /\ Goto(p, "read", "hangup")
  /\ \/ held[p] = NoFile /\ ~IsSock(File(sock_fd[p]))
     \/ IsSock(held[p]) /\ up[held[p][2]] = <<>> /\ cpc[held[p][2]] \in Over
  /\ held' = [held EXCEPT ![p] = NoFile]
  /\ Uses(p, "sock", sock_fd[p])
  /\ UNCHANGED <<errors, proc, table, fdVars, msg, wireVars, lost, leaked, full>>

\* A request is in: who made it, and its method.
ReadRequest(p) ==
  /\ Goto(p, "read", "log")
  /\ IsSock(held[p])
  /\ LET k == held[p][2]
     IN  /\ up[k] # <<>>
         /\ up' = [up EXCEPT ![k] = Tail(@)]
         /\ msg' = [msg EXCEPT ![p] = <<k, Head(up[k])>>]
  /\ held' = [held EXCEPT ![p] = NoFile]
  /\ UNCHANGED <<errors, proc, table, fdVars, queue, down, history>>

\* Through these numbers a write goes somewhere; through these it may kill the
\* process with SIGPIPE: a connection whose client has gone, a listening socket.
Writable(n) == IsOpen(n) /\ ~IsListener(File(n))
Kills(n) == IsListener(File(n)) \/ (IsSock(File(n)) /\ cpc[File(n)[2]] \in Over)

\* A thing is written through number n. To a client that has gone, it is lost.
Written(n, thing) ==
  down' = [k \in Clients |-> IF File(n) = Sock(k) /\ cpc[k] \notin Over
                             THEN Append(down[k], thing) ELSE down[k]]

\* log(): nobody looks at what comes of it.
Logs(p) ==
  IF Writable(log_fd[p]) THEN Written(log_fd[p], "Record")
  ELSE ~Kills(log_fd[p]) /\ UNCHANGED down

\* Where a thread goes on after the answer to its request.
Answered(p) == IF msg[p][2] = "quit" THEN "hangup" ELSE "read"
Forgotten(p) == msg' = [msg EXCEPT ![p] = IF @[2] = "quit" THEN @ ELSE NoMsg]

LogRequest(p) ==
  /\ Goto(p, "log", "reply")
  /\ Logs(p)
  /\ UNCHANGED <<errors, proc, table, fdVars, held, msg, queue, up, history>>

Reply(p) ==
  /\ Goto(p, "reply", "note")
  /\ Writable(sock_fd[p])
  /\ Written(sock_fd[p], "Response")
  /\ Uses(p, "sock", sock_fd[p])
  /\ UNCHANGED <<errors, proc, table, fdVars, held, msg, queue, up, lost, leaked, full>>

\* rpc_send_resp returns -1 without a record, and nobody looks.
ReplyFails(p) ==
  /\ Goto(p, "reply", Answered(p))
  /\ ~IsOpen(sock_fd[p])
  /\ Forgotten(p)
  /\ UNCHANGED <<errors, proc, table, fdVars, held, wireVars, history>>

LogResponse(p) ==
  /\ Goto(p, "note", Answered(p))
  /\ Logs(p)
  /\ Forgotten(p)
  /\ UNCHANGED <<errors, proc, table, fdVars, held, queue, up, history>>

\* A write of thread p raises SIGPIPE.
Sigpipe(p) ==
  /\ \/ pc[p] \in {"log", "note"} /\ Kills(log_fd[p])
     \/ pc[p] = "reply" /\ Kills(sock_fd[p])
  /\ Gone("died")
  /\ UNCHANGED <<errors, wireVars, history>>

-----------------------------------------------------------------------------
(* rpc_listen: the descriptors are closed *)

\* Mutant of Hangup: only a quit closes the connection.
HangupForgotten(p) ==
  /\ Goto(p, "hangup", IF msg[p] = NoMsg THEN "accept" ELSE "close_listen")
  /\ table' = IF msg[p] = NoMsg THEN table ELSE Closed(table, sock_fd[p])
  /\ Uses(p, "sock", sock_fd[p])
  /\ msg' = [msg EXCEPT ![p] = NoMsg]
  /\ UNCHANGED <<errors, proc, fdVars, held, wireVars, lost, leaked, full>>

Hangup(p) ==
  /\ Goto(p, "hangup", IF msg[p] = NoMsg THEN "accept" ELSE "close_listen")
  /\ table' = Closed(table, sock_fd[p])
  /\ Uses(p, "sock", sock_fd[p])
  /\ msg' = [msg EXCEPT ![p] = NoMsg]
  /\ UNCHANGED <<errors, proc, fdVars, held, wireVars, lost, leaked, full>>

CloseListen(p) ==
  /\ Goto(p, "close_listen", "close_log")
  /\ table' = Closed(table, listen_fd[p])
  /\ Uses(p, "listen", listen_fd[p])
  /\ UNCHANGED <<errors, proc, fdVars, held, msg, wireVars, lost, leaked, full>>

\* Mutant of CloseLog: the listening socket is closed once more, the log is not.
CloseLogMistaken(p) ==
  /\ Goto(p, "close_log", "ended")
  /\ table' = Closed(table, listen_fd[p])
  /\ UNCHANGED <<errors, proc, fdVars, held, msg, wireVars, history>>

CloseLog(p) ==
  /\ Goto(p, "close_log", "ended")
  /\ table' = Closed(table, log_fd[p])
  /\ UNCHANGED <<errors, proc, fdVars, held, msg, wireVars, history>>

Accept(p) ==
  \/ AcceptEnter(p) \/ AcceptRefused(p) \/ AcceptReturns(p)
  \/ AcceptAborted(p) \/ GetsocknameFails(p)

Serve(p) ==
  \/ ReadEnter(p) \/ ReadFails(p) \/ ReadRequest(p)
  \/ LogRequest(p) \/ Reply(p) \/ ReplyFails(p) \/ LogResponse(p) \/ Sigpipe(p)

Thread(p) ==
  /\ proc = "up"
  /\ \/ Listen(p) \/ ListenFails(p) \/ Creat(p) \/ CreatFails(p)
     \/ Accept(p) \/ Serve(p)
     \/ Hangup(p) \/ CloseListen(p) \/ CloseLog(p)
  /\ UNCHANGED <<limit, spawned, cpc, job>>

-----------------------------------------------------------------------------
(* A client: tcp_connect, a request, its answer, the end *)

ClientGoto(k, from, to) ==
  /\ cpc[k] = from
  /\ cpc' = [cpc EXCEPT ![k] = to]

\* The connection is made and the request written: it need not be accepted yet.
Call(k) ==
  /\ ClientGoto(k, "start", "wait")
  /\ Lives(Listener(job[k].port))
  /\ queue' = [queue EXCEPT ![job[k].port] = Append(@, k)]
  /\ up' = [up EXCEPT ![k] = <<job[k].method>>]
  /\ UNCHANGED down

ConnectFails(k) ==
  /\ ClientGoto(k, "start", "failed")
  /\ ~Lives(Listener(job[k].port))
  /\ UNCHANGED wireVars

\* Mutant of Receive: the answer is not waited for.
ReceiveNothing(k) ==
  /\ ClientGoto(k, "wait", "done")
  /\ UNCHANGED wireVars

Receive(k) ==
  /\ ClientGoto(k, "wait", "done")
  /\ down[k] # <<>> /\ Head(down[k]) = "Response"
  /\ down' = [down EXCEPT ![k] = <<>>]
  /\ UNCHANGED <<queue, up>>

\* What comes is no response, or the other end is gone: exit(1). A connection
\* closed with something unread is reset, and what was on its way lost.
GivesUp(k) ==
  /\ ClientGoto(k, "wait", "failed")
  /\ \/ down[k] # <<>> /\ Head(down[k]) # "Response"
     \/ ~Attached(k) /\ (down[k] = <<>> \/ up[k] # <<>>)
  /\ down' = [down EXCEPT ![k] = <<>>]
  /\ UNCHANGED <<queue, up>>

Client(k) ==
  /\ Call(k) \/ ConnectFails(k) \/ Receive(k) \/ GivesUp(k)
  /\ UNCHANGED <<limit, errors, proc, spawned, table, pc, fdVars, held, msg, job, history>>

Next == Main \/ (\E p \in Ports : Thread(p)) \/ (\E k \in Clients : Client(k))

Spec == Init /\ [][Next]_vars

\* Every thread and process is given its turns.
FairSpec ==
  /\ Spec
  /\ WF_vars(Main)
  /\ \A p \in Ports : WF_vars(Thread(p))
  /\ \A k \in Clients : WF_vars(Client(k))

-----------------------------------------------------------------------------
(* Properties *)

Files ==
  {NoFile, Std} \cup {Listener(p) : p \in Ports} \cup {LogOf(p) : p \in Ports}
    \cup {Claimed(p) : p \in Ports} \cup {Sock(k) : k \in Clients}

PCs == {"none", "listen", "creat", "accept", "accepting", "read", "log", "reply", "note",
        "hangup", "close_listen", "close_log", "ended"}

\* Variables keep to the values described above. A listening socket, a log and a
\* connection each have at most one number, below the limit.
TypeOK ==
  /\ proc \in {"up", "exited", "died"} /\ spawned \in 0 .. NPorts
  /\ table \in [Numbers -> Files] /\ held \in [Ports -> Files]
  /\ \A n, m \in Numbers : table[n] = table[m] => n = m \/ table[n] = NoFile
  /\ \A n \in Numbers : n >= limit => table[n] = NoFile
  /\ pc \in [Ports -> PCs]
  /\ \A p \in Ports : /\ {listen_fd[p], log_fd[p]} \subseteq Numbers \cup {Unset}
                      /\ sock_fd[p] \in Numbers \cup {Unset} \cup Junk
                      /\ msg[p] = NoMsg \/ msg[p] \in Clients \X {"write", "quit"}
                      /\ lost[p] \subseteq {"sock", "listen"}
  /\ cpc \in [Clients -> {"start", "wait"} \cup Over]

Opened(p) == pc[p] \notin {"none", "listen", "ended"}
Serving(p) == pc[p] \in {"read", "log", "reply", "note", "hangup"}

\* A failed accept by itself harms nobody, and neither do ends of connections and
\* threads in any order: until a thread has used a number that tcp_accept left
\* it with and that stood for an open file by then, each thread's numbers stand
\* for its own listening socket, its own log, and a connection to its own port.
OwnDescriptors ==
  proc = "up" /\ ~strayed =>
    \A p \in Ports :
      /\ Opened(p) /\ pc[p] # "close_log" /\ "listen" \notin lost[p] =>
           File(listen_fd[p]) = Listener(p)
      /\ Opened(p) /\ pc[p] # "creat" => File(log_fd[p]) = LogOf(p)
      /\ Serving(p) /\ "sock" \notin lost[p] =>
           \E k \in Clients : job[k].port = p /\ File(sock_fd[p]) = Sock(k)

\* With the same exception, a thread answers on the connection it has read the
\* request from, though each call looks the number up again, and logs to its log.
OwnAnswers ==
  proc = "up" /\ ~strayed =>
    \A p \in Ports :
      pc[p] \in {"log", "reply", "note"} =>
        /\ job[msg[p][1]].port = p
        /\ File(sock_fd[p]) = Sock(msg[p][1])
        /\ File(log_fd[p]) = LogOf(p)

\* The numbers the threads know of.
Known ==
  LET open == {p \in Ports : Opened(p)}
  IN  {0} \cup {listen_fd[p] : p \in open} \cup {log_fd[p] : p \in open}
          \cup {sock_fd[p] : p \in {q \in Ports : Serving(q)}}
          \cup {n \in Numbers : table[n][1] = "claimed"}

\* Whatever fails and whatever strays, no open number is forgotten, except one for
\* each failed getsockname() in tcp_accept; so a server on n ports needs three
\* numbers for each and no more: with room for these it never sees EMFILE.
RoomForAll ==
  /\ Cardinality({n \in Numbers : table[n] # NoFile} \ Known) <= leaked
  /\ full => limit < 1 + 3 * NPorts + leaked

\* A server whose clients wait for their answers is not killed by SIGPIPE, unless
\* a thread has strayed.
DeathNeedsStray == proc = "died" => strayed

\* Each client ends: it has its answer, or sees its connection refused or closed.
\* Aborted connections and errors of other threads do not make it wait for ever:
\* it takes a stray number, a leaked connection or a table without room.
ClientsAnswered == \A k \in Clients : <>(cpc[k] \in Over \/ strayed \/ leaked > 0 \/ full)
=============================================================================
