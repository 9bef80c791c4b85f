------------------------------- MODULE Network -------------------------------
(***************************************************************************)
(* TCP as ch6-network uses it through network.cc: listening sockets with a  *)
(* bounded accept queue, and connections made of two byte streams. The      *)
(* unit of a stream is what one write() of rpc.cc puts on it: the mark and  *)
(* header of a message (its head) or its body. A write that stored only     *)
(* some of its bytes leaves a "part" segment behind: no later write goes to *)
(* the same stream, so a readn() that needs the rest never finds it.        *)
(*                                                                          *)
(* Connection <<k, i>> is the i-th one client process k opens.              *)
(***************************************************************************)
EXTENDS Integers, Sequences, FiniteSets

CONSTANTS
  Ports,      \* the ports [START_PORT, END_PORT] of the server
  Clients,    \* client processes
  MaxConns,   \* bound: connections per client (args.n_conns)
  Backlog,    \* SOCK_BACKLOG
  MaxShorts   \* bound: writes that store less than they were asked to

ASSUME ClientsAssumption == IsFiniteSet(Clients)
ASSUME ConnsAssumption   == MaxConns \in Nat
ASSUME BacklogAssumption == Backlog \in Nat
ASSUME ShortsAssumption  == MaxShorts \in Nat

VARIABLES
  listening,  \* port -> is there a socket in the listening state
  queue,      \* port -> connections established and not yet accepted
  up, down,   \* connection -> segments on their way to the server, the client
  cl_open,    \* connection -> the client's end is open
  sv_open,    \* connection -> the server's end is open
  reset,      \* connections one end has sent a RST on
  shorts      \* short writes so far

netVars == <<listening, queue, up, down, cl_open, sv_open, reset, shorts>>

Conns == Clients \X (1 .. MaxConns)

\* Segments. `data_len' is of the mark, `id', `method' and `status' are of the
\* header; `data' is the body, already cut into its parts. A body of no bytes
\* puts nothing on the stream, and readn() of no bytes takes nothing off it.
HeadSeg(id, method, status, data) ==
  [seg |-> "head", id |-> id, method |-> method, status |-> status,
   data_len |-> Len(data)]
BodySeg(data) == [seg |-> "body", data |-> data]
Part          == [seg |-> "part"]

NetInit ==
  /\ listening = [p \in Ports |-> FALSE]
  /\ queue = [p \in Ports |-> <<>>]
  /\ up = [c \in Conns |-> <<>>]
  /\ down = [c \in Conns |-> <<>>]
  /\ cl_open = [c \in Conns |-> FALSE]
  /\ sv_open = [c \in Conns |-> FALSE]
  /\ reset = {}
  /\ shorts = 0

-----------------------------------------------------------------------------
(* Connections *)

\* tcp_connect succeeds: the kernel completes the handshake and queues the
\* connection, whether or not the server ever accepts it. listen(fd, n) lets
\* n + 1 connections wait.
TcpConnect(c, p) ==
  /\ listening[p]
  /\ Len(queue[p]) <= Backlog
  /\ queue' = [queue EXCEPT ![p] = Append(@, c)]
  /\ cl_open' = [cl_open EXCEPT ![c] = TRUE]
  /\ sv_open' = [sv_open EXCEPT ![c] = TRUE]
  /\ UNCHANGED <<listening, up, down, reset, shorts>>

\* tcp_connect returns -1: nobody listens, or the queue stayed full until the
\* connection attempt timed out.
TcpRefused(p) == ~listening[p] \/ Len(queue[p]) > Backlog

\* tcp_listen: socket, bind and listen succeed.
TcpListen(p) ==
  /\ listening' = [listening EXCEPT ![p] = TRUE]
  /\ UNCHANGED <<queue, up, down, cl_open, sv_open, reset, shorts>>

\* tcp_accept: the oldest waiting connection.
TcpAccept(p) ==
  /\ queue[p] # <<>>
  /\ queue' = [queue EXCEPT ![p] = Tail(@)]
  /\ UNCHANGED <<listening, up, down, cl_open, sv_open, reset, shorts>>

\* Closing an end that has not read all it was sent resets the connection.
ClientEndClosed(c) ==
  /\ cl_open' = [cl_open EXCEPT ![c] = FALSE]
  /\ reset' = reset \cup {d \in {c} : cl_open[d] /\ down[d] # <<>>}
  /\ UNCHANGED <<listening, queue, up, down, sv_open, shorts>>

ServerEndClosed(c) ==
  /\ sv_open' = [sv_open EXCEPT ![c] = FALSE]
  /\ reset' = reset \cup {d \in {c} : sv_open[d] /\ up[d] # <<>>}
  /\ UNCHANGED <<listening, queue, up, down, cl_open, shorts>>

\* The connections of these ports that nobody has accepted.
Unaccepted(ps) == UNION {{queue[p][n] : n \in DOMAIN queue[p]} : p \in ps}

\* Closing a listening socket also resets the connections nobody accepted.
ListenClosed(p) ==
  /\ listening' = [listening EXCEPT ![p] = FALSE]
  /\ queue' = [queue EXCEPT ![p] = <<>>]
  /\ sv_open' = [c \in Conns |-> sv_open[c] /\ c \notin Unaccepted({p})]
  /\ reset' = reset \cup Unaccepted({p})
  /\ UNCHANGED <<up, down, cl_open, shorts>>

\* The kernel closes everything a dead server process had open.
ServerHostClosed ==
  /\ listening' = [p \in Ports |-> FALSE]
  /\ queue' = [p \in Ports |-> <<>>]
  /\ sv_open' = [c \in Conns |-> FALSE]
  /\ reset' = reset \cup Unaccepted(Ports)
                    \cup {c \in Conns : sv_open[c] /\ up[c] # <<>>}
  /\ UNCHANGED <<up, down, cl_open, shorts>>

-----------------------------------------------------------------------------
(* Streams *)

\* What write() may do: store everything; store less than asked for (a job
\* control signal caught the writer waiting for buffer space, which takes more
\* bytes than a head has); lose the bytes unnoticed, the other end being closed;
\* and, once a RST may have arrived, fail or raise SIGPIPE as well.
WriteResults(c, seg, peer_open) ==
  IF c \in reset THEN {"lost", "fail", "sigpipe"}
  ELSE IF ~peer_open THEN {"lost"}
  ELSE IF seg.seg = "body" /\ seg.data # <<>> /\ shorts < MaxShorts
       THEN {"all", "short"}
  ELSE {"all"}

\* Bytes sent to a closed end are answered with a RST; a short write is counted.
Sent(c, seg, peer_open, result) ==
  /\ reset' = IF peer_open \/ seg = BodySeg(<<>>) THEN reset ELSE reset \cup {c}
  /\ shorts' = IF result = "short" THEN shorts + 1 ELSE shorts

\* The write left a count that rpc.cc takes for success.
Wrote(result) == result \in {"all", "lost"}

\* The stream after such a write.
Stored(stream, seg, result) ==
  CASE result = "short"                           -> Append(stream, Part)
    [] result = "all" /\ seg # BodySeg(<<>>)      -> Append(stream, seg)
    [] OTHER                                      -> stream

\* readn() finds all of a head.
HeadReady(stream) == stream # <<>> /\ stream[1].seg = "head"

\* readn() finds all of a body, data_len bytes long by its mark.
BodyReady(stream, data_len) ==
  data_len = 0 \/ (stream # <<>> /\ stream[1].seg = "body")

\* That body, and the stream without it.
BodyData(stream, data_len) == IF data_len = 0 THEN <<>> ELSE stream[1].data
BodyTaken(stream, data_len) == IF data_len = 0 THEN stream ELSE Tail(stream)

\* readn() returns -1: what it needs is not there and never will be.
AtEnd(stream, peer_open) ==
  ~peer_open /\ \A n \in DOMAIN stream : stream[n] = Part
=============================================================================
