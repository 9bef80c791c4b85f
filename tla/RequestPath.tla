----------------------------- MODULE RequestPath -----------------------------
(***************************************************************************)
(* The way of a request in ch6-network, from a command line to the store    *)
(* and back: parse_args, gen_str, WriteRequest::Make, the byte stream of    *)
(* RpcStream, WriteRequest::FromBody and the handlers. Client processes run *)
(* one after the other against one port, each with the command line and the *)
(* body of an element of `work'; most bodies are those client.cc makes, the *)
(* others come from different programs on the same library.                 *)
(*                                                                          *)
(* proc is where the client process stands:                                 *)
(*   start, parse            before and in parse_args                       *)
(*   connect, talk           in the loops of main()                         *)
(*   done, failed, crashed   main returned, exit(1), or a null pointer read *)
(***************************************************************************)
EXTENDS CommandLine, WriteRequest, RpcStream, FiniteSets

CONSTANTS
  Works,     \* the sequences of processes considered, of records [argv, body]
  Made,      \* in place of a body: the one client.cc makes of its command line
  Chars,     \* token -> its characters, a sequence of units
  FooBarBaz  \* "foo bar baz", what gen_str gives without a base

\* Every argument has characters, and less of them than 32 bits can count: the kernel
\* allows 2^17.
ASSUME CharsAssumption ==
  /\ \A token \in DOMAIN Chars : Chars[token] \in Seq(Units) /\ Len(Chars[token]) < ValueMod
  /\ FooBarBaz \in Seq(Units)

\* Where FromBody looks for the lengths of a write there are numbers, if the body is
\* long enough.
HoldsLengths(body) ==
  /\ Len(body) >= 1 => body[1] \in [num : Nat]
  /\ Len(body) >= HdrLen => body[HdrLen] \in [num : Nat]

\* There is a process, and each has a command line.
ASSUME WorksAssumption ==
  \A processes \in Works :
    /\ processes \in Seq([argv : Seq(DOMAIN Chars), body : {Made} \cup Seq(Units)])
    /\ processes # <<>>
    /\ \A n \in DOMAIN processes :
         processes[n].body # Made => HoldsLengths(processes[n].body)

ASSUME NullAssumption == NULL \notin Seq(Units)

VARIABLES
  work,      \* the processes
  turn,      \* which of them runs
  proc,      \* see above
  conns,     \* connections made by it
  rpcs,      \* requests answered on this connection
  next_id,   \* next_rpc_id
  store,     \* the server's keystore, key -> value
  serving,   \* the server's thread accepts connections
  answers    \* history: the answered requests, [turn, method, key, value, status, data]

pathVars == <<work, turn, proc, conns, rpcs, next_id, store, serving, answers>>
vars == <<pathVars, lineVars, streamVars>>

Over == {"done", "failed", "crashed"}

Init ==
  /\ work \in Works
  /\ turn = 1
  /\ proc = "start"
  /\ conns = 0 /\ rpcs = 0
  /\ next_id = 1
  /\ store = <<>>
  /\ serving = TRUE
  /\ answers = <<>>
  /\ LineInit
  /\ StreamInit

-----------------------------------------------------------------------------
(* The client process *)

\* The process with this number starts.
Start ==
  /\ proc = "start"
  /\ proc' = "parse"
  /\ LineStarts(work[turn].argv)
  /\ UNCHANGED <<work, turn, conns, rpcs, next_id, store, serving, answers, streamVars>>

Parse ==
  /\ proc = "parse"
  /\ ParseStep
  /\ proc' = CASE parse' = "parsed"  -> "connect"
               [] parse' = "usage"   -> "failed"
               [] parse' = "crashed" -> "crashed"
               [] OTHER              -> "parse"
  /\ UNCHANGED <<work, turn, conns, rpcs, next_id, store, serving, answers, streamVars>>

\* The head of the connection loop; the server accepts, unless it has quit.
Connect ==
  /\ proc = "connect"
  /\ conns < args.n_conns
  /\ stage["server"] = "off"
  /\ IF serving
     THEN /\ Opened
          /\ proc' = "talk"
          /\ conns' = conns + 1 /\ rpcs' = 0
     ELSE /\ proc' = "failed"
          /\ UNCHANGED <<streamVars, conns, rpcs>>
  /\ UNCHANGED <<work, turn, next_id, store, serving, answers, lineVars>>

\* The end of it: main returns.
Return ==
  /\ proc = "connect"
  /\ conns = args.n_conns
  /\ proc' = "done"
  /\ UNCHANGED <<work, turn, conns, rpcs, next_id, store, serving, answers,
                 lineVars, streamVars>>

\* gen_str_direct: the base as it is, whatever the other fields of the StrConfig.
gen_str(base) == IF base = NoBase THEN FooBarBaz ELSE Chars[base]

\* The body of the request, or NULL.
BodyOf(method) ==
  IF work[turn].body # Made THEN work[turn].body
  ELSE CASE method = "ping"  -> gen_str(args.value)
         [] method = "quit"  -> <<>>
         [] method = "write" -> Make(gen_str(args.key), gen_str(args.value))
         [] method = "read"  -> gen_str(args.key)

\* The head of the request loop, and the first write of rpc_send_req.
SendRequest ==
  /\ proc = "talk"
  /\ rpcs < args.rpcs_per_conn
  /\ BodyOf(args.command) # NULL
  /\ SendHead("client", Request(next_id, args.command, BodyOf(args.command)))
  /\ next_id' = next_id + 1
  /\ UNCHANGED <<work, turn, proc, conns, rpcs, store, serving, answers, lineVars>>

\* full_len() of a request that Make has refused to make.
CrashOnNull ==
  /\ proc = "talk" /\ stage["client"] = "ready"
  /\ rpcs < args.rpcs_per_conn
  /\ BodyOf(args.command) = NULL
  /\ proc' = "crashed"
  /\ Closed("client")
  /\ UNCHANGED <<work, turn, conns, rpcs, next_id, store, serving, answers, lineVars>>

\* What a client does until it has its answer. Taking it ends a round of the loop.
ClientGetsOn ==
  /\ proc = "talk"
  /\ \/ SendBody("client") /\ UNCHANGED <<rpcs, answers>>
     \/ Receive("client")
        /\ IF stage["client"] # "ready" /\ stage'["client"] = "ready"
           THEN /\ rpcs' = rpcs + 1
                /\ answers' = Append(answers,
                     [turn |-> turn, method |-> args.command,
                      key |-> gen_str(args.key), value |-> gen_str(args.value),
                      status |-> taken'["client"].header.status,
                      data |-> taken'["client"].data])
           ELSE UNCHANGED <<rpcs, answers>>
  /\ UNCHANGED <<work, turn, proc, conns, next_id, store, serving, lineVars>>

\* close() at the end of the connection loop.
Close ==
  /\ proc = "talk" /\ stage["client"] = "ready"
  /\ rpcs = args.rpcs_per_conn
  /\ Closed("client")
  /\ proc' = "connect"
  /\ UNCHANGED <<work, turn, conns, rpcs, next_id, store, serving, answers, lineVars>>

\* rpc_recv_resp returned -1; or, both ends waiting for ever, somebody has had
\* enough of it and killed the client.
GiveUp ==
  /\ proc = "talk"
  /\ stage["client"] = "failed" \/ BothWait
  /\ Closed("client")
  /\ proc' = "failed"
  /\ UNCHANGED <<work, turn, conns, rpcs, next_id, store, serving, answers, lineVars>>

\* The next process is started, when the server is through with the last one.
NextTurn ==
  /\ proc \in Over
  /\ stage["server"] = "off"
  /\ turn < Len(work)
  /\ turn' = turn + 1
  /\ proc' = "start"
  /\ conns' = 0 /\ rpcs' = 0 /\ next_id' = 1
  /\ UNCHANGED <<work, store, serving, answers, lineVars, streamVars>>

-----------------------------------------------------------------------------
(* The server's thread *)

\* The handlers: keystore after the request, status and data of the answer. A
\* write that FromBody refuses is a BadArg.
Answers(method, body) ==
  CASE method = "ping" -> {[store |-> store, status |-> "Ok", data |-> body]}
    [] method = "quit" -> {[store |-> store, status |-> "Ok", data |-> <<>>]}
    [] method = "read" ->
         {IF body \in DOMAIN store
          THEN [store |-> store, status |-> "Ok", data |-> store[body]]
          ELSE [store |-> store, status |-> "NotFound", data |-> <<>>]}
    [] method = "write" ->
         {LET key   == KeyIn(body, n[1])
              value == ValueIn(body, n[1], n[2])
          IN  IF ~FromBody(body, n[1], n[2])
              THEN [store |-> store, status |-> "BadArg", data |-> <<>>]
              ELSE [store |-> IF key \in DOMAIN store THEN store
                              ELSE [k \in DOMAIN store \cup {key} |->
                                      IF k = key THEN value ELSE store[k]],
                    status |-> "Ok", data |-> <<>>]
          : n \in KeyLens(body) \X ValueLens(body)}

\* A request is handled; its answer's first write.
Handle ==
  /\ stage["server"] = "ready"
  /\ \E a \in Answers(taken["server"].header.method, taken["server"].data) :
       /\ SendHead("server", Response(taken["server"], a.status, a.data))
       /\ store' = a.store
  /\ serving' = (taken["server"].header.method # "quit")
  /\ UNCHANGED <<work, turn, proc, conns, rpcs, next_id, answers, lineVars>>

\* The rest of the answer, and the next request, unless the thread has quit.
ServerGetsOn ==
  /\ \/ SendBody("server")
     \/ serving /\ Receive("server")
  /\ UNCHANGED <<pathVars, lineVars>>

\* close(), after rpc_recv_req returned -1 or after the answer to quit.
ServerCloses ==
  /\ \/ stage["server"] = "failed"
     \/ ~serving /\ stage["server"] = "mark"
  /\ Closed("server")
  /\ UNCHANGED <<pathVars, lineVars>>

Finished ==
  /\ proc \in Over /\ turn = Len(work) /\ stage["server"] = "off"
  /\ UNCHANGED vars

Client ==
  \/ Start \/ Parse \/ Connect \/ Return
  \/ SendRequest \/ CrashOnNull \/ ClientGetsOn \/ Close \/ GiveUp \/ NextTurn

Server == Handle \/ ServerGetsOn \/ ServerCloses

Next == Client \/ Server \/ Finished

Spec == Init /\ [][Next]_vars

\* Both processes are kept running, and somebody starts the next and kills those
\* that wait for ever.
FairSpec == Spec /\ WF_vars(Client) /\ WF_vars(Server)

-----------------------------------------------------------------------------
(* Properties *)

TypeOK ==
  /\ work \in Works /\ turn \in 1 .. Len(work)
  /\ proc \in {"start", "parse", "connect", "talk"} \cup Over
  /\ conns \in Nat /\ rpcs \in Nat /\ next_id \in Nat
  /\ parse \in {"fixed", "options", "configs", "parsed", "usage", "crashed"}
  /\ next_arg \in 0 .. argc
  /\ stage \in [Ends -> {"off", "ready", "send_body", "mark", "header", "body", "failed"}]
  /\ shorts \in 0 .. MaxShorts
  /\ \A key \in DOMAIN store : key \in Seq(Units) /\ store[key] \in Seq(Units)

\* What end e has in hand and on its way to it, of the message it is receiving.
InHand(e) ==
  (CASE stage[e] = "header" -> SubSeq(HeadOf(sent[Peer(e)]), 1, MarkLen)
     [] stage[e] = "body"   -> HeadOf(sent[Peer(e)])
     [] OTHER               -> <<>>) \o buf[e] \o wire[e]

IsStart(s, t) == Len(s) <= Len(t) /\ s = SubSeq(t, 1, Len(s))

\* A stream never gets out of step: what an end reads and finds is always the
\* start of the one message its peer has sent last. Nobody checks the signature of
\* a mark, and a write cut short is not reported to anyone; but no write follows
\* it on the same stream, as whoever made it waits for an answer.
InStep ==
  \A e \in Ends :
    Reading(e) /\ sent[Peer(e)] # None => IsStart(InHand(e), WholeOf(sent[Peer(e)]))

\* The message an end acts on is the one its peer sent, all of it; and the answer
\* a client acts on carries the rpc_id and the length logarithm of its request.
MessagesWhole ==
  \A e \in Ends :
    stage[e] = "ready" /\ taken[e] # None
      => /\ taken[e] = sent[Peer(e)]
         /\ e = "client" =>
              /\ taken[e].header.id = sent[e].header.id
              /\ taken[e].header.req_len_log = sent[e].header.req_len_log

\* Every write of the client program so far, in answered order, with a key whose
\* length fits its byte.
ShortKeys == \A n \in DOMAIN answers :
               answers[n].method = "write" => Len(answers[n].key) < KeyMod

\* A write of this key was answered, and acknowledged.
WroteIt(n, key) ==
  answers[n].method = "write" /\ answers[n].key = key /\ answers[n].status = "Ok"

\* From one command line to another: an acknowledged write is found by every later
\* read of its key, and what it finds is the value of the first such write,
\* character for character (or of one before it whose answer was cut short). That is
\* so as long as every key fits the byte its length is passed in, and nobody writes
\* bodies of their own.
WrittenIsRead ==
  ShortKeys /\ (\A n \in DOMAIN work : work[n].body = Made) =>
    \A n \in DOMAIN answers :
      LET before == {m \in 1 .. n - 1 : WroteIt(m, answers[n].key)}
      IN  answers[n].method = "read" /\ before # {} =>
            /\ answers[n].status = "Ok"
            /\ shorts = 0 => answers[n].data = answers[CHOOSE m \in before :
                                            \A l \in before : m <= l].value

\* What a key that does not fit comes to: the store holds the value of some command
\* line, whole, under as many characters of its key as the length has modulo
\* KeyMod; under another key, then, than the one given.
StoredUnder ==
  (\A n \in DOMAIN work : work[n].body = Made) =>
    \A key \in DOMAIN store : \E n \in 1 .. turn :
      LET given(option) ==
            {Chars[work[n].argv[m + 1]] :
               m \in {l \in 4 .. Len(work[n].argv) - 1 : work[n].argv[l] = option}}
      IN  /\ store[key] \in given("-value")
          /\ \E k \in given("-key") :
               /\ key = SubSeq(k, 1, Len(key))
               /\ Len(key) < KeyMod /\ (Len(k) - Len(key)) % KeyMod = 0

\* Whoever sends a write: its body is taken for one only if the two lengths lie
\* inside it, and then key and value are all the rest of it. A body too short to
\* hold the lengths, which are read nevertheless, is always refused.
ParsedInsideBody ==
  stage["server"] = "ready" /\ taken["server"].header.method = "write" =>
    LET body == taken["server"].data
    IN  \A n \in KeyLens(body) \X ValueLens(body) :
          FromBody(body, n[1], n[2]) =>
            /\ Len(body) >= HdrLen
            /\ body = SubSeq(body, 1, HdrLen) \o KeyIn(body, n[1])
                        \o ValueIn(body, n[1], n[2])

\* The client reads through a null pointer, or behind its arguments, in two cases
\* only: for a padded length with less than three arguments behind it, or a value
\* longer than Make takes (the kernel allows no argument of that length).
CrashesOnlySo ==
  proc = "crashed" =>
    \/ \E n \in 6 .. argc - 1 :
         /\ n + 3 >= argc /\ Arg(n) \notin Dashed
         /\ \/ Arg(n - 2) \in {"-key", "-value"}
            \/ Arg(n - 3) \in {"-key", "-value"} /\ Arg(n - 1) = "+"
    \/ args.command = "write" /\ Len(gen_str(args.value)) > MaxValue

\* Every client process ends, whatever its command line, and the next gets its
\* turn, even after one that was stopped half way through a message.
TurnsEnd == <>(proc \in Over /\ turn = Len(work))
=============================================================================
