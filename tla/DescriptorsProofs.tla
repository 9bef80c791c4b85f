-------------------------- MODULE DescriptorsProofs --------------------------
(***************************************************************************)
(* Proofs about Descriptors, for every number of ports and clients, every   *)
(* size of the table and any number of system calls that fail.              *)
(*                                                                          *)
(* FilesInv says what the table holds whatever the threads do with numbers  *)
(* that are not theirs: a listening socket or a log is open only where its  *)
(* thread has put it. OwnInv is what the threads rely on, and lasts until   *)
(* one strays; RequestInv rests on it, LeakInv on FilesInv alone.           *)
(***************************************************************************)
EXTENDS Descriptors, FiniteSetTheorems, SequenceTheorems, WellFoundedInduction, TLAPS

-----------------------------------------------------------------------------
(* The invariants *)

\* Types, also of the variables TypeOK leaves out.
TypeInv ==
  /\ limit \in Nat \ {0} /\ limit <= TableSize /\ errors \in Nat
  /\ proc \in {"up", "exited", "died"} /\ spawned \in 0 .. NPorts
  /\ table \in [Numbers -> Files] /\ held \in [Ports -> Files]
  /\ pc \in [Ports -> PCs]
  /\ listen_fd \in [Ports -> Numbers \cup {Unset}]
  /\ log_fd \in [Ports -> Numbers \cup {Unset}]
  /\ sock_fd \in [Ports -> Numbers \cup {Unset} \cup Junk]
  /\ msg \in [Ports -> {NoMsg} \cup (Clients \X {"write", "quit"})]
  /\ queue \in [Ports -> Seq(Clients)]
  /\ up \in [Clients -> Seq({"write", "quit"})]
  /\ down \in [Clients -> Seq({"Record", "Response"})]
  /\ cpc \in [Clients -> {"start", "wait"} \cup Over]
  /\ job \in [Clients -> [port : Ports, method : {"write", "quit"}]]
  /\ lost \in [Ports -> SUBSET {"sock", "listen"}]
  /\ strayed \in BOOLEAN /\ leaked \in Nat /\ full \in BOOLEAN

\* Nothing is open twice.
FileOK(n) ==
  /\ n >= limit => table[n] = NoFile
  /\ table[n] = Std => n = 0
  /\ \A m \in Numbers : table[n] = table[m] => n = m \/ table[n] = NoFile

\* The files a thread has opened are where it has put them.
FilesOf(p) ==
  \A n \in Numbers :
    /\ table[n] = Listener(p) => Opened(p) /\ pc[p] # "close_log" /\ listen_fd[p] = n
    /\ table[n] = LogOf(p) => Opened(p) /\ pc[p] # "creat" /\ log_fd[p] = n
    /\ table[n] = Claimed(p) => pc[p] = "accepting"

\* What a thread waits for.
HeldOK(p) ==
  /\ pc[p] = "accepting" =>
       /\ \E n \in Numbers : table[n] = Claimed(p)
       /\ \E q \in Ports : held[p] = Listener(q) /\ pc[q] \notin {"none", "listen"}
  /\ pc[p] = "read" => held[p] = NoFile \/ \E k \in Clients : held[p] = Sock(k)
  /\ pc[p] \notin {"accepting", "read"} => held[p] = NoFile

\* A connection is in the queue of its port, once, or accepted.
QueueOK(p) ==
  /\ queue[p] # <<>> => pc[p] \notin {"none", "listen"}
  /\ \A n \in DOMAIN queue[p] :
       /\ job[queue[p][n]].port = p /\ cpc[queue[p][n]] # "start"
       /\ \A m \in Numbers : table[m] # Sock(queue[p][n])
       /\ \A m \in DOMAIN queue[p] : queue[p][m] = queue[p][n] => m = n

\* Nobody has heard of a client that has not started.
UnbornOK(k) ==
  cpc[k] = "start" => up[k] = <<>> /\ down[k] = <<>>
    /\ \A n \in Numbers : table[n] # Sock(k)

\* The files of the process, whatever strays.
FilesInv ==
  /\ \A n \in Numbers : FileOK(n)
  /\ \A p \in Ports : FilesOf(p) /\ HeldOK(p) /\ QueueOK(p)
  /\ \A k \in Clients : UnbornOK(k)

\* As long as nobody has strayed: the numbers of thread p.
OwnNumbers(p) ==
  /\ Opened(p) /\ pc[p] # "close_log" /\ "listen" \notin lost[p] =>
       File(listen_fd[p]) = Listener(p)
  /\ Opened(p) /\ pc[p] # "creat" => File(log_fd[p]) = LogOf(p)
  /\ Serving(p) /\ "sock" \notin lost[p] =>
       \E k \in Clients : job[k].port = p /\ File(sock_fd[p]) = Sock(k)
  /\ pc[p] = "accepting" => "listen" \notin lost[p] /\ held[p] = Listener(p)
  /\ held[p] # NoFile /\ pc[p] = "read" => "sock" \notin lost[p]
       /\ File(sock_fd[p]) = held[p]
  /\ pc[p] \in {"log", "reply", "note"} =>
       "sock" \notin lost[p] /\ msg[p] # NoMsg /\ File(sock_fd[p]) = Sock(msg[p][1])

\* Until a thread has strayed, all have their own numbers.
OwnInv == proc = "up" /\ ~strayed => \A p \in Ports : OwnNumbers(p)

\* And the request of client k.
RequestOK(k) ==
  /\ up[k] # <<>> =>
       /\ cpc[k] # "start" /\ down[k] = <<>> /\ Len(up[k]) = 1
       /\ cpc[k] \in Over => ~Attached(k)
  /\ \A p \in Ports :
       pc[p] \in {"log", "reply"} /\ msg[p][1] = k =>
         cpc[k] = "wait" /\ up[k] = <<>> /\ down[k] = <<>>
  /\ \A n \in DOMAIN down[k] : down[k][n] = "Response"

\* Until a thread has strayed, requests are answered in turn, and nobody is
\* killed.
RequestInv ==
  /\ proc = "up" /\ ~strayed => \A k \in Clients : RequestOK(k)
  /\ proc = "died" => strayed

\* Connections that no thread has a number for.
Leaks ==
  {n \in Numbers : table[n][1] = "sock" /\ \A p \in Ports : Serving(p) => sock_fd[p] # n}

\* Only tcp_accept drops connections, and three numbers for each thread are
\* enough.
LeakInv ==
  /\ Cardinality(Leaks) <= leaked
  /\ full => limit < 1 + 3 * NPorts + leaked

\* The inductive invariant.
Inv == TypeInv /\ FilesInv /\ OwnInv /\ RequestInv /\ LeakInv

-----------------------------------------------------------------------------
(* The table, the files and accept() *)

(* The table has as many numbers as the largest of the settings.            *)
LEMMA TableFacts ==
  /\ TableSize \in Nat \ {0} /\ \A s \in Settings : s.limit <= TableSize
  /\ Numbers \subseteq Nat /\ 0 \in Numbers /\ Unset \notin Numbers
  /\ NPorts \in Nat \ {0}
  <1> DEFINE Limits == {s.limit : s \in Settings}
  <1>1. \E n \in Limits : \A s \in Settings : s.limit <= n
    BY DescriptorsAssumption
  <1>2. TableSize \in Limits /\ \A s \in Settings : s.limit <= TableSize
    BY <1>1 DEF TableSize
  <1>3. TableSize \in Nat \ {0}
    BY <1>2, DescriptorsAssumption
  <1> QED
    BY <1>2, <1>3, DescriptorsAssumption DEF Numbers, Unset

(* Files of different kinds, or of different owners, are different.         *)
LEMMA FileKinds ==
  /\ \A p, q \in Ports : /\ Listener(p) = Listener(q) => p = q
                         /\ LogOf(p) = LogOf(q) => p = q
                         /\ Claimed(p) = Claimed(q) => p = q
                         /\ Listener(p) # LogOf(q) /\ Listener(p) # Claimed(q)
                         /\ LogOf(p) # Claimed(q)
  /\ \A k, l : Sock(k) = Sock(l) => k = l
  /\ \A p, k : Sock(k) # Listener(p) /\ Sock(k) # LogOf(p) /\ Sock(k) # Claimed(p)
  /\ \A p : NoFile # Listener(p) /\ NoFile # LogOf(p) /\ NoFile # Claimed(p)
            /\ Std # Listener(p) /\ Std # LogOf(p) /\ Std # Claimed(p)
  /\ \A k : NoFile # Sock(k) /\ Std # Sock(k)
  /\ NoFile # Std
  BY DEF Listener, LogOf, Claimed, Sock, NoFile, Std

(* What the kind of a file says of it.                                      *)
LEMMA KindOf ==
  /\ \A p : Listener(p)[1] = "listen" /\ Listener(p)[2] = p
  /\ \A p : LogOf(p)[1] = "log" /\ Claimed(p)[1] = "claimed"
  /\ \A k : Sock(k)[1] = "sock" /\ Sock(k)[2] = k
  /\ NoFile[1] = "none" /\ Std[1] = "std"
  BY DEF Listener, LogOf, Claimed, Sock, NoFile, Std

(* And the kind tells which file it is.                                     *)
LEMMA KindIs ==
  ASSUME NEW f \in Files
  PROVE  /\ IsListener(f) => \E p \in Ports : f = Listener(p)
         /\ IsSock(f) => \E k \in Clients : f = Sock(k)
         /\ f[1] = "none" => f = NoFile
         /\ f[1] = "claimed" => \E p \in Ports : f = Claimed(p)
  BY KindOf DEF Files, IsListener, IsSock

(* The file of a number.                                                    *)
LEMMA FileIs ==
  ASSUME TypeInv, NEW n
  PROVE  /\ File(n) \in Files
         /\ File(n) # NoFile => n \in Numbers /\ table[n] = File(n)
         /\ n \in Numbers => File(n) = table[n]
  BY DEF TypeInv, File, Files

(* A free number, if Lowest finds one.                                      *)
LEMMA LowestFree ==
  ASSUME TypeInv, NEW n \in Lowest
  PROVE  n \in Numbers /\ n < limit /\ table[n] = NoFile
  BY DEF Lowest

(* The number claimed by a thread.                                          *)
LEMMA ClaimIs ==
  ASSUME TypeInv, FilesInv, NEW p \in Ports, pc[p] = "accepting"
  PROVE  /\ ClaimOf(p) \in Numbers /\ table[ClaimOf(p)] = Claimed(p)
         /\ ClaimOf(p) < limit
         /\ \A n \in Numbers : table[n] = Claimed(p) => n = ClaimOf(p)
  <1>1. \E n \in Numbers : table[n] = Claimed(p)
    BY DEF FilesInv, HeldOK
  <1>2. ClaimOf(p) \in Numbers /\ table[ClaimOf(p)] = Claimed(p)
    BY <1>1 DEF ClaimOf
  <1>3. FileOK(ClaimOf(p)) /\ Claimed(p) # NoFile
    BY <1>2, FileKinds DEF FilesInv
  <1>4. limit \in Nat /\ ClaimOf(p) \in Nat
    BY <1>2, TableFacts DEF TypeInv
  <1> QED
    BY <1>2, <1>3, <1>4 DEF FileOK

(* What is accepted: the first of the queue of the listening socket that    *)
(* the thread waits on.                                                     *)
LEMMA NextIs ==
  ASSUME TypeInv, FilesInv, NEW p \in Ports, pc[p] = "accepting", Dequeued(p)
  PROVE  \E q \in Ports :
           /\ held[p] = Listener(q) /\ held[p][2] = q /\ queue[q] # <<>>
           /\ NextConn(p) = queue[q][1] /\ NextConn(p) \in Clients
           /\ 1 \in DOMAIN queue[q] /\ job[NextConn(p)].port = q
           /\ \A n \in Numbers : table[n] # Sock(NextConn(p))
           /\ queue' = [queue EXCEPT ![q] = Tail(queue[q])]
           /\ held' = [held EXCEPT ![p] = NoFile]
           /\ Tail(queue[q]) \in Seq(Clients)
           /\ DOMAIN Tail(queue[q]) = 1 .. Len(queue[q]) - 1 /\ Len(queue[q]) \in Nat
           /\ \A n \in DOMAIN Tail(queue[q]) : Tail(queue[q])[n] = queue[q][n + 1]
                   /\ n + 1 \in DOMAIN queue[q]
  <1>1. PICK q \in Ports : held[p] = Listener(q)
    BY DEF FilesInv, HeldOK
  <1>2. held[p][2] = q
    BY <1>1, KindOf
  <1>3. queue[q] \in Seq(Clients) /\ queue[q] # <<>>
    BY <1>2 DEF TypeInv, Dequeued
  <1>4. /\ Len(queue[q]) \in Nat /\ Len(queue[q]) > 0
             /\ DOMAIN queue[q] = 1 .. Len(queue[q])
        /\ Tail(queue[q]) \in Seq(Clients) /\ Len(Tail(queue[q])) = Len(queue[q]) - 1
        /\ \A i \in 1 .. Len(Tail(queue[q])) : Tail(queue[q])[i] = queue[q][i + 1]
    BY <1>3, HeadTailProperties, LenProperties, EmptySeq
  <1>5. DOMAIN Tail(queue[q]) = 1 .. Len(queue[q]) - 1
    BY <1>4, LenProperties
  <1>6. 1 \in DOMAIN queue[q] /\ queue[q][1] \in Clients
    BY <1>3, <1>4, ElementOfSeq
  <1>7. NextConn(p) = queue[q][1]
    BY <1>2 DEF NextConn
  <1>8. QueueOK(q)
    BY DEF FilesInv
  <1>9. job[NextConn(p)].port = q /\ \A n \in Numbers : table[n] # Sock(NextConn(p))
    BY <1>6, <1>7, <1>8 DEF QueueOK
  <1>10. /\ queue' = [queue EXCEPT ![q] = Tail(queue[q])]
              /\ held' = [held EXCEPT ![p] = NoFile]
    BY <1>2 DEF Dequeued, TypeInv
  <1>11. \A n \in DOMAIN Tail(queue[q]) : Tail(queue[q])[n] = queue[q][n + 1]
              /\ n + 1 \in DOMAIN queue[q]
    BY <1>4, <1>5
  <1> QED
    BY <1>1, <1>2, <1>3, <1>4, <1>5, <1>6, <1>7, <1>9, <1>10, <1>11

-----------------------------------------------------------------------------
(* Types *)

\* The values of the variables that a thread writes to.
ThreadTyped ==
  /\ errors' \in Nat /\ proc' \in {"up", "exited", "died"}
  /\ table' \in [Numbers -> Files] /\ held' \in [Ports -> Files]
  /\ pc' \in [Ports -> PCs]
  /\ listen_fd' \in [Ports -> Numbers \cup {Unset}]
  /\ log_fd' \in [Ports -> Numbers \cup {Unset}]
  /\ sock_fd' \in [Ports -> Numbers \cup {Unset} \cup Junk]
  /\ msg' \in [Ports -> {NoMsg} \cup (Clients \X {"write", "quit"})]
  /\ queue' \in [Ports -> Seq(Clients)]
  /\ up' \in [Clients -> Seq({"write", "quit"})]
  /\ down' \in [Clients -> Seq({"Record", "Response"})]
  /\ lost' \in [Ports -> SUBSET {"sock", "listen"}]
  /\ strayed' \in BOOLEAN /\ leaked' \in Nat /\ full' \in BOOLEAN

(* Every file there is may be in the table.                                 *)
LEMMA FileTypes ==
  /\ NoFile \in Files /\ \A p \in Ports :
       {Listener(p), LogOf(p), Claimed(p)} \subseteq Files
  /\ \A k \in Clients : Sock(k) \in Files
  BY DEF Files

(* The types hold when the process is gone.                                 *)
LEMMA GoneTyped ==
  ASSUME TypeInv, NEW how \in {"exited", "died"}, Gone(how)
  PROVE  /\ proc' = how /\ table' \in [Numbers -> Files] /\ held' \in [Ports -> Files]
         /\ pc' \in [Ports -> PCs]
         /\ listen_fd' \in [Ports -> Numbers \cup {Unset}]
         /\ log_fd' \in [Ports -> Numbers \cup {Unset}]
         /\ sock_fd' \in [Ports -> Numbers \cup {Unset} \cup Junk]
         /\ msg' \in [Ports -> {NoMsg} \cup (Clients \X {"write", "quit"})]
  BY FileTypes DEF Gone, NoFds, PCs

(* A table with a number closed is a table.                                 *)
LEMMA ClosedTyped ==
  ASSUME NEW t \in [Numbers -> Files], NEW n
  PROVE  Closed(t, n) \in [Numbers -> Files]
  BY FileTypes DEF Closed

(* What is written arrives as a record or a response.                       *)
LEMMA LogsTyped ==
  ASSUME TypeInv, NEW n, NEW thing \in {"Record", "Response"}, Written(n, thing)
  PROVE  down' \in [Clients -> Seq({"Record", "Response"})]
  <1>1. \A k \in Clients : down[k] \in Seq({"Record", "Response"})
    BY DEF TypeInv
  <1>2. \A k \in Clients : Append(down[k], thing) \in Seq({"Record", "Response"})
    BY <1>1, AppendProperties
  <1> QED
    BY <1>1, <1>2 DEF Written

(* A step of a thread keeps the types.                                      *)
LEMMA ThreadTypes ==
  ASSUME TypeInv, FilesInv, NEW p \in Ports, Thread(p)
  PROVE  ThreadTyped
  <1> USE FileTypes
  <1>1. /\ \A to \in PCs : [pc EXCEPT ![p] = to] \in [Ports -> PCs]
        /\ \A f \in Files : [held EXCEPT ![p] = f] \in [Ports -> Files]
        /\ \A n \in Numbers, f \in Files : [table EXCEPT ![n] = f] \in [Numbers -> Files]
        /\ Lowest \subseteq Numbers
        /\ \A n : File(n) \in Files
    BY FileIs DEF TypeInv, Lowest
  <1>2. \A n : \A which \in {"sock", "listen"} : Uses(p, which, n) => strayed' \in BOOLEAN
    BY DEF Uses, TypeInv
  <1>3. Errs => errors' \in Nat
    BY DEF Errs, TypeInv
  <1>4. \A which \in SUBSET {"sock", "listen"} :
          Unassigned(p, which) =>
            /\ sock_fd' \in [Ports -> Numbers \cup {Unset} \cup Junk]
            /\ lost' \in [Ports -> SUBSET {"sock", "listen"}]
            /\ UNCHANGED <<listen_fd, log_fd>>
    <2> SUFFICES ASSUME NEW which \in SUBSET {"sock", "listen"}, Unassigned(p, which)
                 PROVE  /\ sock_fd' \in [Ports -> Numbers \cup {Unset} \cup Junk]
                        /\ lost' \in [Ports -> SUBSET {"sock", "listen"}]
                        /\ UNCHANGED <<listen_fd, log_fd>>
      OBVIOUS
    <2>1. sock_fd[p] \in Numbers \cup {Unset} \cup Junk
      BY DEF TypeInv
    <2>2. PICK n \in Numbers \cup {Unset} \cup Junk : sock_fd' = [sock_fd EXCEPT ![p] = n]
      BY <2>1 DEF Unassigned
    <2>3. lost[p] \cup which \in SUBSET {"sock", "listen"}
      BY DEF TypeInv
    <2>4. lost' \in [Ports -> SUBSET {"sock", "listen"}]
      BY <2>3 DEF Unassigned, TypeInv
    <2> QED
      BY <2>2, <2>4 DEF Unassigned, TypeInv
  <1>5. msg[p] \in {NoMsg} \cup (Clients \X {"write", "quit"})
    BY DEF TypeInv
  <1>6. CASE Listen(p)
    BY <1>1, <1>6 DEF Listen, Goto, TypeInv, ThreadTyped, PCs, wireVars, history
  <1>7. CASE ListenFails(p)
    BY <1>1, <1>3, <1>7
       DEF ListenFails, Goto, TypeInv, ThreadTyped, PCs, fdVars, wireVars
  <1>8. CASE Creat(p)
    BY <1>1, <1>8 DEF Creat, Goto, TypeInv, ThreadTyped, PCs, wireVars, history
  <1>9. CASE CreatFails(p)
    <2>1. Gone("exited") /\ full' = TRUE
            /\ UNCHANGED <<errors, wireVars, lost, strayed, leaked>>
      BY <1>9 DEF CreatFails
    <2> QED
      BY <2>1, GoneTyped DEF TypeInv, ThreadTyped, wireVars
  <1>10. CASE AcceptEnter(p)
    <2>1. pc' \in [Ports -> PCs] /\ table' \in [Numbers -> Files]
            /\ held' \in [Ports -> Files]
      BY <1>1, <1>10 DEF AcceptEnter, Goto, PCs
    <2> QED
      BY <1>2, <1>10, <2>1 DEF AcceptEnter, TypeInv, ThreadTyped, fdVars, wireVars
  <1>11. CASE AcceptRefused(p)
    BY <1>1, <1>4, <1>11 DEF AcceptRefused, Goto, TypeInv, ThreadTyped, PCs, wireVars
  <1>12. CASE AcceptReturns(p) \/ AcceptAborted(p) \/ GetsocknameFails(p)
    <2>1. pc[p] = "accepting"
      BY <1>12 DEF AcceptReturns, AcceptAborted, GetsocknameFails, Goto
    <2>2. /\ ClaimOf(p) \in Numbers
               /\ \A f \in Files : [table EXCEPT ![ClaimOf(p)] = f] \in [Numbers -> Files]
      BY <1>1, <2>1, ClaimIs
    <2>3. Dequeued(p) => /\ NextConn(p) \in Clients /\ queue' \in [Ports -> Seq(Clients)]
                         /\ held' \in [Ports -> Files]
      <3> SUFFICES ASSUME Dequeued(p)
                   PROVE  /\ NextConn(p) \in Clients /\ queue' \in [Ports -> Seq(Clients)]
                          /\ held' \in [Ports -> Files]
        OBVIOUS
      <3>1. PICK q \in Ports :
              /\ NextConn(p) \in Clients /\ Tail(queue[q]) \in Seq(Clients)
              /\ queue' = [queue EXCEPT ![q] = Tail(queue[q])]
              /\ held' = [held EXCEPT ![p] = NoFile]
        BY <2>1, NextIs
      <3> QED
        BY <1>1, <3>1 DEF TypeInv
    <2>4. CASE AcceptReturns(p)
      <3>1. table' \in [Numbers -> Files] /\ pc' \in [Ports -> PCs]
        BY <1>1, <2>2, <2>3, <2>4 DEF AcceptReturns, Goto, PCs
      <3>2. sock_fd' \in [Ports -> Numbers \cup {Unset} \cup Junk]
        BY <2>2, <2>4 DEF AcceptReturns, TypeInv
      <3> QED
        BY <2>3, <2>4, <3>1, <3>2 DEF AcceptReturns, TypeInv, ThreadTyped
    <2>5. CASE AcceptAborted(p)
      <3>1. table' \in [Numbers -> Files] /\ pc' \in [Ports -> PCs]
        BY <1>1, <2>2, <2>5 DEF AcceptAborted, Goto, PCs
      <3>2. queue' \in [Ports -> Seq(Clients)] /\ held' \in [Ports -> Files]
        <4>1. CASE Dequeued(p)
          BY <2>3, <4>1
        <4>2. CASE held' = [held EXCEPT ![p] = NoFile] /\ UNCHANGED queue
          BY <1>1, <4>2 DEF TypeInv
        <4> QED
          BY <2>5, <4>1, <4>2 DEF AcceptAborted
      <3> QED
        BY <1>3, <1>4, <2>5, <3>1, <3>2 DEF AcceptAborted, TypeInv, ThreadTyped
    <2>6. CASE GetsocknameFails(p)
      <3>1. [table EXCEPT ![ClaimOf(p)] = Sock(NextConn(p))] \in [Numbers -> Files]
        BY <2>2, <2>3, <2>6 DEF GetsocknameFails
      <3>2. table' \in [Numbers -> Files] /\ pc' \in [Ports -> PCs]
        BY <1>1, <2>6, <3>1, ClosedTyped DEF GetsocknameFails, Goto, PCs
      <3> QED
        <4>1. /\ Errs /\ Dequeued(p) /\ Unassigned(p, {"sock", "listen"})
              /\ Uses(p, "listen", listen_fd[p]) /\ leaked' = leaked + 1
              /\ UNCHANGED <<proc, msg, up, down, full>>
          BY <2>6 DEF GetsocknameFails
        <4>2. {"sock", "listen"} \in SUBSET {"sock", "listen"}
          OBVIOUS
        <4>3. /\ sock_fd' \in [Ports -> Numbers \cup {Unset} \cup Junk]
              /\ lost' \in [Ports -> SUBSET {"sock", "listen"}]
              /\ UNCHANGED <<listen_fd, log_fd>>
          BY <1>4, <4>1, <4>2
        <4>4. queue' \in [Ports -> Seq(Clients)] /\ held' \in [Ports -> Files]
                /\ errors' \in Nat
              /\ strayed' \in BOOLEAN
          BY <1>2, <1>3, <2>3, <4>1
        <4> QED
          BY <3>2, <4>1, <4>3, <4>4 DEF TypeInv, ThreadTyped
    <2> QED
      BY <1>12, <2>4, <2>5, <2>6
  <1>13. CASE ReadEnter(p)
    BY <1>1, <1>2, <1>13 DEF ReadEnter, TypeInv, ThreadTyped, fdVars, wireVars
  <1>14. CASE ReadFails(p)
    BY <1>1, <1>2, <1>14
       DEF ReadFails, Goto, TypeInv, ThreadTyped, PCs, fdVars, wireVars
  <1>15. CASE ReadRequest(p)
    <2>1. PICK k \in Clients : held[p] = Sock(k)
      BY <1>15, KindIs DEF ReadRequest, TypeInv
    <2>2. held[p][2] = k
      BY <2>1, KindOf
    <2>3. up[k] \in Seq({"write", "quit"}) /\ up[k] # <<>>
      BY <1>15, <2>2 DEF ReadRequest, TypeInv
    <2>4. Tail(up[k]) \in Seq({"write", "quit"}) /\ Head(up[k]) \in {"write", "quit"}
      BY <2>3, HeadTailProperties
    <2>5. /\ up' = [up EXCEPT ![k] = Tail(up[k])]
          /\ msg' = [msg EXCEPT ![p] = <<k, Head(up[k])>>]
      BY <1>15, <2>2 DEF ReadRequest, TypeInv
    <2>6. up' \in [Clients -> Seq({"write", "quit"})]
          /\ msg' \in [Ports -> {NoMsg} \cup (Clients \X {"write", "quit"})]
      BY <2>4, <2>5 DEF TypeInv
    <2> QED
      BY <1>1, <1>15, <2>6
         DEF ReadRequest, Goto, TypeInv, ThreadTyped, PCs, fdVars, history
  <1>16. CASE LogRequest(p)
    <2>1. down' \in [Clients -> Seq({"Record", "Response"})]
      BY <1>16, LogsTyped DEF LogRequest, Logs, TypeInv
    <2> QED
      BY <1>1, <1>16, <2>1
         DEF LogRequest, Goto, TypeInv, ThreadTyped, PCs, fdVars, history
  <1>17. CASE Reply(p)
    <2>1. down' \in [Clients -> Seq({"Record", "Response"})]
      BY <1>17, LogsTyped DEF Reply
    <2> QED
      BY <1>1, <1>2, <1>17, <2>1 DEF Reply, Goto, TypeInv, ThreadTyped, PCs, fdVars
  <1>18. Forgotten(p) => msg' \in [Ports -> {NoMsg} \cup (Clients \X {"write", "quit"})]
    BY <1>5 DEF Forgotten, TypeInv
  <1>19. Answered(p) \in PCs
    BY DEF Answered, PCs
  <1>20. CASE ReplyFails(p)
    BY <1>1, <1>18, <1>19, <1>20
       DEF ReplyFails, Goto, TypeInv, ThreadTyped, fdVars, wireVars, history
  <1>21. CASE LogResponse(p)
    <2>1. down' \in [Clients -> Seq({"Record", "Response"})]
      BY <1>21, LogsTyped DEF LogResponse, Logs, TypeInv
    <2> QED
      BY <1>1, <1>18, <1>19, <1>21, <2>1
         DEF LogResponse, Goto, TypeInv, ThreadTyped, fdVars, history
  <1>22. CASE Sigpipe(p)
    <2>1. Gone("died") /\ UNCHANGED <<errors, wireVars, history>>
      BY <1>22 DEF Sigpipe
    <2> QED
      BY <2>1, GoneTyped DEF TypeInv, ThreadTyped, wireVars, history
  <1>23. CASE Hangup(p)
    <2>1. table' \in [Numbers -> Files]
      BY <1>23, ClosedTyped DEF Hangup, TypeInv
    <2> QED
      BY <1>1, <1>2, <1>23, <2>1
         DEF Hangup, Goto, TypeInv, ThreadTyped, PCs, fdVars, wireVars
  <1>24. CASE CloseListen(p)
    <2>1. table' \in [Numbers -> Files]
      BY <1>24, ClosedTyped DEF CloseListen, TypeInv
    <2> QED
      BY <1>1, <1>2, <1>24, <2>1
         DEF CloseListen, Goto, TypeInv, ThreadTyped, PCs, fdVars, wireVars
  <1>25. CASE CloseLog(p)
    <2>1. table' \in [Numbers -> Files]
      BY <1>25, ClosedTyped DEF CloseLog, TypeInv
    <2> QED
      BY <1>1, <1>25, <2>1
         DEF CloseLog, Goto, TypeInv, ThreadTyped, PCs, fdVars, wireVars, history
  <1> QED
    BY <1>6, <1>7, <1>8, <1>9, <1>10, <1>11, <1>12, <1>13, <1>14, <1>15, <1>16, <1>17,
       <1>20, <1>21, <1>22, <1>23, <1>24, <1>25
       DEF Thread, Accept, Serve

(* And so does every step.                                                  *)
LEMMA TypeKept ==
  ASSUME TypeInv, FilesInv, [Next]_vars
  PROVE  TypeInv'
  <1>1. ASSUME NEW p \in Ports, Thread(p)
        PROVE  TypeInv'
    <2>1. ThreadTyped
      BY <1>1, ThreadTypes
    <2> QED
      BY <1>1, <2>1 DEF Thread, ThreadTyped, TypeInv
  <1>2. CASE Main
    <2>1. CASE Spawn
      <3>1. spawned' \in 0 .. NPorts /\ spawned' \in Ports
        BY <2>1, TableFacts DEF Spawn, TypeInv, Ports
      <3>2. pc' \in [Ports -> PCs]
        BY <2>1, <3>1 DEF Spawn, Goto, TypeInv, PCs
      <3> QED
        BY <1>2, <2>1, <3>1, <3>2 DEF Main, Spawn, TypeInv, fdVars, wireVars, history
    <2>2. CASE SpawnFails
      <3>1. Gone("exited") /\ errors' \in Nat /\ UNCHANGED spawned
        BY <2>2 DEF SpawnFails, Errs, TypeInv
      <3> QED
        BY <1>2, <3>1, GoneTyped DEF Main, TypeInv, wireVars, history
    <2>3. CASE Return
      <3>1. Gone("exited") /\ UNCHANGED <<spawned, errors>>
        BY <2>3 DEF Return
      <3> QED
        BY <1>2, <3>1, GoneTyped DEF Main, TypeInv, wireVars, history
    <2> QED
      BY <1>2, <2>1, <2>2, <2>3 DEF Main
  <1>3. ASSUME NEW k \in Clients, Client(k)
        PROVE  TypeInv'
    <2>1. cpc' \in [Clients -> {"start", "wait"} \cup Over]
      BY <1>3
         DEF Client, Call, ConnectFails, Receive, GivesUp, ClientGoto, TypeInv, Over
    <2>2. job[k].port \in Ports /\ job[k].method \in {"write", "quit"}
      BY DEF TypeInv
    <2>3. <<>> \in Seq({"Record", "Response"})
            /\ <<job[k].method>> \in Seq({"write", "quit"})
      BY <2>2
    <2>4. Append(queue[job[k].port], k) \in Seq(Clients)
      BY <2>2, AppendProperties DEF TypeInv
    <2>5. queue' \in [Ports -> Seq(Clients)]
            /\ up' \in [Clients -> Seq({"write", "quit"})]
          /\ down' \in [Clients -> Seq({"Record", "Response"})]
      <3>1. CASE Call(k)
        BY <2>2, <2>3, <2>4, <3>1 DEF Call, TypeInv
      <3>2. CASE ConnectFails(k)
        BY <3>2 DEF ConnectFails, TypeInv, wireVars
      <3>3. CASE Receive(k) \/ GivesUp(k)
        BY <2>3, <3>3 DEF Receive, GivesUp, TypeInv
      <3> QED
        BY <1>3, <3>1, <3>2, <3>3 DEF Client
    <2> QED
      BY <1>3, <2>1, <2>5 DEF Client, TypeInv, fdVars, history
  <1>4. CASE UNCHANGED vars
    BY <1>4 DEF vars, TypeInv, fdVars, wireVars, history
  <1> QED
    BY <1>1, <1>2, <1>3, <1>4 DEF Next

-----------------------------------------------------------------------------
(* A step of a thread, and the files of the others *)

\* A step of thread p is no business of the others.
Others(p) ==
  /\ UNCHANGED <<limit, cpc, job>> /\ proc' = proc
  /\ pc'[p] \notin {"none", "listen"}
  /\ \A q \in Ports \ {p} : /\ pc'[q] = pc[q] /\ held'[q] = held[q] /\ lost'[q] = lost[q]
                            /\ listen_fd'[q] = listen_fd[q] /\ log_fd'[q] = log_fd[q]
                            /\ sock_fd'[q] = sock_fd[q] /\ msg'[q] = msg[q]

\* What a step of thread p may do to the table: file f, a new one, comes to number
\* n, which was free or claimed; and files are closed.
TableStep(p, n, f) ==
  /\ n \in Numbers /\ n < limit
  /\ \A m \in Numbers : \/ table'[m] = table[m]
                        \/ table'[m] = NoFile /\ table[m][1] # "claimed"
                        \/ /\ m = n /\ table[m] \in {NoFile, Claimed(p)}
                           /\ table'[m] \in {f, NoFile}
  /\ f # NoFile => \A m \in Numbers : table[m] # f
  /\ \/ f \in {NoFile, Listener(p), LogOf(p), Claimed(p)}
     \/ \E k \in Clients : f = Sock(k)

(* Then nothing is open twice, and the files of the others stay theirs.     *)
LEMMA FilesStay ==
  ASSUME TypeInv, FilesInv, NEW p \in Ports, NEW n, NEW f, Others(p), TableStep(p, n, f)
  PROVE  /\ \A m \in Numbers : FileOK(m)'
         /\ \A q \in Ports \ {p} : FilesOf(q)'
  <1>1. ASSUME NEW m \in Numbers, table'[m] # NoFile
        PROVE  \/ table'[m] = table[m]
               \/ m = n /\ table'[m] = f /\ table[m] \in {NoFile, Claimed(p)}
    BY <1>1 DEF TableStep
  <1>2. f # Std
    BY FileKinds DEF TableStep
  <1>3. ASSUME NEW m \in Numbers
        PROVE  FileOK(m)'
    <2>1. m >= limit => table'[m] = NoFile
      <3>1. m >= limit => table[m] = NoFile
        BY DEF FilesInv, FileOK
      <3>2. n < limit /\ m \in Nat /\ n \in Nat /\ limit \in Nat
        BY TableFacts DEF TableStep, TypeInv
      <3> QED
        BY <1>1, <3>1, <3>2
    <2>2. table'[m] = Std => m = 0
      BY <1>1, <1>2, FileKinds DEF FilesInv, FileOK
    <2>3. ASSUME NEW l \in Numbers, table'[m] = table'[l], table'[m] # NoFile
          PROVE  m = l
      <3>1. table[m] = table[l] /\ table[m] # NoFile => m = l
        BY DEF FilesInv, FileOK
      <3>2. \/ table'[m] = table[m]
            \/ m = n /\ table'[m] = f
        BY <1>1, <2>3
      <3>3. \/ table'[l] = table[l]
            \/ l = n /\ table'[l] = f
        BY <1>1, <2>3
      <3>4. f # NoFile => table[m] # f /\ table[l] # f
        BY DEF TableStep
      <3> QED
        BY <2>3, <3>1, <3>2, <3>3, <3>4
    <2>4. limit' = limit
      BY DEF Others
    <2> QED
      BY <2>1, <2>2, <2>3, <2>4 DEF FileOK
  <1>4. ASSUME NEW q \in Ports \ {p}
        PROVE  FilesOf(q)'
    <2>1. FilesOf(q)
      BY DEF FilesInv
    <2>2. f \notin {Listener(q), LogOf(q), Claimed(q)}
      BY FileKinds DEF TableStep
    <2>3. ASSUME NEW m \in Numbers, table'[m] \in {Listener(q), LogOf(q), Claimed(q)}
          PROVE  table'[m] = table[m]
      BY <1>1, <2>2, <2>3, FileKinds
    <2>4. UNCHANGED <<pc[q], listen_fd[q], log_fd[q]>>
      BY DEF Others
    <2> QED
      BY <2>1, <2>3, <2>4 DEF FilesOf, Opened
  <1> QED
    BY <1>3, <1>4

(* And the others go on waiting for what they wait for.                     *)
LEMMA HeldStays ==
  ASSUME TypeInv, FilesInv, NEW p \in Ports, NEW n, NEW f, Others(p), TableStep(p, n, f)
  PROVE  \A q \in Ports \ {p} : HeldOK(q)'
  <1> SUFFICES ASSUME NEW q \in Ports \ {p}
               PROVE  HeldOK(q)'
    OBVIOUS
  <1>1. HeldOK(q) /\ UNCHANGED <<pc[q], held[q]>>
    BY DEF FilesInv, Others
  <1>2. \A m \in Numbers : table[m] = Claimed(q) => table'[m] = Claimed(q)
    <2> SUFFICES ASSUME NEW m \in Numbers, table[m] = Claimed(q)
                 PROVE  table'[m] = Claimed(q)
      OBVIOUS
    <2>1. table[m][1] = "claimed" /\ table[m] \notin {NoFile, Claimed(p)}
      BY KindOf, FileKinds
    <2> QED
      BY <2>1 DEF TableStep
  <1>3. \A r \in Ports : pc[r] \notin {"none", "listen"}
             => pc'[r] \notin {"none", "listen"}
    BY DEF Others
  <1> QED
    BY <1>1, <1>2, <1>3 DEF HeldOK

\* What becomes of the queue of port q: it may lose its first element, and what
\* is accepted is in no queue.
QueueStep(q, f) ==
  /\ \E d \in {0, 1} : \A n \in DOMAIN queue'[q] :
       /\ n \in Nat /\ n + d \in DOMAIN queue[q] /\ queue'[q][n] = queue[q][n + d]
  /\ queue[q] = <<>> => queue'[q] = <<>>
  /\ \A n \in DOMAIN queue'[q] : f # Sock(queue'[q][n])

(* Then the queue is a queue of its port still.                             *)
LEMMA QueueStays ==
  ASSUME TypeInv, TypeInv', FilesInv, NEW p \in Ports, NEW n, NEW f, Others(p),
         TableStep(p, n, f),
         NEW q \in Ports, QueueStep(q, f)
  PROVE  QueueOK(q)'
  <1>1. QueueOK(q) /\ UNCHANGED <<job, cpc>>
    BY DEF FilesInv, Others
  <1>2. PICK d \in {0, 1} : \A i \in DOMAIN queue'[q] :
           /\ i \in Nat /\ i + d \in DOMAIN queue[q] /\ queue'[q][i] = queue[q][i + d]
    BY DEF QueueStep
  <1>3. queue'[q] # <<>> => pc'[q] \notin {"none", "listen"}
    BY <1>1 DEF QueueOK, QueueStep, Others
  <1>4. ASSUME NEW i \in DOMAIN queue'[q]
        PROVE  /\ job'[queue'[q][i]].port = q /\ cpc'[queue'[q][i]] # "start"
               /\ \A m \in Numbers : table'[m] # Sock(queue'[q][i])
               /\ \A m \in DOMAIN queue'[q] : queue'[q][m] = queue'[q][i] => m = i
    <2>1. i + d \in DOMAIN queue[q] /\ queue'[q][i] = queue[q][i + d] /\ i \in Nat
      BY <1>2
    <2>2. job'[queue'[q][i]].port = q /\ cpc'[queue'[q][i]] # "start"
      BY <1>1, <2>1 DEF QueueOK
    <2>3. ASSUME NEW m \in Numbers
          PROVE  table'[m] # Sock(queue'[q][i])
      <3>1. table[m] # Sock(queue'[q][i]) /\ f # Sock(queue'[q][i])
              /\ NoFile # Sock(queue'[q][i])
        BY <1>1, <2>1, FileKinds DEF QueueOK, QueueStep
      <3> QED
        BY <3>1 DEF TableStep
    <2>4. ASSUME NEW m \in DOMAIN queue'[q], queue'[q][m] = queue'[q][i]
          PROVE  m = i
      <3>1. m + d \in DOMAIN queue[q] /\ queue'[q][m] = queue[q][m + d] /\ m \in Nat
        BY <1>2
      <3>2. m + d = i + d
        BY <1>1, <2>1, <2>4, <3>1 DEF QueueOK
      <3> QED
        BY <2>1, <3>1, <3>2
    <2> QED
      BY <2>2, <2>3, <2>4
  <1> QED
    BY <1>3, <1>4 DEF QueueOK

(* A client that has not started is not touched.                            *)
LEMMA UnbornStays ==
  ASSUME TypeInv, FilesInv, NEW p \in Ports, NEW n, NEW f, Others(p), TableStep(p, n, f),
         NEW k \in Clients, f = Sock(k) => cpc[k] # "start",
         cpc[k] = "start" => up'[k] = up[k] /\ down'[k] = down[k]
  PROVE  UnbornOK(k)'
  <1>1. UnbornOK(k) /\ UNCHANGED cpc
    BY DEF FilesInv, Others
  <1>2. ASSUME cpc[k] = "start", NEW m \in Numbers
        PROVE  table'[m] # Sock(k)
    <2>1. table[m] # Sock(k) /\ f # Sock(k) /\ NoFile # Sock(k)
      BY <1>1, <1>2, FileKinds DEF UnbornOK
    <2> QED
      BY <2>1 DEF TableStep
  <1> QED
    BY <1>1, <1>2 DEF UnbornOK

\* All that FilesInv needs of a step of thread p.
Effect(p, n, f) ==
  /\ Others(p) /\ TableStep(p, n, f)
  /\ FilesOf(p)' /\ HeldOK(p)'
  /\ \A q \in Ports : QueueStep(q, f)
  /\ \A k \in Clients : /\ f = Sock(k) => cpc[k] # "start"
                        /\ cpc[k] = "start" => up'[k] = up[k] /\ down'[k] = down[k]

(* Such a step keeps FilesInv.                                              *)
LEMMA EffectKeeps ==
  ASSUME TypeInv, TypeInv', FilesInv, NEW p \in Ports, NEW n, NEW f, Effect(p, n, f)
  PROVE  FilesInv'
  <1>1. \A m \in Numbers : FileOK(m)'
    BY FilesStay DEF Effect
  <1>2. \A q \in Ports : FilesOf(q)' /\ HeldOK(q)' /\ QueueOK(q)'
    BY FilesStay, HeldStays, QueueStays DEF Effect
  <1>3. \A k \in Clients : UnbornOK(k)'
    BY UnbornStays DEF Effect
  <1> QED
    BY <1>1, <1>2, <1>3 DEF FilesInv

(* No queue is touched.                                                     *)
LEMMA QueueSame ==
  ASSUME TypeInv, UNCHANGED queue, NEW f, \A k \in Clients : f # Sock(k)
  PROVE  \A q \in Ports : QueueStep(q, f)
  <1> SUFFICES ASSUME NEW q \in Ports
               PROVE  QueueStep(q, f)
    OBVIOUS
  <1>1. queue[q] \in Seq(Clients) /\ queue'[q] = queue[q]
    BY DEF TypeInv
  <1>2. DOMAIN queue[q] = 1 .. Len(queue[q]) /\ Len(queue[q]) \in Nat
        /\ \A n \in 1 .. Len(queue[q]) : queue[q][n] \in Clients
    BY <1>1, LenProperties, ElementOfSeq
  <1>3. \A n \in DOMAIN queue'[q] : n \in Nat /\ n + 0 \in DOMAIN queue[q]
             /\ queue'[q][n] = queue[q][n + 0]
    BY <1>1, <1>2
  <1> QED
    BY <1>1, <1>2, <1>3 DEF QueueStep

(* Nothing is opened, and perhaps something closed.                         *)
LEMMA ClosesOnly ==
  ASSUME TypeInv, NEW p \in Ports, NEW m, table' = Closed(table, m) \/ table' = table
  PROVE  /\ TableStep(p, 0, NoFile)
         /\ \A l \in Numbers : table'[l] = table[l] \/ (l = m /\ table'[l] = NoFile)
         /\ \A l \in Numbers : table[l][1] = "claimed" => table'[l] = table[l]
         /\ table' = Closed(table, m) /\ m \in Numbers /\ table[m][1] # "claimed"
              => table'[m] = NoFile
  <1>1. 0 \in Numbers /\ 0 < limit
    BY TableFacts DEF TypeInv
  <1> QED
    BY <1>1 DEF Closed, TableStep

(* The files of a thread that opens none and stays where it has them.       *)
LEMMA FilesSame ==
  ASSUME FilesInv, NEW p \in Ports, UNCHANGED <<listen_fd, log_fd>>,
         \A m \in Numbers : table'[m] = table[m] \/ table'[m] = NoFile,
         pc[p] \notin {"none", "listen", "creat", "accepting", "close_listen", "close_log",
                       "ended"},
         pc'[p] \notin {"none", "listen", "creat", "close_log", "ended"}
  PROVE  FilesOf(p)'
  <1>1. FilesOf(p)
    BY DEF FilesInv
  <1>2. ASSUME NEW m \in Numbers, table'[m] \in {Listener(p), LogOf(p), Claimed(p)}
        PROVE  table'[m] = table[m]
    BY <1>2, FileKinds
  <1> QED
    BY <1>1, <1>2 DEF FilesOf, Opened

(* One file is opened, at a number that was free.                           *)
LEMMA OpensOne ==
  ASSUME TypeInv, NEW p \in Ports, NEW n \in Lowest,
         NEW f \in {Listener(p), LogOf(p), Claimed(p)},
         table' = [table EXCEPT ![n] = f], \A m \in Numbers : table[m] # f
  PROVE  /\ TableStep(p, n, f) /\ n \in Numbers /\ table'[n] = f
         /\ \A m \in Numbers : table'[m] = table[m] \/ (m = n /\ table'[m] = f)
  <1>1. n \in Numbers /\ n < limit /\ table[n] = NoFile
    BY LowestFree
  <1>2. \A m \in Numbers : table'[m] = IF m = n THEN f ELSE table[m]
    BY DEF TypeInv
  <1> QED
    BY <1>1, <1>2 DEF TableStep

(* What is written reaches only clients that have begun.                    *)
LEMMA WrittenTo ==
  ASSUME TypeInv, FilesInv, NEW n, NEW thing, Written(n, thing)
  PROVE  \A k \in Clients : cpc[k] = "start" => down'[k] = down[k]
  <1> SUFFICES ASSUME NEW k \in Clients, cpc[k] = "start"
               PROVE  down'[k] = down[k]
    OBVIOUS
  <1>1. File(n) # Sock(k)
    BY FileKinds DEF FilesInv, UnbornOK, File
  <1> QED
    BY <1>1 DEF Written

(* The steps that open a file, or wait to accept: the socket and the log    *)
(* come to the numbers the thread puts in its variables.                    *)
LEMMA Opens ==
  ASSUME TypeInv, FilesInv, NEW p \in Ports, Thread(p),
         Listen(p) \/ Creat(p) \/ AcceptEnter(p)
  PROVE  \E n, f : Effect(p, n, f)
  <1>1. FilesOf(p) /\ HeldOK(p)
    BY DEF FilesInv
  <1>2. pc \in [Ports -> PCs] /\ listen_fd \in [Ports -> Numbers \cup {Unset}]
        /\ log_fd \in [Ports -> Numbers \cup {Unset}] /\ held \in [Ports -> Files]
    BY DEF TypeInv
  <1>3. \A k \in Clients : Listener(p) # Sock(k) /\ LogOf(p) # Sock(k)
             /\ Claimed(p) # Sock(k)
    BY FileKinds
  <1>4. UNCHANGED wireVars
    BY DEF Listen, Creat, AcceptEnter, wireVars
  <1>5. CASE Listen(p)
    <2>1. PICK n \in Lowest : /\ table' = [table EXCEPT ![n] = Listener(p)]
                              /\ listen_fd' = [listen_fd EXCEPT ![p] = n]
      BY <1>5 DEF Listen
    <2>2. /\ pc[p] = "listen"
          /\ \A m \in Numbers : table[m] \notin {Listener(p), LogOf(p), Claimed(p)}
      BY <1>1, <1>5 DEF Listen, Goto, FilesOf, Opened
    <2>3. /\ TableStep(p, n, Listener(p)) /\ n \in Numbers
          /\ \A m \in Numbers : table'[m] = table[m] \/ (m = n /\ table'[m] = Listener(p))
      BY <2>1, <2>2, OpensOne
    <2>4. Others(p) /\ pc'[p] = "creat" /\ listen_fd'[p] = n
      BY <1>2, <1>5, <2>1 DEF Thread, Listen, Goto, Others, history
    <2>5. FilesOf(p)'
      BY <2>2, <2>3, <2>4, FileKinds DEF FilesOf, Opened
    <2>6. HeldOK(p)'
      BY <1>1, <1>5, <2>2, <2>4 DEF HeldOK, Listen
    <2> QED
      BY <1>3, <1>4, <2>3, <2>4, <2>5, <2>6, QueueSame DEF Effect, wireVars
  <1>6. CASE Creat(p)
    <2>1. PICK n \in Lowest : /\ table' = [table EXCEPT ![n] = LogOf(p)]
                              /\ log_fd' = [log_fd EXCEPT ![p] = n]
      BY <1>6 DEF Creat
    <2>2. pc[p] = "creat" /\ \A m \in Numbers : table[m] \notin {LogOf(p), Claimed(p)}
      BY <1>1, <1>6 DEF Creat, Goto, FilesOf, Opened
    <2>3. /\ TableStep(p, n, LogOf(p)) /\ n \in Numbers
          /\ \A m \in Numbers : table'[m] = table[m] \/ (m = n /\ table'[m] = LogOf(p))
      BY <2>1, <2>2, OpensOne
    <2>4. Others(p) /\ pc'[p] = "accept" /\ log_fd'[p] = n /\ listen_fd'[p] = listen_fd[p]
      BY <1>2, <1>6, <2>1 DEF Thread, Creat, Goto, Others, history
    <2>5. FilesOf(p)'
      BY <1>1, <2>2, <2>3, <2>4, FileKinds DEF FilesOf, Opened
    <2>6. HeldOK(p)'
      BY <1>1, <1>6, <2>2, <2>4 DEF HeldOK, Creat
    <2> QED
      BY <1>3, <1>4, <2>3, <2>4, <2>5, <2>6, QueueSame DEF Effect, wireVars
  <1>7. CASE AcceptEnter(p)
    <2>1. PICK n \in Lowest : table' = [table EXCEPT ![n] = Claimed(p)]
      BY <1>7 DEF AcceptEnter
    <2>2. pc[p] = "accept" /\ \A m \in Numbers : table[m] # Claimed(p)
      BY <1>1, <1>7 DEF AcceptEnter, Goto, FilesOf
    <2>3. /\ TableStep(p, n, Claimed(p)) /\ n \in Numbers /\ table'[n] = Claimed(p)
          /\ \A m \in Numbers : table'[m] = table[m] \/ (m = n /\ table'[m] = Claimed(p))
      BY <2>1, <2>2, OpensOne
    <2>4. /\ Others(p) /\ pc'[p] = "accepting" /\ held'[p] = File(listen_fd[p])
          /\ listen_fd'[p] = listen_fd[p] /\ log_fd'[p] = log_fd[p]
      BY <1>2, <1>7, <2>1 DEF Thread, AcceptEnter, Goto, Others, fdVars
    <2>5. FilesOf(p)'
      BY <1>1, <2>2, <2>3, <2>4, FileKinds DEF FilesOf, Opened
    <2>6. HeldOK(p)'
      <3>1. PICK q \in Ports : File(listen_fd[p]) = Listener(q)
        BY <1>7, KindIs, FileIs DEF AcceptEnter
      <3>2. listen_fd[p] \in Numbers /\ table[listen_fd[p]] = Listener(q)
        BY <3>1, FileIs, FileKinds
      <3>3. Opened(q)
        BY <3>2 DEF FilesInv, FilesOf
      <3>4. pc'[q] \notin {"none", "listen"}
        BY <2>4, <3>3 DEF Opened, Others
      <3> QED
        BY <2>3, <2>4, <3>1, <3>4 DEF HeldOK
    <2> QED
      BY <1>3, <1>4, <2>3, <2>4, <2>5, <2>6, QueueSame DEF Effect, wireVars
  <1> QED
    BY <1>5, <1>6, <1>7

(* What becomes of the queues when a connection is accepted, or dropped.    *)
LEMMA QueueAfter ==
  ASSUME TypeInv, FilesInv, NEW p \in Ports, pc[p] = "accepting", Dequeued(p),
         NEW f \in {Sock(NextConn(p)), NoFile}
  PROVE  \A r \in Ports : QueueStep(r, f)
  <1> SUFFICES ASSUME NEW r \in Ports
               PROVE  QueueStep(r, f)
    OBVIOUS
  <1>1. PICK q \in Ports :
           /\ held[p] = Listener(q) /\ held[p][2] = q /\ queue[q] # <<>>
           /\ NextConn(p) = queue[q][1] /\ NextConn(p) \in Clients
           /\ 1 \in DOMAIN queue[q] /\ job[NextConn(p)].port = q
           /\ \A n \in Numbers : table[n] # Sock(NextConn(p))
           /\ queue' = [queue EXCEPT ![q] = Tail(queue[q])]
           /\ held' = [held EXCEPT ![p] = NoFile]
           /\ Tail(queue[q]) \in Seq(Clients)
           /\ DOMAIN Tail(queue[q]) = 1 .. Len(queue[q]) - 1 /\ Len(queue[q]) \in Nat
           /\ \A n \in DOMAIN Tail(queue[q]) : Tail(queue[q])[n] = queue[q][n + 1]
                   /\ n + 1 \in DOMAIN queue[q]
    BY NextIs
  <1>2. QueueOK(r) /\ queue[r] \in Seq(Clients) /\ QueueOK(q)
    BY DEF FilesInv, TypeInv
  <1>3. CASE r = q
    <2>1. queue'[r] = Tail(queue[q])
      BY <1>1, <1>3 DEF TypeInv
    <2>4. DOMAIN queue'[r] = 1 .. Len(queue[q]) - 1 /\ Len(queue[q]) \in Nat
      BY <1>1, <2>1
    <2>5. ASSUME NEW n \in 1 .. Len(queue[q]) - 1
          PROVE  n \in Nat /\ n + 1 # 1
      BY <1>1
    <2>2. \A n \in DOMAIN queue'[r] : n \in Nat /\ n + 1 \in DOMAIN queue[r]
               /\ queue'[r][n] = queue[r][n + 1]
      BY <1>1, <1>3, <2>1, <2>4, <2>5
    <2>3. ASSUME NEW n \in DOMAIN queue'[r]
          PROVE  f # Sock(queue'[r][n])
      <3>1. n \in Nat /\ n + 1 \in DOMAIN queue[q] /\ n + 1 # 1
        BY <1>3, <2>2, <2>3, <2>4, <2>5
      <3>2. queue[q][n + 1] # queue[q][1]
        BY <1>1, <1>2, <3>1 DEF QueueOK
      <3> QED
        BY <1>1, <1>3, <2>2, <2>3, <3>2, FileKinds
    <2> QED
      BY <1>1, <1>3, <2>2, <2>3 DEF QueueStep
  <1>4. CASE r # q
    <2>1. queue'[r] = queue[r]
      BY <1>1, <1>4 DEF TypeInv
    <2>2. \A n \in DOMAIN queue'[r] : n \in Nat /\ n + 0 \in DOMAIN queue[r]
               /\ queue'[r][n] = queue[r][n + 0]
      <3>1. DOMAIN queue[r] = 1 .. Len(queue[r]) /\ Len(queue[r]) \in Nat
        BY <1>2, LenProperties
      <3> QED
        BY <2>1, <3>1
    <2>3. ASSUME NEW n \in DOMAIN queue'[r]
          PROVE  f # Sock(queue'[r][n])
      <3>1. job[queue[r][n]].port = r
        BY <1>2, <2>1, <2>3 DEF QueueOK
      <3>2. NextConn(p) # queue[r][n]
        BY <1>1, <1>4, <3>1
      <3> QED
        BY <2>1, <3>2, FileKinds
    <2> QED
      BY <2>1, <2>2, <2>3 DEF QueueStep
  <1> QED
    BY <1>3, <1>4

(* What is accepted is the connection of a client that has started, and is  *)
(* not open yet.                                                            *)
LEMMA NextBegun ==
  ASSUME TypeInv, FilesInv, NEW p \in Ports, pc[p] = "accepting", Dequeued(p)
  PROVE  /\ NextConn(p) \in Clients /\ cpc[NextConn(p)] # "start"
         /\ \A n \in Numbers : table[n] # Sock(NextConn(p))
         /\ held' = [held EXCEPT ![p] = NoFile]
  <1>1. PICK q \in Ports :
           /\ held[p] = Listener(q) /\ held[p][2] = q /\ queue[q] # <<>>
           /\ NextConn(p) = queue[q][1] /\ NextConn(p) \in Clients
           /\ 1 \in DOMAIN queue[q] /\ job[NextConn(p)].port = q
           /\ \A n \in Numbers : table[n] # Sock(NextConn(p))
           /\ queue' = [queue EXCEPT ![q] = Tail(queue[q])]
           /\ held' = [held EXCEPT ![p] = NoFile]
           /\ Tail(queue[q]) \in Seq(Clients)
           /\ DOMAIN Tail(queue[q]) = 1 .. Len(queue[q]) - 1 /\ Len(queue[q]) \in Nat
           /\ \A n \in DOMAIN Tail(queue[q]) : Tail(queue[q])[n] = queue[q][n + 1]
                   /\ n + 1 \in DOMAIN queue[q]
    BY NextIs
  <1>2. cpc[NextConn(p)] # "start"
    BY <1>1 DEF FilesInv, QueueOK
  <1> QED
    BY <1>1, <1>2

(* A number is claimed no more; a connection may have it.                   *)
LEMMA ClaimUsed ==
  ASSUME TypeInv, FilesInv, NEW p \in Ports, pc[p] = "accepting",
         NEW f, \/ f = NoFile
                \/ (\E k \in Clients : f = Sock(k)) /\ \A l \in Numbers : table[l] # f,
         NEW m, \/ table' = [table EXCEPT ![ClaimOf(p)] = f]
                \/ table' = Closed([table EXCEPT ![ClaimOf(p)] = f], m),
         UNCHANGED <<listen_fd, log_fd>>, pc'[p] = "read"
  PROVE  /\ TableStep(p, ClaimOf(p), f)
         /\ FilesOf(p)'
  <1>1. /\ ClaimOf(p) \in Numbers /\ table[ClaimOf(p)] = Claimed(p)
        /\ ClaimOf(p) < limit
        /\ \A n \in Numbers : table[n] = Claimed(p) => n = ClaimOf(p)
    BY ClaimIs
  <1> DEFINE t == [table EXCEPT ![ClaimOf(p)] = f]
  <1>2. \A l \in Numbers : t[l] = IF l = ClaimOf(p) THEN f ELSE table[l]
    BY <1>1 DEF TypeInv
  <1>3. \A l \in Numbers : \/ table'[l] = t[l]
                           \/ table'[l] = NoFile /\ t[l][1] # "claimed"
    BY DEF Closed
  <1> HIDE DEF t
  <1>4. TableStep(p, ClaimOf(p), f)
    BY <1>1, <1>2, <1>3 DEF TableStep
  <1>5. FilesOf(p)
    BY DEF FilesInv
  <1>6. ASSUME NEW l \in Numbers, table'[l] \in {Listener(p), LogOf(p), Claimed(p)}
        PROVE  table'[l] = table[l] /\ table'[l] # Claimed(p)
    <2>1. f \notin {Listener(p), LogOf(p), Claimed(p)}
      BY FileKinds
    <2>2. table'[l] = t[l]
      BY <1>3, <1>6, FileKinds
    <2> QED
      BY <1>1, <1>2, <1>6, <2>1, <2>2
  <1>7. FilesOf(p)'
    BY <1>5, <1>6 DEF FilesOf, Opened
  <1> QED
    BY <1>4, <1>7

(* The steps in which accept() returns: the number claimed gets the         *)
(* connection, or is free again.                                            *)
LEMMA Accepts ==
  ASSUME TypeInv, FilesInv, NEW p \in Ports, Thread(p),
         AcceptReturns(p) \/ AcceptAborted(p) \/ GetsocknameFails(p)
  PROVE  \E n, f : Effect(p, n, f)
  <1>1. pc[p] = "accepting" /\ pc' = [pc EXCEPT ![p] = "read"]
    BY DEF AcceptReturns, AcceptAborted, GetsocknameFails, Goto
  <1>2. pc'[p] = "read" /\ UNCHANGED <<listen_fd, log_fd, msg, up, down>>
    BY <1>1 DEF TypeInv, AcceptReturns, AcceptAborted, GetsocknameFails, Unassigned
  <1>3. held' = [held EXCEPT ![p] = NoFile]
    BY <1>1, NextBegun DEF AcceptReturns, AcceptAborted, GetsocknameFails
  <1>4. Others(p)
    <2>1. \A q \in Ports \ {p} : sock_fd'[q] = sock_fd[q] /\ lost'[q] = lost[q]
      BY DEF AcceptReturns, AcceptAborted, GetsocknameFails, Unassigned, TypeInv
    <2>2. proc' = proc
      BY DEF AcceptReturns, AcceptAborted, GetsocknameFails
    <2> QED
      BY <1>1, <1>2, <1>3, <2>1, <2>2 DEF Others, Thread, TypeInv
  <1>5. HeldOK(p)'
    BY <1>2, <1>3 DEF HeldOK, TypeInv
  <1>6. CASE AcceptReturns(p) \/ GetsocknameFails(p)
    <2>1. Dequeued(p)
      BY <1>6 DEF AcceptReturns, GetsocknameFails
    <2>2. /\ NextConn(p) \in Clients /\ cpc[NextConn(p)] # "start"
          /\ \A n \in Numbers : table[n] # Sock(NextConn(p))
      BY <1>1, <2>1, NextBegun
    <2>3. PICK m : \/ table' = [table EXCEPT ![ClaimOf(p)] = Sock(NextConn(p))]
                   \/ table' = Closed([table EXCEPT ![ClaimOf(p)] = Sock(NextConn(p))], m)
      BY <1>6 DEF AcceptReturns, GetsocknameFails
    <2>4. TableStep(p, ClaimOf(p), Sock(NextConn(p))) /\ FilesOf(p)'
      BY <1>1, <1>2, <2>2, <2>3, ClaimUsed
    <2>5. \A q \in Ports : QueueStep(q, Sock(NextConn(p)))
      BY <1>1, <2>1, QueueAfter
    <2>6. \A k \in Clients : Sock(NextConn(p)) = Sock(k) => cpc[k] # "start"
      BY <2>2, FileKinds
    <2> QED
      BY <1>2, <1>4, <1>5, <2>4, <2>5, <2>6 DEF Effect
  <1>7. CASE AcceptAborted(p)
    <2>1. table' = [table EXCEPT ![ClaimOf(p)] = NoFile]
      BY <1>7 DEF AcceptAborted
    <2>2. TableStep(p, ClaimOf(p), NoFile) /\ FilesOf(p)'
      <3>1. PICK f, m : f = NoFile
        OBVIOUS
      <3>2. \/ table' = [table EXCEPT ![ClaimOf(p)] = f]
            \/ table' = Closed([table EXCEPT ![ClaimOf(p)] = f], m)
        BY <2>1, <3>1
      <3>3. TableStep(p, ClaimOf(p), f) /\ FilesOf(p)'
        BY <1>1, <1>2, <3>1, <3>2, ClaimUsed
      <3> QED
        BY <3>1, <3>3
    <2>3. \A k \in Clients : NoFile # Sock(k)
      BY FileKinds
    <2>4. \A q \in Ports : QueueStep(q, NoFile)
      BY <1>1, <1>7, <2>3, QueueAfter, QueueSame DEF AcceptAborted
    <2> QED
      BY <1>2, <1>4, <1>5, <2>2, <2>3, <2>4 DEF Effect
  <1> QED
    BY <1>6, <1>7

(* Steps that open nothing, of a thread that has its files.                 *)
LEMMA Goes ==
  ASSUME TypeInv, FilesInv, NEW p \in Ports, Others(p),
         UNCHANGED <<listen_fd, log_fd, queue>>,
         NEW m, table' = table \/ table' = Closed(table, m),
         \A k \in Clients : cpc[k] = "start" => up'[k] = up[k] /\ down'[k] = down[k],
         FilesOf(p)', HeldOK(p)'
  PROVE  \E n, f : Effect(p, n, f)
  <1>1. TableStep(p, 0, NoFile)
    BY ClosesOnly
  <1>2. \A k \in Clients : NoFile # Sock(k)
    BY FileKinds
  <1>3. \A q \in Ports : QueueStep(q, NoFile)
    BY <1>2, QueueSame
  <1> QED
    BY <1>1, <1>2, <1>3 DEF Effect

(* The steps of a thread that serves, or fails to accept.                   *)
LEMMA Serves ==
  ASSUME TypeInv, FilesInv, NEW p \in Ports, Thread(p),
         \/ AcceptRefused(p) \/ ReadEnter(p) \/ ReadFails(p) \/ ReadRequest(p)
         \/ LogRequest(p) \/ Reply(p) \/ ReplyFails(p) \/ LogResponse(p) \/ Hangup(p)
  PROVE  \E n, f : Effect(p, n, f)
  <1>1. HeldOK(p) /\ pc \in [Ports -> PCs] /\ held \in [Ports -> Files]
    BY DEF FilesInv, TypeInv
  <1>2. /\ pc[p] \in {"accept", "read", "log", "reply", "note", "hangup"}
        /\ pc'[p] \in {"read", "log", "reply", "note", "hangup", "accept", "close_listen"}
        /\ \A q \in Ports \ {p} : pc'[q] = pc[q]
    BY <1>1
       DEF AcceptRefused, ReadEnter, ReadFails, ReadRequest, LogRequest, Reply,
           ReplyFails, LogResponse, Hangup, Goto, Answered
  <1>3. UNCHANGED <<listen_fd, log_fd, queue, proc>>
    BY
       DEF AcceptRefused, ReadEnter, ReadFails, ReadRequest, LogRequest, Reply,
           ReplyFails, LogResponse, Hangup, Unassigned, fdVars, wireVars
  <1>4. \A q \in Ports \ {p} : UNCHANGED <<held[q], lost[q], sock_fd[q], msg[q]>>
    BY
       DEF AcceptRefused, ReadEnter, ReadFails, ReadRequest, LogRequest, Reply,
           ReplyFails, LogResponse, Hangup, Unassigned, fdVars, Forgotten, history,
           TypeInv
  <1>5. Others(p)
    BY <1>2, <1>3, <1>4 DEF Others, Thread
  <1>6. table' = table \/ table' = Closed(table, sock_fd[p])
    BY
       DEF AcceptRefused, ReadEnter, ReadFails, ReadRequest, LogRequest, Reply,
           ReplyFails, LogResponse, Hangup
  <1>7. FilesOf(p)'
    <2>1. \A m \in Numbers : table'[m] = table[m] \/ table'[m] = NoFile
      BY <1>6 DEF Closed
    <2> QED
      BY <1>2, <1>3, <2>1, FilesSame
  <1>8. HeldOK(p)'
    <2>1. CASE ReadEnter(p)
      <3>1. pc'[p] = "read" /\ held'[p] = File(sock_fd[p]) /\ IsSock(File(sock_fd[p]))
        BY <1>1, <2>1 DEF ReadEnter
      <3>2. \E k \in Clients : held'[p] = Sock(k)
        BY <3>1, KindIs, FileIs
      <3> QED
        BY <3>1, <3>2 DEF HeldOK
    <2>2. CASE ReadFails(p) \/ ReadRequest(p)
      BY <1>1, <1>2, <2>2 DEF ReadFails, ReadRequest, HeldOK
    <2>3. CASE ~(ReadEnter(p) \/ ReadFails(p) \/ ReadRequest(p))
      <3>1. held'[p] = held[p] /\ pc[p] # "read"
        BY <2>3
           DEF AcceptRefused, LogRequest, Reply, ReplyFails, LogResponse, Hangup, Goto
      <3> QED
        BY <1>1, <1>2, <3>1 DEF HeldOK
    <2> QED
      BY <2>1, <2>2, <2>3
  <1>9. ASSUME NEW k \in Clients, cpc[k] = "start"
        PROVE  up'[k] = up[k] /\ down'[k] = down[k]
    <2>1. up[k] = <<>>
      BY <1>9 DEF FilesInv, UnbornOK
    <2>2. up'[k] = up[k]
      BY <2>1
         DEF AcceptRefused, ReadEnter, ReadFails, ReadRequest, LogRequest, Reply,
             ReplyFails, LogResponse, Hangup, wireVars, TypeInv
    <2>3. \/ down' = down \/ Written(log_fd[p], "Record")
               \/ Written(sock_fd[p], "Response")
      BY
         DEF AcceptRefused, ReadEnter, ReadFails, ReadRequest, LogRequest, Reply,
             ReplyFails, LogResponse, Hangup, wireVars, Logs
    <2> QED
      BY <1>9, <2>2, <2>3, WrittenTo
  <1> QED
    BY <1>3, <1>5, <1>6, <1>7, <1>8, <1>9, Goes

(* The steps that end a thread.                                             *)
LEMMA Ends ==
  ASSUME TypeInv, FilesInv, NEW p \in Ports, Thread(p),
         ListenFails(p) \/ CloseListen(p) \/ CloseLog(p)
  PROVE  \E n, f : Effect(p, n, f)
  <1>1. HeldOK(p) /\ FilesOf(p) /\ pc \in [Ports -> PCs]
    BY DEF FilesInv, TypeInv
  <1>2. UNCHANGED <<listen_fd, log_fd, queue, up, down, held>>
    BY DEF ListenFails, CloseListen, CloseLog, fdVars, wireVars
  <1>3. pc'[p] \in {"ended", "close_log"} /\ pc[p] \notin {"accepting", "read"}
    BY <1>1 DEF ListenFails, CloseListen, CloseLog, Goto
  <1>4. Others(p)
    BY <1>1, <1>2, <1>3
       DEF ListenFails, CloseListen, CloseLog, Goto, Others, Thread, fdVars, history
  <1>5. HeldOK(p)'
    BY <1>1, <1>2, <1>3 DEF HeldOK
  <1>6. CASE ListenFails(p)
    <2>1. table' = table /\ pc[p] = "listen"
      BY <1>6 DEF ListenFails, Goto
    <2>2. FilesOf(p)'
      BY <1>1, <2>1 DEF FilesOf, Opened
    <2> QED
      BY <1>2, <1>4, <1>5, <2>1, <2>2, Goes
  <1>7. CASE CloseListen(p)
    <2>1. table' = Closed(table, listen_fd[p]) /\ pc[p] = "close_listen"
            /\ pc'[p] = "close_log"
      BY <1>1, <1>7 DEF CloseListen, Goto
    <2>2. ASSUME NEW m \in Numbers
          PROVE  /\ table'[m] # Listener(p)
                 /\ table'[m] = table[m] \/ table'[m] = NoFile
      <3>1. table[m] = Listener(p) => m = listen_fd[p] /\ table[m][1] # "claimed"
        BY <1>1, KindOf DEF FilesOf
      <3> QED
        BY <2>1, <3>1, FileKinds DEF Closed
    <2>3. FilesOf(p)'
      BY <1>1, <1>2, <2>1, <2>2, FileKinds DEF FilesOf, Opened
    <2> QED
      BY <1>2, <1>4, <1>5, <2>1, <2>3, Goes
  <1>8. CASE CloseLog(p)
    <2>1. table' = Closed(table, log_fd[p]) /\ pc[p] = "close_log"
      BY <1>1, <1>8 DEF CloseLog, Goto
    <2>2. ASSUME NEW m \in Numbers
          PROVE  table'[m] \notin {Listener(p), LogOf(p), Claimed(p)}
      <3>1. table[m] = LogOf(p) => m = log_fd[p] /\ table[m][1] # "claimed"
        BY <1>1, KindOf DEF FilesOf
      <3>2. table[m] \notin {Listener(p), Claimed(p)}
        BY <1>1, <2>1 DEF FilesOf
      <3> QED
        BY <2>1, <3>1, <3>2, FileKinds DEF Closed
    <2>3. FilesOf(p)'
      BY <2>2 DEF FilesOf
    <2> QED
      BY <1>2, <1>4, <1>5, <2>1, <2>3, Goes
  <1> QED
    BY <1>6, <1>7, <1>8

(* The process is gone.                                                     *)
LEMMA GoneFiles ==
  ASSUME TypeInv, FilesInv, NEW how, Gone(how), UNCHANGED <<wireVars, cpc, job>>
  PROVE  FilesInv'
  <1>1. /\ \A n \in Numbers : table'[n] = NoFile
        /\ \A p \in Ports : pc'[p] = "ended" /\ held'[p] = NoFile
    BY DEF Gone
  <1>2. \A n \in Numbers : FileOK(n)'
    BY <1>1, FileKinds DEF FileOK
  <1>3. \A p \in Ports : FilesOf(p)' /\ HeldOK(p)'
    BY <1>1, FileKinds DEF FilesOf, HeldOK
  <1>4. ASSUME NEW p \in Ports
        PROVE  QueueOK(p)'
    <2>1. QueueOK(p) /\ UNCHANGED <<queue, cpc, job>>
      BY DEF FilesInv, wireVars
    <2> QED
      BY <1>1, <2>1, FileKinds DEF QueueOK
  <1>5. \A k \in Clients : UnbornOK(k)'
    BY <1>1, FileKinds DEF FilesInv, UnbornOK, wireVars
  <1> QED
    BY <1>2, <1>3, <1>4, <1>5 DEF FilesInv

(* Every step of a thread keeps FilesInv.                                   *)
LEMMA ThreadFiles ==
  ASSUME TypeInv, TypeInv', FilesInv, NEW p \in Ports, Thread(p)
  PROVE  FilesInv'
  <1>1. CASE CreatFails(p)
    BY <1>1, GoneFiles DEF CreatFails, Thread
  <1>2. CASE Sigpipe(p)
    BY <1>2, GoneFiles DEF Sigpipe, Thread
  <1>3. CASE ~CreatFails(p) /\ ~Sigpipe(p)
    <2>1. \E n, f : Effect(p, n, f)
      BY <1>3, Opens, Accepts, Serves, Ends DEF Thread, Accept, Serve
    <2> QED
      BY <2>1, EffectKeeps
  <1> QED
    BY <1>1, <1>2, <1>3

(* A thread is created.                                                     *)
LEMMA SpawnFiles ==
  ASSUME TypeInv, FilesInv, Main, Spawn
  PROVE  FilesInv'
  <1>1. PICK q \in Ports : pc[q] = "none" /\ pc' = [pc EXCEPT ![q] = "listen"]
    <2>1. spawned' \in Ports
      BY TableFacts DEF Spawn, TypeInv, Ports
    <2> QED
      BY <2>1 DEF Spawn, Goto
  <1>2. UNCHANGED <<limit, table, listen_fd, log_fd, held, queue, up, down, cpc, job>>
    BY DEF Main, Spawn, fdVars, wireVars
  <1>3. \A p \in Ports : pc'[p] = pc[p] \/ (p = q /\ pc[p] = "none" /\ pc'[p] = "listen")
    BY <1>1 DEF TypeInv
  <1>4. \A n \in Numbers : FileOK(n)'
    BY <1>2 DEF FilesInv, FileOK
  <1>5. \A p \in Ports : FilesOf(p)'
    BY <1>2, <1>3 DEF FilesInv, FilesOf, Opened
  <1>6. \A p \in Ports : HeldOK(p)'
    BY <1>2, <1>3 DEF FilesInv, HeldOK
  <1>7. ASSUME NEW p \in Ports
        PROVE  QueueOK(p)'
    BY <1>2, <1>3 DEF FilesInv, QueueOK
  <1>8. \A k \in Clients : UnbornOK(k)'
    BY <1>2 DEF FilesInv, UnbornOK
  <1> QED
    BY <1>4, <1>5, <1>6, <1>7, <1>8 DEF FilesInv

(* A client keeps it: it is at most in one queue, and once, that of a port  *)
(* somebody listens on.                                                     *)
LEMMA ClientFiles ==
  ASSUME TypeInv, FilesInv, NEW k \in Clients, Client(k)
  PROVE  FilesInv'
  <1>1. UNCHANGED <<limit, table, pc, listen_fd, log_fd, held, job>>
    BY DEF Client, fdVars
  <1>2. \A n \in Numbers : FileOK(n)'
    BY <1>1 DEF FilesInv, FileOK
  <1>3. \A p \in Ports : FilesOf(p)' /\ HeldOK(p)'
    BY <1>1 DEF FilesInv, FilesOf, HeldOK, Opened
  <1>4. cpc' \in [Clients -> {"start", "wait"} \cup Over] /\ cpc'[k] # "start"
        /\ \A l \in Clients \ {k} : cpc'[l] = cpc[l]
    BY DEF Client, Call, ConnectFails, Receive, GivesUp, ClientGoto, TypeInv, Over
  <1>5. ASSUME NEW l \in Clients \ {k}
        PROVE  up'[l] = up[l] /\ down'[l] = down[l]
    BY DEF Client, Call, ConnectFails, Receive, GivesUp, TypeInv, wireVars
  <1>6. \A l \in Clients : UnbornOK(l)'
    BY <1>1, <1>4, <1>5 DEF FilesInv, UnbornOK
  <1>7. ASSUME NEW p \in Ports
        PROVE  QueueOK(p)'
    <2>1. QueueOK(p) /\ queue[p] \in Seq(Clients)
      BY DEF FilesInv, TypeInv
    <2>2. \A n \in DOMAIN queue[p] : cpc'[queue[p][n]] # "start"
      <3>1. \A n \in DOMAIN queue[p] : queue[p][n] \in Clients
        BY <2>1, ElementOfSeq, LenProperties
      <3> QED
        BY <1>4, <2>1, <3>1 DEF QueueOK
    <2>3. CASE queue'[p] = queue[p]
      BY <1>1, <2>1, <2>2, <2>3 DEF QueueOK
    <2>4. CASE queue'[p] # queue[p]
      <3>1. Call(k) /\ p = job[k].port
        BY <2>4 DEF Client, Call, ConnectFails, Receive, GivesUp, TypeInv, wireVars
      <3>2. cpc[k] = "start" /\ Lives(Listener(p)) /\ queue'[p] = Append(queue[p], k)
        BY <3>1 DEF Call, ClientGoto, TypeInv
      <3>3. pc[p] \notin {"none", "listen"}
        <4>1. CASE \E n \in Numbers : table[n] = Listener(p)
          BY <4>1 DEF FilesInv, FilesOf, Opened
        <4>2. CASE \E r \in Ports : held[r] = Listener(p)
          BY <4>2, FileKinds DEF FilesInv, HeldOK
        <4> QED
          BY <3>2, <4>1, <4>2 DEF Lives
      <3>4. UnbornOK(k) /\ \A n \in DOMAIN queue[p] : queue[p][n] # k
        BY <2>1, <3>2 DEF FilesInv, QueueOK
      <3>5. DOMAIN queue[p] = 1 .. Len(queue[p]) /\ Len(queue[p]) \in Nat
        BY <2>1, LenProperties
      <3>6. /\ queue'[p] \in Seq(Clients) /\ Len(queue'[p]) = Len(queue[p]) + 1
            /\ \A i \in 1 .. Len(queue[p]) : queue'[p][i] = queue[p][i]
            /\ queue'[p][Len(queue[p]) + 1] = k
        BY <2>1, <3>2, AppendProperties
      <3>7. DOMAIN queue'[p] = 1 .. Len(queue[p]) + 1
        BY <3>6, LenProperties
      <3>8. ASSUME NEW n \in DOMAIN queue'[p]
            PROVE  \/ n \in DOMAIN queue[p] /\ queue'[p][n] = queue[p][n]
                   \/ n = Len(queue[p]) + 1 /\ queue'[p][n] = k
        BY <3>5, <3>6, <3>7
      <3>9. job[k].port = p /\ cpc'[k] # "start" /\ \A m \in Numbers : table[m] # Sock(k)
        BY <1>4, <3>1, <3>2, <3>4 DEF UnbornOK
      <3>10. ASSUME NEW n \in DOMAIN queue'[p]
             PROVE  /\ job[queue'[p][n]].port = p /\ cpc'[queue'[p][n]] # "start"
                    /\ \A m \in Numbers : table[m] # Sock(queue'[p][n])
                    /\ \A m \in DOMAIN queue'[p] : queue'[p][m] = queue'[p][n] => m = n
        <4>1. CASE n \in DOMAIN queue[p] /\ queue'[p][n] = queue[p][n]
          BY <2>1, <2>2, <3>4, <3>8, <4>1 DEF QueueOK
        <4>2. CASE n = Len(queue[p]) + 1 /\ queue'[p][n] = k
          BY <3>4, <3>8, <3>9, <4>2
        <4> QED
          BY <3>8, <4>1, <4>2
      <3> QED
        BY <1>1, <3>3, <3>10 DEF QueueOK
    <2> QED
      BY <2>3, <2>4
  <1> QED
    BY <1>2, <1>3, <1>6, <1>7 DEF FilesInv

(* Every step keeps FilesInv.                                               *)
LEMMA FilesKept ==
  ASSUME TypeInv, TypeInv', FilesInv, [Next]_vars
  PROVE  FilesInv'
  <1>1. CASE Main
    <2>1. CASE SpawnFails \/ Return
      BY <1>1, <2>1, GoneFiles DEF SpawnFails, Return, Main
    <2> QED
      BY <1>1, <2>1, SpawnFiles DEF Main
  <1>2. CASE UNCHANGED vars
    <2>1. /\ \A n \in Numbers : FileOK(n)' = FileOK(n)
          /\ \A p \in Ports : FilesOf(p)' = FilesOf(p) /\ HeldOK(p)' = HeldOK(p)
                  /\ QueueOK(p)' = QueueOK(p)
          /\ \A k \in Clients : UnbornOK(k)' = UnbornOK(k)
      BY <1>2
         DEF vars, fdVars, wireVars, FileOK, FilesOf, HeldOK, QueueOK, UnbornOK, Opened
    <2> QED
      BY <2>1 DEF FilesInv
  <1> QED
    BY <1>1, <1>2, ThreadFiles, ClientFiles DEF Next

-----------------------------------------------------------------------------
(* The numbers of a thread, as long as nobody has strayed *)

\* Connections to port p.
SocksOf(p) == {Sock(k) : k \in {l \in Clients : job[l].port = p}}

\* What thread p does to the table concerns nobody else.
OwnChange(p) ==
  \A l \in Numbers :
    \/ table'[l] = table[l]
    \/ table[l] \in {NoFile, Claimed(p), Listener(p), LogOf(p)} \cup SocksOf(p)

(* Then the others keep their numbers.                                      *)
LEMMA OwnStays ==
  ASSUME TypeInv, NEW p \in Ports, Others(p), OwnChange(p), NEW q \in Ports \ {p},
         OwnNumbers(q)
  PROVE  OwnNumbers(q)'
  <1>1. UNCHANGED <<pc[q], held[q], lost[q], listen_fd[q], log_fd[q], sock_fd[q], msg[q],
                    job>>
    BY DEF Others
  <1>2. ASSUME NEW n, File(n) \in {Listener(q), LogOf(q)} \cup SocksOf(q)
        PROVE  File(n)' = File(n)
    <2>1. SocksOf(q) \cap SocksOf(p) = {}
      BY FileKinds DEF SocksOf
    <2>2. File(n) \notin {NoFile, Claimed(p), Listener(p), LogOf(p)} \cup SocksOf(p)
      BY <1>2, <2>1, FileKinds DEF SocksOf
    <2> QED
      BY <2>2 DEF OwnChange, File
  <1>3. Opened(q)' = Opened(q) /\ Serving(q)' = Serving(q)
    BY <1>1 DEF Opened, Serving
  <1>4. Opened(q) /\ pc[q] # "close_log" /\ "listen" \notin lost[q]
          => File(listen_fd[q])' = Listener(q)
    BY <1>1, <1>2 DEF OwnNumbers
  <1>5. Opened(q) /\ pc[q] # "creat" => File(log_fd[q])' = LogOf(q)
    BY <1>1, <1>2 DEF OwnNumbers
  <1>6. Serving(q) /\ "sock" \notin lost[q] =>
          /\ File(sock_fd[q])' = File(sock_fd[q])
          /\ \E k \in Clients : job[k].port = q /\ File(sock_fd[q]) = Sock(k)
    <2> SUFFICES ASSUME Serving(q), "sock" \notin lost[q]
                 PROVE  /\ File(sock_fd[q])' = File(sock_fd[q])
                        /\ \E k \in Clients : job[k].port = q
                                /\ File(sock_fd[q]) = Sock(k)
      OBVIOUS
    <2>1. PICK k \in Clients : job[k].port = q /\ File(sock_fd[q]) = Sock(k)
      BY DEF OwnNumbers
    <2>2. File(sock_fd[q]) \in SocksOf(q)
      BY <2>1 DEF SocksOf
    <2>3. File(sock_fd[q])' = File(sock_fd[q])
      <3>1. \A n : File(n) \in SocksOf(q)
                 => IF n \in Numbers THEN table'[n] = table[n] ELSE TRUE
        BY <1>2 DEF File
      <3> QED
        BY <1>1, <2>2, <3>1 DEF File
    <2> QED
      BY <2>1, <2>3
  <1>7. pc[q] \in {"read", "log", "reply", "note"} => Serving(q)
    BY DEF Serving
  <1> QED
    BY <1>1, <1>3, <1>4, <1>5, <1>6, <1>7 DEF OwnNumbers

(* What a thread closes, as long as it has not strayed.                     *)
LEMMA OwnClose ==
  ASSUME TypeInv, NEW p \in Ports, OwnNumbers(p), ~strayed', NEW m,
         \/ Serving(p) /\ m = sock_fd[p] /\ Uses(p, "sock", m)
         \/ Opened(p) /\ pc[p] # "close_log" /\ m = listen_fd[p] /\ Uses(p, "listen", m),
         table' = Closed(table, m)
  PROVE  \A l \in Numbers : \/ table'[l] = table[l]
                            \/ l = m /\ Serving(p) /\ table[l] \in SocksOf(p)
                            \/ l = m /\ m = listen_fd[p] /\ table[l] = Listener(p)
  <1> SUFFICES ASSUME NEW l \in Numbers, table'[l] # table[l]
               PROVE  \/ l = m /\ Serving(p) /\ table[l] \in SocksOf(p)
                      \/ l = m /\ m = listen_fd[p] /\ table[l] = Listener(p)
    OBVIOUS
  <1>1. l = m /\ table[l][1] # "claimed" /\ table[l] # NoFile
    BY DEF Closed
  <1>2. File(m) = table[l] /\ File(m)[1] # "none"
    BY <1>1, KindIs DEF TypeInv, File
  <1>3. IsOpen(m)
    BY <1>1, <1>2 DEF IsOpen
  <1>4. CASE Serving(p) /\ m = sock_fd[p] /\ Uses(p, "sock", m)
    BY <1>1, <1>2, <1>3, <1>4 DEF Uses, OwnNumbers, SocksOf
  <1>5. CASE Opened(p) /\ pc[p] # "close_log" /\ m = listen_fd[p] /\ Uses(p, "listen", m)
    BY <1>1, <1>2, <1>3, <1>5 DEF Uses, OwnNumbers
  <1> QED
    BY <1>4, <1>5

(* A thread opens its listening socket or its log, or waits to accept.      *)
LEMMA OwnOpens ==
  ASSUME TypeInv, FilesInv, NEW p \in Ports, OwnNumbers(p), Thread(p), ~strayed',
         Listen(p) \/ Creat(p) \/ AcceptEnter(p)
  PROVE  OwnNumbers(p)' /\ OwnChange(p)
  <1>1. HeldOK(p)
    BY DEF FilesInv
  <1>2. PICK n \in Lowest, f \in {Listener(p), LogOf(p), Claimed(p)} :
          table' = [table EXCEPT ![n] = f]
    BY DEF Listen, Creat, AcceptEnter
  <1>3. /\ n \in Numbers /\ table[n] = NoFile /\ table'[n] = f
        /\ \A l \in Numbers \ {n} : table'[l] = table[l]
    BY <1>2, LowestFree DEF TypeInv
  <1>4. OwnChange(p)
    BY <1>3 DEF OwnChange
  <1>5. CASE Listen(p)
    <2>1. PICK m \in Lowest : /\ table' = [table EXCEPT ![m] = Listener(p)]
                              /\ listen_fd' = [listen_fd EXCEPT ![p] = m]
      BY <1>5 DEF Listen
    <2>2. m \in Numbers
      BY <2>1, LowestFree
    <2>3. pc'[p] = "creat" /\ listen_fd'[p] = m /\ table'[m] = Listener(p)
      BY <1>5, <2>1, <2>2 DEF Listen, Goto, TypeInv
    <2>4. (File(listen_fd[p]))' = Listener(p)
      BY <2>2, <2>3 DEF File
    <2> QED
      BY <1>4, <2>3, <2>4 DEF OwnNumbers, Serving
  <1>6. CASE Creat(p)
    <2>1. PICK m \in Lowest : /\ table' = [table EXCEPT ![m] = LogOf(p)]
                              /\ log_fd' = [log_fd EXCEPT ![p] = m]
      BY <1>6 DEF Creat
    <2>2. m \in Numbers /\ table[m] = NoFile
      BY <2>1, LowestFree
    <2>3. /\ pc[p] = "creat" /\ pc'[p] = "accept" /\ log_fd'[p] = m
               /\ table'[m] = LogOf(p)
          /\ listen_fd' = listen_fd /\ lost' = lost
          /\ \A l \in Numbers \ {m} : table'[l] = table[l]
      BY <1>6, <2>1, <2>2 DEF Creat, Goto, TypeInv, history
    <2>4. (File(log_fd[p]))' = LogOf(p)
      BY <2>2, <2>3 DEF File
    <2>5. "listen" \notin lost[p] => (File(listen_fd[p]))' = Listener(p)
      <3>1. "listen" \notin lost[p] => File(listen_fd[p]) = Listener(p)
        BY <2>3 DEF OwnNumbers, Opened
      <3> QED
        BY <2>2, <2>3, <3>1, FileKinds DEF File
    <2> QED
      BY <1>4, <2>3, <2>4, <2>5 DEF OwnNumbers, Serving
  <1>7. CASE AcceptEnter(p)
    <2>1. /\ pc[p] = "accept" /\ pc'[p] = "accepting"
               /\ UNCHANGED <<listen_fd, log_fd, lost>>
          /\ held'[p] = File(listen_fd[p]) /\ Uses(p, "listen", listen_fd[p])
          /\ IsListener(File(listen_fd[p]))
      BY <1>7 DEF AcceptEnter, Goto, TypeInv, fdVars
    <2>2. IsOpen(listen_fd[p])
      BY <2>1 DEF IsListener, IsOpen
    <2>3. "listen" \notin lost[p]
      BY <2>1, <2>2 DEF Uses
    <2>4. File(listen_fd[p]) = Listener(p) /\ File(log_fd[p]) = LogOf(p)
      BY <2>1, <2>3 DEF OwnNumbers, Opened
    <2>5. File(listen_fd[p])' = Listener(p) /\ File(log_fd[p])' = LogOf(p)
      BY <1>3, <2>1, <2>4, FileKinds DEF File
    <2> QED
      BY <1>4, <2>1, <2>3, <2>4, <2>5 DEF OwnNumbers, Serving
  <1> QED
    BY <1>5, <1>6, <1>7

(* accept() returns: the connection comes from the own queue of the thread, *)
(* or its number counts as lost.                                            *)
LEMMA OwnAccepts ==
  ASSUME TypeInv, FilesInv, NEW p \in Ports, OwnNumbers(p), Thread(p), ~strayed',
         AcceptReturns(p) \/ AcceptAborted(p) \/ GetsocknameFails(p)
  PROVE  OwnNumbers(p)' /\ OwnChange(p)
  <1>1. pc[p] = "accepting" /\ pc'[p] = "read" /\ UNCHANGED <<listen_fd, log_fd>>
    BY DEF AcceptReturns, AcceptAborted, GetsocknameFails, Goto, Unassigned, TypeInv
  <1>2. /\ ClaimOf(p) \in Numbers /\ table[ClaimOf(p)] = Claimed(p)
    BY <1>1, ClaimIs
  <1>3. "listen" \notin lost[p] /\ File(listen_fd[p]) = Listener(p)
          /\ File(log_fd[p]) = LogOf(p)
        /\ held[p] = Listener(p)
    BY <1>1 DEF OwnNumbers, Opened
  <1>4. held'[p] = NoFile
    BY <1>1, NextBegun DEF AcceptReturns, AcceptAborted, GetsocknameFails, TypeInv
  <1>5. \A l \in Numbers : l # ClaimOf(p)
             => table'[l] = table[l] \/ (l = listen_fd[p] /\ GetsocknameFails(p))
    BY DEF AcceptReturns, AcceptAborted, GetsocknameFails, Closed, TypeInv
  <1>6. OwnChange(p)
    BY <1>2, <1>3, <1>5 DEF OwnChange, File
  <1>7. File(log_fd[p])' = LogOf(p)
    BY <1>1, <1>2, <1>3, <1>5, FileKinds DEF File
  <1>8. CASE AcceptReturns(p)
    <2>1. Dequeued(p) /\ held[p][2] = p
      BY <1>3, <1>8, KindOf DEF AcceptReturns
    <2>2. NextConn(p) \in Clients /\ job[NextConn(p)].port = p
      <3>1. PICK q \in Ports : held[p] = Listener(q) /\ NextConn(p) \in Clients
              /\ job[NextConn(p)].port = q
        BY <1>1, <2>1, NextIs
      <3> QED
        BY <1>3, <3>1, FileKinds
    <2>3. sock_fd'[p] = ClaimOf(p) /\ table'[ClaimOf(p)] = Sock(NextConn(p))
            /\ job' = job /\ lost'[p] = lost[p] \ {"sock"}
      BY <1>2, <1>8 DEF AcceptReturns, TypeInv, Thread
    <2>4. (File(sock_fd[p]))' = Sock(NextConn(p))
      BY <1>2, <2>3 DEF File
    <2>5. File(listen_fd[p])' = Listener(p)
      <3>1. \A l \in Numbers : l # ClaimOf(p) => table'[l] = table[l]
        BY <1>8 DEF AcceptReturns, TypeInv
      <3> QED
        BY <1>1, <1>2, <1>3, <3>1, FileKinds DEF File
    <2> QED
      BY <1>1, <1>4, <1>6, <1>7, <2>2, <2>3, <2>4, <2>5 DEF OwnNumbers
  <1>9. CASE AcceptAborted(p)
    <2>1. File(listen_fd[p])' = Listener(p)
      <3>1. \A l \in Numbers : l # ClaimOf(p) => table'[l] = table[l]
        BY <1>9 DEF AcceptAborted, TypeInv
      <3> QED
        BY <1>1, <1>2, <1>3, <3>1, FileKinds DEF File
    <2>2. "sock" \in lost'[p]
      BY <1>9 DEF AcceptAborted, Unassigned, TypeInv
    <2> QED
      BY <1>1, <1>4, <1>6, <1>7, <2>1, <2>2 DEF OwnNumbers
  <1>10. CASE GetsocknameFails(p)
    <2>1. {"sock", "listen"} \subseteq lost'[p]
      BY <1>10 DEF GetsocknameFails, Unassigned, TypeInv
    <2> QED
      BY <1>1, <1>4, <1>6, <1>7, <2>1 DEF OwnNumbers
  <1> QED
    BY <1>8, <1>9, <1>10

(* Steps that leave the table as it is.                                     *)
LEMMA OwnServes ==
  ASSUME TypeInv, FilesInv, NEW p \in Ports, OwnNumbers(p), Thread(p), ~strayed',
         \/ ListenFails(p) \/ AcceptRefused(p) \/ ReadEnter(p) \/ ReadFails(p)
              \/ ReadRequest(p)
         \/ LogRequest(p) \/ Reply(p) \/ ReplyFails(p) \/ LogResponse(p)
  PROVE  OwnNumbers(p)' /\ OwnChange(p)
  <1>1. UNCHANGED <<table, listen_fd, log_fd, job>>
    BY
       DEF ListenFails, AcceptRefused, ReadEnter, ReadFails, ReadRequest, LogRequest,
           Reply, ReplyFails, LogResponse, Unassigned, fdVars, Thread
  <1>2. \A n : File(n)' = File(n)
    BY <1>1 DEF File
  <1>3. OwnChange(p)
    BY <1>1 DEF OwnChange
  <1>4. HeldOK(p)
    BY DEF FilesInv
  <1>5. CASE ListenFails(p)
    <2>1. pc'[p] = "ended"
      BY <1>5 DEF ListenFails, Goto, TypeInv
    <2> QED
      BY <1>3, <1>4, <2>1 DEF OwnNumbers, Opened, Serving
  <1>6. CASE AcceptRefused(p)
    <2>1. pc[p] = "accept" /\ pc'[p] = "read" /\ held' = held
            /\ lost'[p] = lost[p] \cup {"sock"}
      BY <1>6 DEF AcceptRefused, Goto, TypeInv, Unassigned
    <2>2. held[p] = NoFile
      BY <1>4, <2>1 DEF HeldOK
    <2> QED
      BY <1>1, <1>2, <1>3, <2>1, <2>2 DEF OwnNumbers, Opened
  <1>7. CASE ReadEnter(p)
    <2>1. /\ pc[p] = "read" /\ UNCHANGED <<pc, sock_fd, lost, msg>>
               /\ held'[p] = File(sock_fd[p])
          /\ Uses(p, "sock", sock_fd[p]) /\ IsSock(File(sock_fd[p]))
      BY <1>7 DEF ReadEnter, TypeInv, fdVars
    <2>2. "sock" \notin lost[p]
      BY <2>1 DEF Uses, IsSock, IsOpen
    <2> QED
      BY <1>1, <1>2, <1>3, <2>1, <2>2 DEF OwnNumbers, Opened, Serving
  <1>8. CASE ReadFails(p)
    <2>1. pc[p] = "read" /\ pc'[p] = "hangup" /\ UNCHANGED <<sock_fd, lost>>
      BY <1>8 DEF ReadFails, Goto, TypeInv, fdVars
    <2> QED
      BY <1>1, <1>2, <1>3, <2>1 DEF OwnNumbers, Opened, Serving
  <1>9. CASE ReadRequest(p)
    <2>1. /\ pc[p] = "read" /\ pc'[p] = "log" /\ UNCHANGED <<sock_fd, lost>>
               /\ IsSock(held[p])
          /\ msg'[p] = <<held[p][2], Head(up[held[p][2]])>>
      BY <1>9 DEF ReadRequest, Goto, TypeInv, fdVars, history
    <2>2. PICK k \in Clients : held[p] = Sock(k)
      BY <2>1, KindIs DEF TypeInv
    <2>3. held[p] # NoFile /\ msg'[p][1] = k /\ msg'[p] # NoMsg
      BY <2>1, <2>2, KindOf, FileKinds DEF NoMsg
    <2>4. "sock" \notin lost[p] /\ File(sock_fd[p]) = Sock(k)
      BY <2>1, <2>2, <2>3 DEF OwnNumbers
    <2> QED
      BY <1>1, <1>2, <1>3, <2>1, <2>3, <2>4 DEF OwnNumbers, Opened, Serving
  <1>10. CASE LogRequest(p) \/ Reply(p)
    <2>1. /\ pc[p] \in {"log", "reply"} /\ pc'[p] \in {"reply", "note"}
          /\ UNCHANGED <<sock_fd, lost, msg>>
      BY <1>10 DEF LogRequest, Reply, Goto, TypeInv, fdVars, history
    <2> QED
      BY <1>1, <1>2, <1>3, <2>1 DEF OwnNumbers, Opened, Serving
  <1>11. CASE ReplyFails(p) \/ LogResponse(p)
    <2>1. /\ pc[p] \in {"reply", "note"} /\ pc'[p] \in {"hangup", "read"}
          /\ UNCHANGED <<sock_fd, lost, held>>
      BY <1>11 DEF ReplyFails, LogResponse, Goto, Answered, TypeInv, fdVars, history
    <2>2. held[p] = NoFile
      BY <1>4, <2>1 DEF HeldOK
    <2> QED
      BY <1>1, <1>2, <1>3, <2>1, <2>2 DEF OwnNumbers, Opened, Serving
  <1> QED
    BY <1>5, <1>6, <1>7, <1>8, <1>9, <1>10, <1>11

(* Steps that close a descriptor.                                           *)
LEMMA OwnCloses ==
  ASSUME TypeInv, FilesInv, NEW p \in Ports, OwnNumbers(p), Thread(p), ~strayed',
         Hangup(p) \/ CloseListen(p) \/ CloseLog(p)
  PROVE  OwnNumbers(p)' /\ OwnChange(p)
  <1>1. UNCHANGED <<listen_fd, log_fd, lost, held, job>>
    BY DEF Hangup, CloseListen, CloseLog, fdVars, history, Thread
  <1>2. HeldOK(p)
    BY DEF FilesInv
  <1>3. CASE Hangup(p)
    <2>1. /\ pc[p] = "hangup" /\ pc'[p] \in {"accept", "close_listen"}
          /\ table' = Closed(table, sock_fd[p]) /\ Uses(p, "sock", sock_fd[p])
      BY <1>3 DEF Hangup, Goto, TypeInv
    <2>2. \A l \in Numbers : table'[l] = table[l] \/ table[l] \in SocksOf(p)
      <3>1. Serving(p)
        BY <2>1 DEF Serving
      <3>2. \A l \in Numbers : IsOpen(l) /\ l = sock_fd[p] => table[l] \in SocksOf(p)
        BY <2>1, <3>1 DEF Uses, OwnNumbers, SocksOf, File
      <3>3. ASSUME NEW l \in Numbers, table'[l] # table[l]
            PROVE  table[l] \in SocksOf(p)
        <4>1. l = sock_fd[p] /\ table[l][1] # "claimed" /\ table[l] # NoFile
          BY <2>1, <3>3 DEF Closed
        <4>2. IsOpen(l)
          BY <4>1, KindIs DEF IsOpen, File, TypeInv
        <4> QED
          BY <3>2, <4>1, <4>2
      <3> QED
        BY <3>3
    <2>3. OwnChange(p)
      BY <2>2 DEF OwnChange
    <2>4. \A n : File(n) \in {Listener(p), LogOf(p)} => File(n)' = File(n)
      BY <2>2, FileKinds DEF File, SocksOf
    <2>5. Opened(p) /\ Opened(p)'
      BY <2>1 DEF Opened
    <2>6. "listen" \notin lost[p] => File(listen_fd[p])' = Listener(p)
      BY <1>1, <2>1, <2>4, <2>5 DEF OwnNumbers
    <2>7. File(log_fd[p])' = LogOf(p)
      BY <1>1, <2>1, <2>4, <2>5 DEF OwnNumbers
    <2> QED
      BY <1>1, <2>1, <2>3, <2>6, <2>7 DEF OwnNumbers, Serving
  <1>4. CASE CloseListen(p)
    <2>1. /\ pc[p] = "close_listen" /\ pc'[p] = "close_log"
          /\ table' = Closed(table, listen_fd[p]) /\ Uses(p, "listen", listen_fd[p])
      BY <1>4 DEF CloseListen, Goto, TypeInv
    <2>2. Opened(p) /\ ~Serving(p)
      BY <2>1 DEF Opened, Serving
    <2>3. \A l \in Numbers : table'[l] = table[l] \/ table[l] = Listener(p)
      BY <2>1, <2>2, OwnClose
    <2>4. OwnChange(p)
      BY <2>3 DEF OwnChange
    <2>5. File(log_fd[p]) = LogOf(p)
      BY <2>1, <2>2 DEF OwnNumbers
    <2>6. File(log_fd[p])' = LogOf(p)
      BY <1>1, <2>3, <2>5, FileKinds DEF File
    <2> QED
      BY <1>1, <2>1, <2>4, <2>6 DEF OwnNumbers, Serving
  <1>5. CASE CloseLog(p)
    <2>1. pc[p] = "close_log" /\ pc'[p] = "ended" /\ table' = Closed(table, log_fd[p])
      BY <1>5 DEF CloseLog, Goto, TypeInv
    <2>2. File(log_fd[p]) = LogOf(p)
      BY <2>1 DEF OwnNumbers, Opened
    <2>3. OwnChange(p)
      BY <2>1, <2>2 DEF OwnChange, Closed, File
    <2> QED
      BY <1>1, <1>2, <2>1, <2>3 DEF OwnNumbers, Opened, Serving
  <1> QED
    BY <1>3, <1>4, <1>5

(* A step that is nobody's end, and after which nobody has strayed.         *)
LEMMA OwnThread ==
  ASSUME TypeInv, FilesInv, OwnInv, NEW p \in Ports, Thread(p), proc' = "up", ~strayed'
  PROVE  /\ \A q \in Ports : OwnNumbers(q)'
         /\ Others(p) /\ OwnChange(p) /\ ~strayed /\ \A q \in Ports : OwnNumbers(q)
  <1>1. ~CreatFails(p) /\ ~Sigpipe(p)
    BY DEF CreatFails, Sigpipe, Gone
  <1>2. Others(p)
    BY <1>1, Opens, Accepts, Serves, Ends DEF Thread, Accept, Serve, Effect
  <1>3. ~strayed
    BY <1>1
       DEF Thread, Accept, Serve, Listen, ListenFails, Creat, AcceptEnter,
           AcceptRefused, AcceptReturns, AcceptAborted, GetsocknameFails, ReadEnter,
           ReadFails, ReadRequest, LogRequest, Reply, ReplyFails, LogResponse, Hangup,
           CloseListen, CloseLog, Uses, history
  <1>4. \A q \in Ports : OwnNumbers(q)
    BY <1>3 DEF OwnInv, Thread
  <1>5. OwnNumbers(p)' /\ OwnChange(p)
    BY <1>1, <1>4, OwnOpens, OwnAccepts, OwnServes, OwnCloses DEF Thread, Accept, Serve
  <1>6. \A q \in Ports \ {p} : OwnNumbers(q)'
    BY <1>2, <1>4, <1>5, OwnStays
  <1> QED
    BY <1>2, <1>3, <1>4, <1>5, <1>6

(* Every step keeps OwnInv: what strays from it sets strayed.               *)
LEMMA OwnKept ==
  ASSUME TypeInv, FilesInv, OwnInv, [Next]_vars
  PROVE  OwnInv'
  <1> SUFFICES ASSUME proc' = "up", ~strayed', NEW q \in Ports
               PROVE  OwnNumbers(q)'
    BY DEF OwnInv
  <1>1. CASE Main
    <2>1. Spawn /\ UNCHANGED <<job, history>>
      BY <1>1 DEF Main, SpawnFails, Return, Gone
    <2>2. OwnNumbers(q)
      BY <2>1 DEF OwnInv, Spawn, history
    <2>3. pc'[q] = pc[q] \/ pc'[q] = "listen"
      BY <2>1 DEF Spawn, Goto, TypeInv
    <2>4. HeldOK(q)
      BY DEF FilesInv
    <2>5. UNCHANGED <<table, listen_fd, log_fd, sock_fd, held, msg, lost, job>>
      BY <2>1 DEF Spawn, fdVars, history
    <2>6. \A n : File(n)' = File(n)
      BY <2>5 DEF File
    <2> QED
      BY <2>2, <2>3, <2>5, <2>6 DEF OwnNumbers, Opened, Serving
  <1>2. ASSUME NEW p \in Ports, Thread(p)
        PROVE  OwnNumbers(q)'
    BY <1>2, OwnThread
  <1>3. CASE (\E k \in Clients : Client(k)) \/ UNCHANGED vars
    <2>1. UNCHANGED <<proc, strayed, table, pc, listen_fd, log_fd, sock_fd, held, msg, lost,
                      job>>
      BY <1>3 DEF Client, vars, fdVars, history
    <2>2. OwnNumbers(q)
      BY <2>1 DEF OwnInv
    <2>3. \A n : File(n)' = File(n)
      BY <2>1 DEF File
    <2> QED
      BY <2>1, <2>2, <2>3 DEF OwnNumbers, Opened, Serving
  <1> QED
    BY <1>1, <1>2, <1>3 DEF Next

-----------------------------------------------------------------------------
(* Requests and answers *)

(* Where files and connections come from in a step of thread p.             *)
LEMMA Origins ==
  ASSUME TypeInv, FilesInv, NEW p \in Ports, Thread(p)
  PROVE  /\ \A m \in Numbers :
              \/ table'[m] \in {table[m], NoFile, LogOf(p), Claimed(p)}
              \/ pc[p] = "listen" /\ table'[m] = Listener(p)
              \/ pc[p] = "accepting" /\ Dequeued(p) /\ table'[m] = Sock(NextConn(p))
         /\ \A q \in Ports :
              held'[q] \in {held[q], NoFile, File(sock_fd[q]), File(listen_fd[q])}
         /\ UNCHANGED queue \/ (pc[p] = "accepting" /\ Dequeued(p))
  <1>1. CASE CreatFails(p) \/ Sigpipe(p)
    BY <1>1 DEF CreatFails, Sigpipe, Gone, wireVars
  <1>2. CASE Listen(p) \/ Creat(p) \/ ListenFails(p)
    BY <1>2 DEF Listen, Creat, ListenFails, Goto, wireVars, TypeInv
  <1>3. CASE AcceptEnter(p) \/ AcceptRefused(p)
    BY <1>3 DEF AcceptEnter, AcceptRefused, wireVars, TypeInv
  <1>4. CASE AcceptReturns(p) \/ AcceptAborted(p) \/ GetsocknameFails(p)
    <2>1. pc[p] = "accepting"
      BY <1>4 DEF AcceptReturns, AcceptAborted, GetsocknameFails, Goto
    <2>2. \A q \in Ports : held'[q] \in {held[q], NoFile}
      BY <1>4, <2>1, NextBegun
         DEF AcceptReturns, AcceptAborted, GetsocknameFails, TypeInv
    <2>3. CASE AcceptAborted(p)
      BY <2>1, <2>2, <2>3 DEF AcceptAborted, TypeInv
    <2>4. CASE AcceptReturns(p) \/ GetsocknameFails(p)
      <3>1. Dequeued(p)
        BY <2>4 DEF AcceptReturns, GetsocknameFails
      <3>2. \A m \in Numbers : table'[m] \in {table[m], NoFile, Sock(NextConn(p))}
        BY <2>4 DEF AcceptReturns, GetsocknameFails, Closed, TypeInv
      <3> QED
        BY <2>1, <2>2, <3>1, <3>2
    <2> QED
      BY <1>4, <2>3, <2>4
  <1>5. CASE \/ ReadEnter(p) \/ ReadFails(p) \/ ReadRequest(p) \/ LogRequest(p)
             \/ Reply(p) \/ ReplyFails(p) \/ LogResponse(p)
    <2>1. table' = table /\ queue' = queue
      BY <1>5
         DEF ReadEnter, ReadFails, ReadRequest, LogRequest, Reply, ReplyFails,
             LogResponse, wireVars
    <2>2. \A q \in Ports : held'[q] \in {held[q], NoFile, File(sock_fd[q])}
      BY <1>5
         DEF ReadEnter, ReadFails, ReadRequest, LogRequest, Reply, ReplyFails,
             LogResponse, TypeInv
    <2> QED
      BY <2>1, <2>2
  <1>6. CASE Hangup(p) \/ CloseListen(p) \/ CloseLog(p)
    BY <1>6 DEF Hangup, CloseListen, CloseLog, Closed, wireVars
  <1> QED
    BY <1>1, <1>2, <1>3, <1>4, <1>5, <1>6 DEF Thread, Accept, Serve

(* A connection that the server has let go of does not come back.           *)
LEMMA AttachedBack ==
  ASSUME TypeInv, FilesInv, NEW p \in Ports, Thread(p), NEW k \in Clients, Attached(k)'
  PROVE  Attached(k)
  <1>1. job' = job /\ job[k].port \in Ports
    BY DEF Thread, TypeInv
  <1> DEFINE r == job[k].port
  <1>2. ASSUME NEW n, File(n) # NoFile
        PROVE  Lives(File(n))
    BY <1>2, FileIs DEF Lives
  <1>3. ASSUME NEW file, file # NoFile, \E q \in Ports : held'[q] = file
        PROVE  Lives(file)
    <2>1. PICK q \in Ports : held'[q] = file
      BY <1>3
    <2>2. held'[q] \in {held[q], NoFile, File(sock_fd[q]), File(listen_fd[q])}
      BY Origins
    <2> QED
      BY <1>2, <1>3, <2>1, <2>2 DEF Lives
  <1>4. pc[p] = "accepting" /\ Dequeued(p) /\ NextConn(p) = k => Attached(k)
    <2> SUFFICES ASSUME pc[p] = "accepting", Dequeued(p), NextConn(p) = k
                 PROVE  Attached(k)
      OBVIOUS
    <2>1. PICK q \in Ports : held[p] = Listener(q) /\ NextConn(p) = queue[q][1]
            /\ 1 \in DOMAIN queue[q]
                             /\ job[NextConn(p)].port = q
      BY NextIs
    <2> QED
      BY <2>1 DEF Attached, InQueue, Lives
  <1>5. CASE Lives(Sock(k))'
    <2>1. CASE \E m \in Numbers : table'[m] = Sock(k)
      <3>1. PICK m \in Numbers : table'[m] = Sock(k)
        BY <2>1
      <3>2. table[m] = Sock(k) \/ (pc[p] = "accepting" /\ Dequeued(p) /\ NextConn(p) = k)
        BY <3>1, Origins, FileKinds
      <3> QED
        BY <1>4, <3>2 DEF Attached, Lives
    <2>2. CASE \E q \in Ports : held'[q] = Sock(k)
      BY <1>3, <2>2, FileKinds DEF Attached
    <2> QED
      BY <1>5, <2>1, <2>2 DEF Lives
  <1>6. CASE InQueue(k, r)' /\ Lives(Listener(r))'
    <2>1. InQueue(k, r)
      <3>1. CASE UNCHANGED queue
        BY <1>1, <1>6, <3>1 DEF InQueue
      <3>2. CASE pc[p] = "accepting" /\ Dequeued(p)
        <4>1. PICK d \in {0, 1} : \A i \in DOMAIN queue'[r] :
                i + d \in DOMAIN queue[r] /\ queue'[r][i] = queue[r][i + d]
          <5>1. QueueStep(r, NoFile)
            BY <1>1, <3>2, QueueAfter
          <5> QED
            BY <5>1 DEF QueueStep
        <4> QED
          BY <1>1, <1>6, <4>1 DEF InQueue
      <3> QED
        BY <3>1, <3>2, Origins
    <2>2. Lives(Listener(r))
      <3>1. CASE \E m \in Numbers : table'[m] = Listener(r)
        <4>1. PICK m \in Numbers : table'[m] = Listener(r)
          BY <3>1
        <4>2. table[m] = Listener(r) \/ (pc[p] = "listen" /\ p = r)
          BY <1>1, <4>1, Origins, FileKinds
        <4>3. queue[r] # <<>>
          BY <2>1 DEF InQueue
        <4>4. QueueOK(r)
          BY <1>1 DEF FilesInv
        <4> QED
          BY <4>2, <4>3, <4>4 DEF Lives, QueueOK
      <3>2. CASE \E q \in Ports : held'[q] = Listener(r)
        BY <1>3, <3>2, FileKinds
      <3> QED
        BY <1>1, <1>6, <3>1, <3>2 DEF Lives
    <2> QED
      BY <2>1, <2>2 DEF Attached
  <1> QED
    BY <1>1, <1>5, <1>6 DEF Attached

(* As long as nobody has strayed, the connection of a request in hand is    *)
(* the thread's own, its client still waits, and no two threads have it.    *)
LEMMA InHand ==
  ASSUME TypeInv, FilesInv, \A q \in Ports : OwnNumbers(q),
         \A k \in Clients : RequestOK(k),
         NEW p \in Ports, pc[p] \in {"log", "reply", "note"}
  PROVE  /\ msg[p][1] \in Clients /\ job[msg[p][1]].port = p
         /\ File(sock_fd[p]) = Sock(msg[p][1]) /\ Attached(msg[p][1])
              /\ File(log_fd[p]) = LogOf(p)
         /\ pc[p] # "note" => /\ cpc[msg[p][1]] = "wait"
                              /\ up[msg[p][1]] = <<>> /\ down[msg[p][1]] = <<>>
  <1>1. OwnNumbers(p) /\ Opened(p) /\ Serving(p) /\ pc[p] # "creat"
    BY DEF Opened, Serving
  <1>2. "sock" \notin lost[p] /\ File(sock_fd[p]) = Sock(msg[p][1])
          /\ File(log_fd[p]) = LogOf(p)
    BY <1>1 DEF OwnNumbers
  <1>3. PICK k \in Clients : job[k].port = p /\ File(sock_fd[p]) = Sock(k)
    BY <1>1, <1>2 DEF OwnNumbers
  <1>4. msg[p][1] = k
    BY <1>2, <1>3, FileKinds
  <1>5. Attached(k)
    BY <1>3, FileIs, FileKinds DEF Attached, Lives
  <1>6. RequestOK(k)
    BY <1>3
  <1> QED
    BY <1>2, <1>3, <1>4, <1>5, <1>6 DEF RequestOK

(* Then a log record goes to the log, and kills nobody.                     *)
LEMMA LogsOwn ==
  ASSUME TypeInv, NEW p \in Ports, File(log_fd[p]) = LogOf(p)
  PROVE  /\ Logs(p) => down' = down
         /\ ~Kills(log_fd[p])
  <1>1. ~Kills(log_fd[p])
    BY KindOf DEF Kills, IsListener, IsSock
  <1>2. Written(log_fd[p], "Record") => down' = down
    BY FileKinds DEF Written, TypeInv
  <1> QED
    BY <1>1, <1>2 DEF Logs

(* A step of a thread that has not strayed: it answers the client of the    *)
(* request in its hand, and nobody else.                                    *)
LEMMA RequestThread ==
  ASSUME TypeInv, FilesInv, OwnInv, RequestInv, NEW p \in Ports, Thread(p),
         proc' = "up", ~strayed',
         NEW k \in Clients
  PROVE  RequestOK(k)'
  <1>1. /\ ~strayed /\ Others(p) /\ \A q \in Ports : OwnNumbers(q)
    BY OwnThread
  <1>2. \A l \in Clients : RequestOK(l)
    BY <1>1 DEF RequestInv, Thread
  <1>3. RequestOK(k) /\ cpc' = cpc /\ (Attached(k)' => Attached(k))
    BY <1>2, AttachedBack DEF Thread
  <1>4. ~CreatFails(p) /\ ~Sigpipe(p)
    BY DEF CreatFails, Sigpipe, Gone
  <1>5. CASE ReadRequest(p)
    <2>1. PICK l \in Clients : held[p] = Sock(l) /\ held[p][2] = l
      BY <1>5, KindIs, KindOf DEF ReadRequest, TypeInv
    <2>2. /\ pc[p] = "read" /\ pc'[p] = "log" /\ down' = down
          /\ up[l] # <<>> /\ up' = [up EXCEPT ![l] = Tail(up[l])]
          /\ msg'[p] = <<l, Head(up[l])>>
      BY <1>5, <2>1 DEF ReadRequest, Goto, TypeInv
    <2>3. Attached(l)
      BY <2>1 DEF Attached, Lives
    <2>4. cpc[l] = "wait" /\ down[l] = <<>> /\ Len(up[l]) = 1
      BY <1>2, <2>2, <2>3 DEF RequestOK, TypeInv
    <2>5. up'[l] = <<>> /\ \A j \in Clients \ {l} : up'[j] = up[j]
      <3>1. Tail(up[l]) = <<>>
        <4>1. up[l] \in Seq({"write", "quit"})
          BY DEF TypeInv
        <4>2. Tail(up[l]) \in Seq({"write", "quit"}) /\ Len(Tail(up[l])) = 0
          BY <2>2, <2>4, <4>1, HeadTailProperties
        <4> QED
          BY <4>2, EmptySeq
      <3> QED
        BY <2>2, <3>1 DEF TypeInv
    <2>6. \A q \in Ports \ {p} : pc'[q] = pc[q] /\ msg'[q] = msg[q]
      BY <1>1 DEF Others
    <2>7. msg'[p][1] = l
      BY <2>2
    <2>8. ASSUME NEW q \in Ports, pc'[q] \in {"log", "reply"}, msg'[q][1] = k
          PROVE  cpc[k] = "wait" /\ up'[k] = <<>> /\ down[k] = <<>>
      <3>1. CASE q = p
        BY <2>4, <2>5, <2>7, <2>8, <3>1
      <3>2. CASE q # p
        <4>1. cpc[k] = "wait" /\ up[k] = <<>> /\ down[k] = <<>>
          BY <1>3, <2>6, <2>8, <3>2 DEF RequestOK
        <4> QED
          BY <2>2, <2>5, <4>1
      <3> QED
        BY <3>1, <3>2
    <2>9. up'[k] # <<>> => up'[k] = up[k]
      BY <2>5
    <2> QED
      BY <1>3, <2>2, <2>8, <2>9 DEF RequestOK
  <1>6. CASE Reply(p)
    <2>1. pc[p] = "reply" /\ pc'[p] = "note" /\ Written(sock_fd[p], "Response")
            /\ UNCHANGED <<up, msg>>
      BY <1>6 DEF Reply, Goto, TypeInv
    <2> DEFINE l == msg[p][1]
    <2>2. /\ l \in Clients /\ job[l].port = p /\ File(sock_fd[p]) = Sock(l)
          /\ cpc[l] = "wait" /\ up[l] = <<>> /\ down[l] = <<>>
      BY <1>1, <1>2, <2>1, InHand
    <2> HIDE DEF l
    <2>3. \A j \in Clients :
            down'[j] = IF j = l THEN Append(down[l], "Response") ELSE down[j]
      BY <2>1, <2>2, FileKinds DEF Written, Over
    <2>4. \A n \in DOMAIN down'[l] : down'[l][n] = "Response"
      BY <2>2, <2>3
    <2>5. ASSUME NEW q \in Ports, pc'[q] \in {"log", "reply"}, msg[q][1] = k
          PROVE  cpc[k] = "wait" /\ up[k] = <<>> /\ down'[k] = <<>>
      <3>1. q # p /\ pc'[q] = pc[q]
        BY <1>1, <2>1, <2>5 DEF Others
      <3>2. cpc[k] = "wait" /\ up[k] = <<>> /\ down[k] = <<>>
        BY <1>3, <2>5, <3>1 DEF RequestOK
      <3>3. job[k].port = q
        BY <1>1, <1>2, <2>5, <3>1, InHand
      <3> QED
        BY <2>2, <2>3, <3>1, <3>2, <3>3
    <2>6. up[k] # <<>> => down'[k] = down[k]
      BY <2>2, <2>3
    <2>7. \A n \in DOMAIN down'[k] : down'[k][n] = "Response"
      BY <1>3, <2>3, <2>4 DEF RequestOK
    <2> QED
      BY <1>3, <2>1, <2>5, <2>6, <2>7 DEF RequestOK
  <1>7. CASE ~ReadRequest(p) /\ ~Reply(p)
    <2>1. up' = up
      BY <1>4, <1>7
         DEF Thread, Accept, Serve, Listen, ListenFails, Creat, AcceptEnter,
             AcceptRefused, AcceptReturns, AcceptAborted, GetsocknameFails, ReadEnter,
             ReadFails, LogRequest, ReplyFails, LogResponse, Hangup, CloseListen,
             CloseLog, wireVars
    <2>2. down' = down
      <3>1. CASE LogRequest(p) \/ LogResponse(p)
        <4>1. Logs(p) /\ pc[p] \in {"log", "note"}
          BY <3>1 DEF LogRequest, LogResponse, Goto
        <4> QED
          BY <1>1, <1>2, <4>1, InHand, LogsOwn
      <3>2. CASE ~LogRequest(p) /\ ~LogResponse(p)
        BY <1>4, <1>7, <3>2
           DEF Thread, Accept, Serve, Listen, ListenFails, Creat, AcceptEnter,
               AcceptRefused, AcceptReturns, AcceptAborted, GetsocknameFails, ReadEnter,
               ReadFails, ReplyFails, Hangup, CloseListen, CloseLog, wireVars
      <3> QED
        BY <3>1, <3>2
    <2>3. ASSUME NEW q \in Ports, pc'[q] \in {"log", "reply"}, msg'[q][1] = k
          PROVE  cpc[k] = "wait" /\ up[k] = <<>> /\ down[k] = <<>>
      <3>1. pc[q] \in {"log", "reply"} /\ msg'[q] = msg[q]
        <4>1. CASE q = p
          BY <1>4, <1>7, <2>3, <4>1
             DEF Thread, Accept, Serve, Listen, ListenFails, Creat, AcceptEnter,
                 AcceptRefused, AcceptReturns, AcceptAborted, GetsocknameFails,
                 ReadEnter, ReadFails, LogRequest, ReplyFails, LogResponse, Hangup,
                 CloseListen, CloseLog, Goto, Answered, TypeInv
        <4>2. CASE q # p
          BY <1>1, <2>3, <4>2 DEF Others
        <4> QED
          BY <4>1, <4>2
      <3> QED
        BY <1>3, <2>3, <3>1 DEF RequestOK
    <2> QED
      BY <1>3, <2>1, <2>2, <2>3 DEF RequestOK
  <1> QED
    BY <1>5, <1>6, <1>7

(* A client whose request is in hand does not give up.                      *)
LEMMA RequestClient ==
  ASSUME TypeInv, FilesInv, \A q \in Ports : OwnNumbers(q),
         \A l \in Clients : RequestOK(l),
         NEW k \in Clients, Client(k), NEW l \in Clients
  PROVE  RequestOK(l)'
  <1>1. UNCHANGED <<table, pc, sock_fd, held, msg, job>>
    BY DEF Client, fdVars
  <1>2. \A file : Lives(file)' <=> Lives(file)
    BY <1>1 DEF Lives
  <1>3. RequestOK(l) /\ UnbornOK(k) /\ down[k] \in Seq({"Record", "Response"})
    BY DEF FilesInv, TypeInv
  <1>4. CASE l # k
    <2>1. cpc'[l] = cpc[l] /\ up'[l] = up[l] /\ down'[l] = down[l]
      BY <1>4
         DEF Client, Call, ConnectFails, Receive, GivesUp, ClientGoto, TypeInv, wireVars
    <2>2. InQueue(l, job[l].port)' => InQueue(l, job[l].port)
      <3>1. CASE UNCHANGED queue
        BY <1>1, <3>1 DEF InQueue
      <3>2. CASE Call(k)
        <4> DEFINE r == job[k].port
        <4>1. /\ r \in Ports /\ queue[r] \in Seq(Clients) /\ job[l].port \in Ports
          BY DEF TypeInv
        <4>2. queue' = [queue EXCEPT ![r] = Append(queue[r], k)]
          BY <3>2 DEF Call, TypeInv
        <4> HIDE DEF r
        <4>3. /\ Append(queue[r], k) \in Seq(Clients)
                   /\ Len(Append(queue[r], k)) = Len(queue[r]) + 1
              /\ \A i \in 1 .. Len(queue[r]) : Append(queue[r], k)[i] = queue[r][i]
              /\ Append(queue[r], k)[Len(queue[r]) + 1] = k
          BY <4>1, AppendProperties
        <4>4. /\ DOMAIN queue[r] = 1 .. Len(queue[r]) /\ Len(queue[r]) \in Nat
              /\ DOMAIN Append(queue[r], k) = 1 .. Len(queue[r]) + 1
          BY <4>1, <4>3, LenProperties
        <4>5. \A i \in DOMAIN Append(queue[r], k) :
                Append(queue[r], k)[i] = l => i \in DOMAIN queue[r] /\ queue[r][i] = l
          BY <1>4, <4>3, <4>4
        <4>6. \A q \in Ports : queue'[q] = IF q = r THEN Append(queue[r], k) ELSE queue[q]
          BY <4>2 DEF TypeInv
        <4> QED
          BY <1>1, <4>1, <4>5, <4>6 DEF InQueue
      <3> QED
        BY <3>1, <3>2 DEF Client, ConnectFails, Receive, GivesUp, wireVars
    <2>3. Attached(l)' => Attached(l)
      BY <1>1, <1>2, <2>2 DEF Attached
    <2> QED
      BY <1>1, <1>3, <2>1, <2>3 DEF RequestOK
  <1>5. CASE l = k
    <2>1. ASSUME NEW p \in Ports, pc[p] \in {"log", "reply"}, msg[p][1] = k
          PROVE  cpc[k] = "wait" /\ up[k] = <<>> /\ down[k] = <<>> /\ Attached(k)
      BY <2>1, InHand
    <2>2. CASE Call(k)
      <3>1. cpc[k] = "start" /\ cpc'[k] = "wait" /\ up'[k] = <<job[k].method>>
              /\ down' = down
        BY <2>2 DEF Call, ClientGoto, TypeInv
      <3>2. down[k] = <<>>
        BY <1>3, <3>1 DEF UnbornOK
      <3> QED
        BY <1>1, <1>5, <2>1, <3>1, <3>2 DEF RequestOK, Over
    <2>3. CASE ConnectFails(k)
      <3>1. cpc[k] = "start" /\ UNCHANGED <<up, down>>
        BY <2>3 DEF ConnectFails, ClientGoto, wireVars
      <3>2. up[k] = <<>> /\ down[k] = <<>>
        BY <1>3, <3>1 DEF UnbornOK
      <3> QED
        BY <1>1, <1>5, <2>1, <3>1, <3>2 DEF RequestOK
    <2>4. CASE Receive(k)
      <3>1. down[k] # <<>> /\ up' = up /\ down'[k] = <<>>
        BY <2>4 DEF Receive, TypeInv
      <3>2. up[k] = <<>>
        BY <1>3, <1>5, <3>1 DEF RequestOK
      <3> QED
        BY <1>1, <1>5, <2>1, <3>1, <3>2 DEF RequestOK
    <2>5. CASE GivesUp(k)
      <3>1. /\ cpc[k] = "wait" /\ cpc'[k] = "failed" /\ UNCHANGED <<queue, up>>
                 /\ down'[k] = <<>>
        BY <2>5 DEF GivesUp, ClientGoto, TypeInv
      <3>2. ~(down[k] # <<>> /\ Head(down[k]) # "Response")
        <4>1. down[k] # <<>> => 1 \in DOMAIN down[k] /\ Head(down[k]) = down[k][1]
          BY <1>3, HeadTailProperties, LenProperties, EmptySeq
        <4> QED
          BY <1>3, <1>5, <4>1 DEF RequestOK
      <3>3. ~Attached(k)
        BY <2>5, <3>2 DEF GivesUp
      <3>4. ~Attached(k)'
        BY <1>1, <1>2, <3>1, <3>3 DEF Attached, InQueue
      <3> QED
        BY <1>1, <1>3, <1>5, <2>1, <3>1, <3>3, <3>4 DEF RequestOK
    <2> QED
      BY <2>2, <2>3, <2>4, <2>5 DEF Client
  <1> QED
    BY <1>4, <1>5

(* Every step keeps RequestInv. SIGPIPE takes a client that has gone, and   *)
(* the client of a request in hand has not.                                 *)
LEMMA RequestKept ==
  ASSUME TypeInv, FilesInv, OwnInv, RequestInv, [Next]_vars
  PROVE  RequestInv'
  <1>1. ASSUME proc' = "up", ~strayed', NEW k \in Clients
        PROVE  RequestOK(k)'
    <2>1. CASE \E p \in Ports : Thread(p)
      BY <1>1, <2>1, RequestThread
    <2>2. CASE ~\E p \in Ports : Thread(p)
      <3>1. proc = "up" /\ ~strayed
        BY <1>1, <2>2
           DEF Next, Main, Spawn, SpawnFails, Return, Gone, Client, vars, history
      <3>2. (\A q \in Ports : OwnNumbers(q)) /\ \A l \in Clients : RequestOK(l)
        BY <3>1 DEF OwnInv, RequestInv
      <3>3. CASE \E l \in Clients : Client(l)
        BY <3>2, <3>3, RequestClient
      <3>4. CASE Main \/ UNCHANGED vars
        <4>1. /\ UNCHANGED <<table, held, msg, queue, up, down, cpc, job>>
              /\ \A p \in Ports : pc'[p] \in {pc[p], "listen"}
          BY <1>1, <3>4
             DEF Main, Spawn, SpawnFails, Return, Gone, Goto, vars, wireVars, TypeInv
        <4>2. Attached(k)' => Attached(k)
          BY <4>1 DEF Attached, InQueue, Lives
        <4> QED
          BY <3>2, <4>1, <4>2 DEF RequestOK
      <3> QED
        BY <2>2, <3>3, <3>4 DEF Next
    <2> QED
      BY <2>1, <2>2
  <1>2. ASSUME proc' = "died"
        PROVE  strayed'
    <2>1. CASE \E p \in Ports : Sigpipe(p) /\ Thread(p)
      <3>1. PICK p \in Ports : Sigpipe(p) /\ Thread(p)
        BY <2>1
      <3>2. proc = "up" /\ strayed' = strayed
        BY <3>1 DEF Sigpipe, Thread, history
      <3> SUFFICES ASSUME ~strayed
                   PROVE  FALSE
        BY <3>2
      <3>3. (\A q \in Ports : OwnNumbers(q)) /\ \A l \in Clients : RequestOK(l)
        BY <3>2 DEF OwnInv, RequestInv
      <3>4. pc[p] \in {"log", "note", "reply"}
        BY <3>1 DEF Sigpipe
      <3>5. CASE pc[p] \in {"log", "note"} /\ Kills(log_fd[p])
        BY <3>3, <3>4, <3>5, InHand, LogsOwn
      <3>6. CASE pc[p] = "reply" /\ Kills(sock_fd[p])
        <4>1. File(sock_fd[p]) = Sock(msg[p][1]) /\ cpc[msg[p][1]] = "wait"
          BY <3>3, <3>4, <3>6, InHand
        <4> QED
          BY <3>6, <4>1, KindOf DEF Kills, IsListener, IsSock, Over
      <3> QED
        BY <3>1, <3>5, <3>6 DEF Sigpipe
    <2>2. CASE ~\E p \in Ports : Sigpipe(p) /\ Thread(p)
      <3>1. proc = "died" /\ strayed' = strayed
        BY <1>2, <2>2
           DEF Next, Main, Spawn, SpawnFails, Return, Gone, Client, vars, history,
               Thread, Accept, Serve, Listen, ListenFails, Creat, CreatFails,
               AcceptEnter, AcceptRefused, AcceptReturns, AcceptAborted,
               GetsocknameFails, ReadEnter, ReadFails, ReadRequest, LogRequest, Reply,
               ReplyFails, LogResponse, Hangup, CloseListen, CloseLog
      <3> QED
        BY <3>1 DEF RequestInv
    <2> QED
      BY <2>1, <2>2
  <1> QED
    BY <1>1, <1>2 DEF RequestInv

-----------------------------------------------------------------------------
(* Numbers that nobody knows of *)

(* A set of natural numbers has a least one.                                *)
LEMMA Least ==
  ASSUME NEW S \in SUBSET Nat, S # {}
  PROVE  \E n \in S : \A m \in S : n <= m
  <1> DEFINE Less == OpToRel(<, Nat)
  <1>1. IsWellFoundedOn(Less, Nat)
    BY NatLessThanWellFounded
  <1>2. \A n, m \in Nat : m < n => <<m, n>> \in Less
    BY DEF OpToRel
  <1> HIDE DEF Less
  <1>3. PICK n \in S : \A m \in S : ~(<<m, n>> \in Less)
    BY <1>1, WFMin
  <1>4. \A m \in S : ~(m < n)
    BY <1>2, <1>3
  <1> QED
    BY <1>4

(* A table without a lowest free number has none.                           *)
LEMMA NoneFree ==
  ASSUME TypeInv, Lowest = {}, NEW n \in 0 .. limit - 1
  PROVE  n \in Numbers /\ table[n] # NoFile
  <1>1. /\ limit \in Nat /\ limit <= TableSize /\ TableSize \in Nat /\ n \in Nat
    BY TableFacts DEF TypeInv
  <1>2. \A m \in 0 .. limit - 1 : m \in Numbers
    BY <1>1 DEF Numbers
  <1> SUFFICES ASSUME table[n] = NoFile
               PROVE  FALSE
    BY <1>2
  <1> DEFINE S == {m \in 0 .. limit - 1 : table[m] = NoFile}
  <1>3. S \in SUBSET Nat /\ n \in S
    BY <1>1
  <1>4. PICK l \in S : \A m \in S : l <= m
    BY <1>3, Least
  <1>5. l \in Numbers /\ l < limit /\ table[l] = NoFile /\ l \in Nat
    BY <1>1, <1>2, <1>4
  <1>6. ASSUME NEW m \in 0 .. l - 1
        PROVE  table[m] # NoFile
    <2>1. m \in 0 .. limit - 1 /\ ~(l <= m)
      BY <1>1, <1>5
    <2> QED
      BY <1>4, <2>1
  <1>7. l \in Lowest
    BY <1>5, <1>6 DEF Lowest
  <1> QED
    BY <1>7

(* A function has no more values than arguments.                            *)
LEMMA Values ==
  ASSUME NEW S, IsFiniteSet(S), NEW f
  PROVE  LET T == {f[x] : x \in S}
         IN  IsFiniteSet(T) /\ Cardinality(T) <= Cardinality(S)
  <1> DEFINE T == {f[x] : x \in S}
             g == [x \in S |-> f[x]]
  <1>1. g \in Surjection(S, T)
    BY DEF Surjection
  <1> HIDE DEF g, T
  <1>2. IsFiniteSet(T) /\ Cardinality(T) <= Cardinality(S)
    BY <1>1, FS_Surjection
  <1> QED
    BY <1>2 DEF T

(* A union has no more elements than its parts together.                    *)
LEMMA UnionBound ==
  ASSUME NEW S, IsFiniteSet(S), NEW T, IsFiniteSet(T)
  PROVE  IsFiniteSet(S \cup T) /\ Cardinality(S \cup T) <= Cardinality(S) + Cardinality(T)
  <1>1. IsFiniteSet(S \cap T)
    BY FS_Intersection
  <1>2. /\ Cardinality(S) \in Nat /\ Cardinality(T) \in Nat
             /\ Cardinality(S \cap T) \in Nat
    BY <1>1, FS_CardinalityType
  <1>3. /\ IsFiniteSet(S \cup T)
        /\ Cardinality(S \cup T) = Cardinality(S) + Cardinality(T) - Cardinality(S \cap T)
    BY FS_Union
  <1> QED
    BY <1>2, <1>3

(* There are NPorts ports.                                                  *)
LEMMA PortsFinite ==
  /\ IsFiniteSet(Ports) /\ Cardinality(Ports) = NPorts /\ NPorts \in Nat
  /\ \A p \in Ports : IsFiniteSet(Ports \ {p}) /\ Cardinality(Ports \ {p}) = NPorts - 1
  <1>1. NPorts \in Nat /\ NPorts > 0
    BY TableFacts
  <1>2. IsFiniteSet(Ports) /\ Cardinality(Ports) = NPorts
    BY <1>1, FS_Interval DEF Ports
  <1> QED
    BY <1>1, <1>2, FS_RemoveElement

(* The leaked numbers can be counted.                                       *)
LEMMA LeaksFinite == IsFiniteSet(Leaks) /\ Cardinality(Leaks) \in Nat
  <1>1. IsFiniteSet(Numbers)
    BY TableFacts, FS_Interval DEF Numbers
  <1>2. Leaks \in SUBSET Numbers
    BY DEF Leaks
  <1> QED
    BY <1>1, <1>2, FS_Subset, FS_CardinalityType

(* A thread that still needs a number finds one, if there are three for     *)
(* each thread besides the standard ones and the leaked.                    *)
LEMMA RoomLeft ==
  ASSUME TypeInv, FilesInv, LeakInv, NEW p \in Ports,
         pc[p] \in {"listen", "creat", "accept"},
         Lowest = {}
  PROVE  limit < 1 + 3 * NPorts + leaked
  <1> DEFINE third == [q \in Ports |->
                         IF pc[q] = "accepting" THEN ClaimOf(q) ELSE sock_fd[q]]
             A == {listen_fd[q] : q \in Ports}
             B == {log_fd[q] : q \in Ports}
             C == {third[q] : q \in Ports \ {p}}
  <1>1. \A n \in 0 .. limit - 1 : n \in Leaks \cup {0} \cup A \cup B \cup C
    <2> SUFFICES ASSUME NEW n \in 0 .. limit - 1, n \notin Leaks, n # 0
                 PROVE  n \in A \cup B \cup C
      OBVIOUS
    <2>1. n \in Numbers /\ table[n] # NoFile /\ table[n] # Std /\ table[n] \in Files
      BY NoneFree DEF FilesInv, FileOK, TypeInv
    <2>2. CASE \E q \in Ports : table[n] \in {Listener(q), LogOf(q)}
      BY <2>1, <2>2 DEF FilesInv, FilesOf
    <2>3. CASE \E q \in Ports : table[n] = Claimed(q)
      <3>1. PICK q \in Ports : table[n] = Claimed(q)
        BY <2>3
      <3>2. pc[q] = "accepting" /\ q # p
        BY <2>1, <3>1 DEF FilesInv, FilesOf
      <3>3. n = ClaimOf(q)
        BY <2>1, <3>1, <3>2, ClaimIs
      <3> QED
        BY <3>2, <3>3
    <2>4. CASE \E k \in Clients : table[n] = Sock(k)
      <3>1. PICK q \in Ports : Serving(q) /\ sock_fd[q] = n
        BY <2>1, <2>4, KindOf DEF Leaks
      <3>2. pc[q] # "accepting" /\ q # p
        BY <3>1 DEF Serving
      <3> QED
        BY <3>1, <3>2
    <2> QED
      BY <2>1, <2>2, <2>3, <2>4 DEF Files
  <1>2. /\ IsFiniteSet(A) /\ Cardinality(A) <= NPorts
        /\ IsFiniteSet(B) /\ Cardinality(B) <= NPorts
        /\ IsFiniteSet(C) /\ Cardinality(C) <= NPorts - 1
    <2> HIDE DEF third
    <2>1. IsFiniteSet(A) /\ Cardinality(A) <= NPorts
      BY Values, PortsFinite
    <2>2. IsFiniteSet(B) /\ Cardinality(B) <= NPorts
      BY Values, PortsFinite
    <2>3. IsFiniteSet(C) /\ Cardinality(C) <= NPorts - 1
      BY Values, PortsFinite
    <2> QED
      BY <2>1, <2>2, <2>3
  <1> HIDE DEF A, B, C
  <1>3. /\ Cardinality(A) \in Nat /\ Cardinality(B) \in Nat /\ Cardinality(C) \in Nat
        /\ Cardinality(Leaks) \in Nat /\ IsFiniteSet(Leaks)
        /\ IsFiniteSet({0}) /\ Cardinality({0}) = 1
    BY <1>2, LeaksFinite, FS_CardinalityType, FS_Singleton
  <1> DEFINE D == Leaks \cup {0}
             E == D \cup A
             F == E \cup B
             G == F \cup C
  <1>4. IsFiniteSet(D) /\ Cardinality(D) <= Cardinality(Leaks) + 1
    BY <1>3, UnionBound
  <1>5. IsFiniteSet(E) /\ Cardinality(E) <= Cardinality(D) + Cardinality(A)
    <2> HIDE DEF D
    <2> QED
      BY <1>2, <1>4, UnionBound
  <1>6. IsFiniteSet(F) /\ Cardinality(F) <= Cardinality(E) + Cardinality(B)
    <2> HIDE DEF E
    <2> QED
      BY <1>2, <1>5, UnionBound
  <1>7. IsFiniteSet(G) /\ Cardinality(G) <= Cardinality(F) + Cardinality(C)
    <2> HIDE DEF F
    <2> QED
      BY <1>2, <1>6, UnionBound
  <1>8. limit \in Nat /\ leaked \in Nat /\ Cardinality(Leaks) <= leaked /\ NPorts \in Nat
    BY PortsFinite DEF TypeInv, LeakInv
  <1>9. Cardinality(0 .. limit - 1) = limit
    BY <1>8, FS_Interval
  <1>10. \A I : I = 0 .. limit - 1 => I \in SUBSET G
    BY <1>1
  <1> HIDE DEF D, E, F, G
  <1>11. limit <= Cardinality(G)
    <2>1. PICK I : I = 0 .. limit - 1
      OBVIOUS
    <2>2. I \in SUBSET G
      BY <1>10, <2>1
    <2>3. Cardinality(I) <= Cardinality(G)
      BY <1>7, <2>2, FS_Subset
    <2> QED
      BY <1>9, <2>1, <2>3
  <1>12. Cardinality(D) \in Nat /\ Cardinality(E) \in Nat /\ Cardinality(F) \in Nat
           /\ Cardinality(G) \in Nat
    BY <1>4, <1>5, <1>6, <1>7, FS_CardinalityType
  <1>13. Cardinality(G) <= Cardinality(Leaks) + 1 + NPorts + NPorts + (NPorts - 1)
    BY <1>2, <1>3, <1>4, <1>5, <1>6, <1>7, <1>8, <1>12
  <1> QED
    BY <1>3, <1>8, <1>11, <1>12, <1>13

(* What is dropped: only what tcp_accept drops.                             *)
LEMMA LeaksStay ==
  ASSUME TypeInv, FilesInv, NEW p \in Ports, Thread(p), ~CreatFails(p), ~Sigpipe(p)
  PROVE  \/ Leaks' \subseteq Leaks /\ leaked' = leaked
         \/ Leaks' \subseteq Leaks \cup {ClaimOf(p)} /\ leaked' = leaked + 1
  <1>1. Others(p)
    BY Opens, Accepts, Serves, Ends DEF Thread, Accept, Serve, Effect
  <1>2. ASSUME NEW l \in Leaks', table'[l] = table[l]
        PROVE  l \in Leaks
    <2>1. /\ l \in Numbers /\ table[l][1] = "sock"
          /\ \A q \in Ports : Serving(q)' => sock_fd'[q] # l
      BY <1>2 DEF Leaks
    <2>2. ASSUME NEW q \in Ports \ {p}, Serving(q)
          PROVE  sock_fd[q] # l
      BY <1>1, <2>1, <2>2 DEF Others, Serving
    <2>3. ASSUME Serving(p)
          PROVE  sock_fd[p] # l
      <3>1. CASE Hangup(p)
        <4>1. table' = Closed(table, sock_fd[p])
          BY <3>1 DEF Hangup
        <4>2. sock_fd[p] = l => table'[l] = NoFile
          BY <2>1, <4>1 DEF Closed
        <4> QED
          BY <1>2, <2>1, <4>2, KindOf
      <3>2. CASE \/ ReadEnter(p) \/ ReadFails(p) \/ ReadRequest(p) \/ LogRequest(p)
                 \/ Reply(p) \/ ReplyFails(p) \/ LogResponse(p)
        <4>1. Serving(p)' /\ sock_fd' = sock_fd
          BY <3>2
             DEF ReadEnter, ReadFails, ReadRequest, LogRequest, Reply, ReplyFails,
                 LogResponse, Goto, Answered, TypeInv, Serving, fdVars
        <4> QED
          BY <2>1, <4>1
      <3> QED
        BY <2>3, <3>1, <3>2
           DEF Thread, Accept, Serve, Serving, Listen, ListenFails, Creat, CreatFails,
               AcceptEnter, AcceptRefused, AcceptReturns, AcceptAborted,
               GetsocknameFails, CloseListen, CloseLog, Goto, Sigpipe
    <2> QED
      BY <2>1, <2>2, <2>3 DEF Leaks
  <1>3. ASSUME NEW l \in Leaks', table'[l] # table[l]
        PROVE  pc[p] = "accepting" /\ table'[l] = Sock(NextConn(p))
    <2>1. l \in Numbers /\ table'[l][1] = "sock"
      BY DEF Leaks
    <2>2. table'[l] \notin {table[l], NoFile, LogOf(p), Claimed(p), Listener(p)}
      BY <1>3, <2>1, KindOf
    <2> QED
      BY <2>1, <2>2, Origins
  <1>4. CASE ~AcceptReturns(p) /\ ~AcceptAborted(p) /\ ~GetsocknameFails(p)
    <2>1. leaked' = leaked /\ pc[p] # "accepting"
      BY <1>4 DEF Thread, Accept, Serve, Listen, ListenFails, Creat, CreatFails,
              AcceptEnter, AcceptRefused, Sigpipe,
              ReadEnter, ReadFails, ReadRequest, LogRequest, Reply, ReplyFails,
              LogResponse,
              Hangup, CloseListen, CloseLog, Goto, history
    <2> QED
      BY <1>2, <1>3, <2>1
  <1>5. CASE AcceptAborted(p)
    <2>1. leaked' = leaked /\ \A l \in Numbers : table'[l] \in {table[l], NoFile}
      BY <1>5 DEF AcceptAborted, TypeInv
    <2>2. \A l \in Leaks' : l \in Numbers
      BY DEF Leaks
    <2> QED
      BY <1>2, <1>3, <2>1, <2>2, FileKinds
  <1>6. CASE AcceptReturns(p)
    <2>1. leaked' = leaked /\ pc[p] = "accepting"
      BY <1>6 DEF AcceptReturns, Goto
    <2>2. ClaimOf(p) \in Numbers
      BY <2>1, ClaimIs
    <2>3. \A l \in Numbers : l # ClaimOf(p) => table'[l] = table[l]
      BY <1>6 DEF AcceptReturns, TypeInv
    <2>4. Serving(p)' /\ sock_fd'[p] = ClaimOf(p)
      BY <1>6 DEF AcceptReturns, Goto, Serving, TypeInv
    <2>5. ASSUME NEW l \in Leaks'
          PROVE  l \in Numbers /\ l # ClaimOf(p)
      BY <2>4 DEF Leaks
    <2> QED
      BY <1>2, <2>1, <2>3, <2>5
  <1>7. CASE GetsocknameFails(p)
    <2>1. leaked' = leaked + 1 /\ pc[p] = "accepting" /\ Dequeued(p)
      BY <1>7 DEF GetsocknameFails, Goto
    <2>2. ASSUME NEW l \in Leaks', l # ClaimOf(p)
          PROVE  l \in Leaks
      <3>1. l \in Numbers /\ table'[l] \in {table[l], NoFile}
        BY <1>7, <2>2 DEF GetsocknameFails, Closed, TypeInv, Leaks
      <3>2. table'[l] # NoFile
        BY <2>2, KindOf DEF Leaks
      <3> QED
        BY <1>2, <3>1, <3>2
    <2> QED
      BY <2>1, <2>2
  <1> QED
    BY <1>4, <1>5, <1>6, <1>7

(* Every step keeps LeakInv.                                                *)
LEMMA LeakKept ==
  ASSUME TypeInv, TypeInv', FilesInv, LeakInv, [Next]_vars
  PROVE  LeakInv'
  <1>1. leaked \in Nat /\ leaked' \in Nat /\ limit \in Nat /\ limit' = limit
          /\ NPorts \in Nat
    BY PortsFinite DEF TypeInv, Next, Main, Thread, Client, vars
  <1>2. IsFiniteSet(Leaks) /\ Cardinality(Leaks) \in Nat /\ Cardinality(Leaks) <= leaked
    BY LeaksFinite DEF LeakInv
  <1>3. CASE proc' # proc
    <2>1. (\A n \in Numbers : table'[n] = NoFile) /\ leaked' = leaked
      BY <1>3 DEF Next, Main, Spawn, SpawnFails, Return, Gone, Client, vars, history,
              Thread, Accept, Serve, Listen, ListenFails, Creat, CreatFails, AcceptEnter,
              AcceptRefused, AcceptReturns, AcceptAborted, GetsocknameFails, ReadEnter,
              ReadFails,
              ReadRequest, LogRequest, Reply, ReplyFails, LogResponse, Sigpipe, Hangup,
              CloseListen, CloseLog
    <2>2. Leaks' = {}
      BY <2>1, KindOf DEF Leaks
    <2>3. Cardinality(Leaks)' <= leaked'
      BY <1>1, <2>2, FS_EmptySet
    <2>4. CASE full' = full
      BY <1>1, <2>1, <2>3, <2>4 DEF LeakInv
    <2>5. CASE full' # full
      <3>1. PICK p \in Ports : CreatFails(p)
        BY <1>3, <2>5 DEF Next, Main, Spawn, SpawnFails, Return, Client, vars, history,
              Thread, Accept, Serve, Listen, ListenFails, Creat, AcceptEnter,
              AcceptRefused, AcceptReturns, AcceptAborted, GetsocknameFails, ReadEnter,
              ReadFails,
              ReadRequest, LogRequest, Reply, ReplyFails, LogResponse, Sigpipe, Hangup,
              CloseListen, CloseLog
      <3>2. limit < 1 + 3 * NPorts + leaked
        BY <3>1, RoomLeft DEF CreatFails
      <3> QED
        BY <1>1, <2>1, <2>3, <3>2 DEF LeakInv
    <2> QED
      BY <2>4, <2>5
  <1>4. ASSUME proc' = proc, NEW p \in Ports, Thread(p)
        PROVE  LeakInv'
    <2>1. ~CreatFails(p) /\ ~Sigpipe(p)
      BY <1>4 DEF CreatFails, Sigpipe, Gone, Thread
    <2>2. \/ Leaks' \subseteq Leaks /\ leaked' = leaked
          \/ Leaks' \subseteq Leaks \cup {ClaimOf(p)} /\ leaked' = leaked + 1
      BY <1>4, <2>1, LeaksStay
    <2>3. Cardinality(Leaks)' <= leaked'
      <3>1. CASE Leaks' \subseteq Leaks /\ leaked' = leaked
        <4>1. Cardinality(Leaks') <= Cardinality(Leaks) /\ IsFiniteSet(Leaks')
          BY <1>2, <3>1, FS_Subset
        <4>2. Cardinality(Leaks') \in Nat
          BY <4>1, FS_CardinalityType
        <4> QED
          BY <1>1, <1>2, <3>1, <4>1, <4>2
      <3>2. CASE Leaks' \subseteq Leaks \cup {ClaimOf(p)} /\ leaked' = leaked + 1
        <4>1. /\ IsFiniteSet(Leaks \cup {ClaimOf(p)})
              /\ Cardinality(Leaks \cup {ClaimOf(p)}) <= Cardinality(Leaks) + 1
              /\ Cardinality(Leaks \cup {ClaimOf(p)}) \in Nat
          <5>1. /\ IsFiniteSet(Leaks \cup {ClaimOf(p)})
                /\ Cardinality(Leaks \cup {ClaimOf(p)})
                     = IF ClaimOf(p) \in Leaks THEN Cardinality(Leaks)
                                                ELSE Cardinality(Leaks) + 1
            BY <1>2, FS_AddElement
          <5> QED
            BY <1>2, <5>1
        <4>2. Cardinality(Leaks') <= Cardinality(Leaks \cup {ClaimOf(p)})
                /\ IsFiniteSet(Leaks')
          BY <3>2, <4>1, FS_Subset
        <4>3. Cardinality(Leaks') \in Nat
          BY <4>2, FS_CardinalityType
        <4> QED
          BY <1>1, <1>2, <3>2, <4>1, <4>2, <4>3
      <3> QED
        BY <2>2, <3>1, <3>2
    <2>6. leaked <= leaked'
      BY <1>1, <2>2
    <2>7. ASSUME limit < 1 + 3 * NPorts + leaked
          PROVE  limit' < 1 + 3 * NPorts + leaked'
      <3>1. \A n, x, y, l \in Nat : x <= y /\ l < 1 + 3 * n + x => l < 1 + 3 * n + y
        OBVIOUS
      <3> QED
        BY <1>1, <2>6, <2>7, <3>1
    <2>4. CASE full' = full
      BY <2>3, <2>4, <2>7 DEF LeakInv
    <2>5. CASE full' # full
      <3>1. (ListenFails(p) \/ AcceptRefused(p)) /\ Lowest = {}
        BY <1>4, <2>1, <2>5
           DEF Thread, Accept, Serve, Listen, ListenFails, Creat, AcceptEnter,
               AcceptRefused, AcceptReturns, AcceptAborted, GetsocknameFails, ReadEnter,
               ReadFails, ReadRequest, LogRequest, Reply, ReplyFails, LogResponse,
               Hangup, CloseListen, CloseLog, history, TypeInv
      <3>2. limit < 1 + 3 * NPorts + leaked
        BY <3>1, RoomLeft DEF ListenFails, AcceptRefused, Goto
      <3> QED
        BY <2>3, <2>7, <3>2 DEF LeakInv
    <2> QED
      BY <2>4, <2>5
  <1>5. CASE Main /\ proc' = proc
    <2>1. UNCHANGED <<table, sock_fd, leaked, full>>
            /\ \A q \in Ports : Serving(q)' <=> Serving(q)
      BY <1>5
         DEF Main, Spawn, SpawnFails, Return, Gone, Goto, Serving, history, fdVars,
             TypeInv
    <2>2. Leaks' = Leaks
      BY <2>1 DEF Leaks
    <2> QED
      BY <1>1, <2>1, <2>2 DEF LeakInv
  <1>6. CASE (\E k \in Clients : Client(k)) \/ UNCHANGED vars
    <2>1. UNCHANGED <<table, pc, sock_fd, leaked, full>>
      BY <1>6 DEF Client, vars, fdVars, history
    <2>2. Leaks' = Leaks
      BY <2>1 DEF Leaks, Serving
    <2> QED
      BY <1>1, <2>1, <2>2 DEF LeakInv
  <1> QED
    BY <1>3, <1>4, <1>5, <1>6 DEF Next

(* The invariant holds at the start.                                        *)
LEMMA InvInit == Init => Inv
  <1> SUFFICES ASSUME Init
               PROVE  Inv
    OBVIOUS
  <1>1. PICK s \in Settings : limit = s.limit /\ errors = s.errors
    BY DEF Init
  <1>2. TypeInv
    <2>1. limit \in Nat \ {0} /\ limit <= TableSize /\ errors \in Nat
      BY <1>1, TableFacts, DescriptorsAssumption
    <2>2. spawned \in 0 .. NPorts /\ proc \in {"up", "exited", "died"}
      BY TableFacts DEF Init
    <2>3. table \in [Numbers -> Files] /\ held \in [Ports -> Files]
            /\ pc \in [Ports -> PCs]
      BY DEF Init, Files, PCs
    <2>4. /\ listen_fd \in [Ports -> Numbers \cup {Unset}]
          /\ log_fd \in [Ports -> Numbers \cup {Unset}]
          /\ sock_fd \in [Ports -> Numbers \cup {Unset} \cup Junk]
      BY DEF Init, NoFds
    <2>5. /\ msg \in [Ports -> {NoMsg} \cup (Clients \X {"write", "quit"})]
          /\ queue \in [Ports -> Seq(Clients)]
          /\ up \in [Clients -> Seq({"write", "quit"})]
          /\ down \in [Clients -> Seq({"Record", "Response"})]
          /\ cpc \in [Clients -> {"start", "wait"} \cup Over]
      BY DEF Init
    <2>6. job \in [Clients -> [port : Ports, method : {"write", "quit"}]]
      BY DescriptorsAssumption DEF Init, Ports
    <2>7. /\ lost \in [Ports -> SUBSET {"sock", "listen"}]
          /\ strayed \in BOOLEAN /\ leaked \in Nat /\ full \in BOOLEAN
      BY DEF Init
    <2> QED
      BY <2>1, <2>2, <2>3, <2>4, <2>5, <2>6, <2>7 DEF TypeInv
  <1>3. \A n \in Numbers : table[n] = IF n = 0 THEN Std ELSE NoFile
    BY DEF Init
  <1>4. FilesInv
    <2>1. \A n \in Numbers : n >= limit => n # 0
      BY <1>2, TableFacts DEF TypeInv
    <2>2. \A n \in Numbers : FileOK(n)
      BY <1>3, <2>1, FileKinds DEF FileOK
    <2>3. \A p \in Ports : FilesOf(p)
      BY <1>3, FileKinds DEF FilesOf
    <2>4. \A p \in Ports : HeldOK(p) /\ QueueOK(p)
      BY DEF Init, HeldOK, QueueOK
    <2>5. \A k \in Clients : UnbornOK(k)
      BY <1>3, FileKinds DEF Init, UnbornOK
    <2> QED
      BY <2>2, <2>3, <2>4, <2>5 DEF FilesInv
  <1>5. OwnInv
    BY DEF Init, OwnInv, OwnNumbers, Opened, Serving
  <1>6. RequestInv
    BY DEF Init, RequestInv, RequestOK
  <1>7. LeakInv
    <2>1. Leaks = {}
      BY <1>3, KindOf DEF Leaks
    <2> QED
      BY <2>1, FS_EmptySet DEF Init, LeakInv
  <1> QED
    BY <1>2, <1>4, <1>5, <1>6, <1>7 DEF Inv

(* And every step keeps it.                                                 *)
LEMMA InvNext == Inv /\ [Next]_vars => Inv'
  <1> SUFFICES ASSUME Inv, [Next]_vars
               PROVE  Inv'
    OBVIOUS
  <1>1. TypeInv'
    BY TypeKept DEF Inv
  <1> QED
    BY <1>1, FilesKept, OwnKept, RequestKept, LeakKept DEF Inv

(* The inductive invariant holds for every number of ports and clients,     *)
(* size of the table, and number of errors.                                 *)
THEOREM InvCorrect == Spec => []Inv
  BY InvInit, InvNext, PTL DEF Spec

(* What the invariant says of types and of the table.                       *)
LEMMA TypeFollows == Inv => TypeOK
  <1> SUFFICES ASSUME Inv
               PROVE  TypeOK
    OBVIOUS
  <1>1. TypeInv /\ FilesInv
    BY DEF Inv
  <1>2. \A n, m \in Numbers : table[n] = table[m] => n = m \/ table[n] = NoFile
    BY <1>1 DEF FilesInv, FileOK
  <1>3. \A n \in Numbers : n >= limit => table[n] = NoFile
    BY <1>1 DEF FilesInv, FileOK
  <1>4. \A p \in Ports : /\ {listen_fd[p], log_fd[p]} \subseteq Numbers \cup {Unset}
                         /\ sock_fd[p] \in Numbers \cup {Unset} \cup Junk
                         /\ msg[p] = NoMsg \/ msg[p] \in Clients \X {"write", "quit"}
                         /\ lost[p] \subseteq {"sock", "listen"}
    BY <1>1 DEF TypeInv
  <1> QED
    BY <1>1, <1>2, <1>3, <1>4 DEF TypeInv, TypeOK

(* An open number that nobody knows of is a leaked connection.              *)
LEMMA RoomFollows == Inv => RoomForAll
  <1> SUFFICES ASSUME Inv
               PROVE  RoomForAll
    OBVIOUS
  <1>1. TypeInv /\ FilesInv /\ LeakInv
    BY DEF Inv
  <1>2. {n \in Numbers : table[n] # NoFile} \ Known \subseteq Leaks
    <2> SUFFICES ASSUME NEW n \in Numbers, table[n] # NoFile, n \notin Known
                 PROVE  n \in Leaks
      OBVIOUS
    <2>1. table[n] \in Files /\ FileOK(n) /\ \A q \in Ports : FilesOf(q)
      BY <1>1 DEF FilesInv, TypeInv
    <2>2. n # 0 /\ table[n][1] # "claimed"
          /\ \A q \in Ports : /\ Opened(q) => listen_fd[q] # n /\ log_fd[q] # n
                              /\ Serving(q) => sock_fd[q] # n
      BY DEF Known
    <2>3. \A q \in Ports : table[n] \notin {Listener(q), LogOf(q), Claimed(q)}
      BY <2>1, <2>2, KindOf DEF FilesOf
    <2>4. \E k \in Clients : table[n] = Sock(k)
      BY <2>1, <2>2, <2>3 DEF Files, FileOK
    <2> QED
      BY <2>2, <2>4, KindOf DEF Leaks
  <1>3. Cardinality({n \in Numbers : table[n] # NoFile} \ Known) <= Cardinality(Leaks)
    BY <1>2, LeaksFinite, FS_Subset
  <1>4. Cardinality({n \in Numbers : table[n] # NoFile} \ Known) \in Nat
    BY <1>2, LeaksFinite, FS_Subset, FS_CardinalityType
  <1>5. leaked \in Nat /\ Cardinality(Leaks) <= leaked
    BY <1>1 DEF LeakInv, TypeInv
  <1> QED
    BY <1>1, <1>3, <1>4, <1>5, LeaksFinite DEF RoomForAll, LeakInv

(* A request in hand is of the connection the thread has.                   *)
LEMMA OwnAnswersFollow == Inv => OwnAnswers
  <1> SUFFICES ASSUME Inv, proc = "up", ~strayed,
                      NEW p \in Ports, pc[p] \in {"log", "reply", "note"}
               PROVE  /\ job[msg[p][1]].port = p
                      /\ File(sock_fd[p]) = Sock(msg[p][1])
                      /\ File(log_fd[p]) = LogOf(p)
    BY DEF OwnAnswers
  <1> QED
    BY InHand DEF Inv, OwnInv, RequestInv

(* The numbers of a thread are its own.                                     *)
LEMMA OwnFollows == Inv => OwnDescriptors
  BY DEF Inv, OwnInv, OwnNumbers, OwnDescriptors

(* Every variable keeps its type, and no listening socket, log or           *)
(* connection ever has two numbers, for every size of the table.            *)
THEOREM TypeOKCorrect == Spec => []TypeOK
  BY InvCorrect, TypeFollows, PTL

(* Until a thread uses a number that a failed tcp_accept left it with and   *)
(* that stands for an open file by then, the numbers of each thread stand   *)
(* for its own listening socket, its own log and a connection to its own    *)
(* port: closing and reusing numbers, in any order of any number of         *)
(* threads, mixes up nothing else.                                          *)
THEOREM OwnDescriptorsCorrect == Spec => []OwnDescriptors
  BY InvCorrect, OwnFollows, PTL

(* With the same exception, a thread answers on the connection it has read  *)
(* the request from, and logs to its own log.                               *)
THEOREM OwnAnswersCorrect == Spec => []OwnAnswers
  BY InvCorrect, OwnAnswersFollow, PTL

(* Whatever fails and strays, the only numbers forgotten are one for each   *)
(* failed getsockname(). Three numbers for each thread, besides these and   *)
(* the standard ones, are enough never to see EMFILE.                       *)
THEOREM RoomForAllCorrect == Spec => []RoomForAll
  BY InvCorrect, RoomFollows, PTL

(* SIGPIPE kills the server only after a thread has strayed: a client waits *)
(* until its request is answered or its connection closed.                  *)
THEOREM DeathNeedsStrayCorrect == Spec => []DeathNeedsStray
  <1>1. Inv => DeathNeedsStray
    BY DEF Inv, RequestInv, DeathNeedsStray
  <1> QED
    BY <1>1, InvCorrect, PTL
=============================================================================
