# Verification of *Understanding Software Dynamics* exercises

TLA+ specifications of the programs in this repository, model-checked with TLC
and proved with TLAPS: every invariant and every action property the passing runs check
is a theorem for all values of the constants, and only liveness is model-checked alone.
The repository holds the exercises of a book, chapter by chapter; the one system in
it is the key-value RPC service of `ch6-network`, and that is where most of this
project is. The other chapters are small measuring programs; two of
them contain algorithms (linked lists in scrambled order, matrix multiplication)
worth checking.

## Inventory

| Component | State | Operations | Interacts with | Module |
|---|---|---|---|---|
| spinlock (`spinlock.{h,cc}`) | the lock byte, a histogram, per thread a spin count | `SpinLock` constructor (`AcquireSpinlock`, `++hist`), destructor | shared memory of all server threads | `SpinLock` |
| network (`network.cc`) | listening sockets, accept queues, connections, descriptor numbers | `tcp_connect`, `tcp_listen`, `tcp_accept`, `readn` | the kernel | `Network`; below a `write()` `RpcStream`; failures of `tcp_accept` `Descriptors` |
| rpc (`rpc.{h,cc}`) | `next_rpc_id` | `rpc_send_req`, `rpc_recv_resp`, `rpc_recv_req`, `rpc_send_resp` | two writes / three reads per message on a connection | `RpcClient`, `KeyServer`; unit by unit `RpcStream` |
| client (`client.cc`) | its arguments, connection and request counters, `client.log` | `parse_args`, `gen_str`, connection loop, request loop | server, through connections | `RpcClient`; `CommandLine`, `RequestPath` |
| server (`server.cc`) | one thread per port, `keystore`, `server-<port>.log`, three descriptors per thread | `rpc_listen`, `handle_rpc_conn`, the handlers of ping, write, read, quit | clients; threads share `keystore`, `lock` and the descriptor table | `KeyServer`; `Descriptors` |
| my_rpc (`my_rpc.cc`) | the layout of a write's body | `WriteRequest::Make`, `FromBody` | client builds, server parses | `WriteRequest` |
| log, dumplogfile | a log file, an offset per writer | `log()`, `creat()`; read record by record, print | writers and reader share the file | `LogFile` |
| memory lists (`ch3-memory/memory.cc`) | a byte buffer with a list in it | `MakeLinkedList`, `MakeLongList`, passes of the measurements | - | `MixedList` |
| matrices (`ch4.../interaction.cc`) | `a`, `b`, `c` | four multiplications, three transpositions, two remappings, the blocks of `main()` | - | `MatMul` |
| `ch2-cpu`, `util`, `print_hex` | none to speak of | timing loops, parsing of numbers, hex output | - | not modelled |

What makes the service hard to get right:

* *Interleaving.* The lock has a safety valve: a waiter that has spun 10^8 times
  stores 0 into a lock somebody else holds. The histogram and the
  `unordered_map` rely on that lock alone.
* *Ordering.* A client takes the next response on its connection for the answer
  to its request; no `rpc_id` is compared. The logs of client and server are
  joined by `rpc_id` afterwards.
* *Failure.* Return values of `rpc_send_req`, `rpc_send_resp`, `log` and
  `tcp_accept` are ignored; SIGPIPE is not handled; a thread whose port does not
  open ends without a word; clients and server can be killed between any two
  of their writes.
* *Waiting.* No timeout anywhere; one connection at a time per port, with an
  accept queue of `SOCK_BACKLOG + 1`.
* *Numbers.* A descriptor is looked up anew by every call. A thread whose accept
  failed reads, writes and closes a number that may be another thread's by then.

The properties each component must have are listed with the runs below.
`PROJECT.json` lists the hazards one by one, with their lines, and the properties
that cover them or the reason why none does.

## Modules

    SpinLock        the lock                    Network     sockets and streams
       \                                         /     \
        +------------- KeyServer ---------------+    RpcClient
                            \                          /
                             +------ KeyService ------+ --refines--> KeyStore
                                 |                   MCKeyService (instances)
                         KeyServiceProtocol (invariants)
                                 |
        SpinLockProofs <- KeyServiceThreadProofs <- KeyServiceProofs

    CommandLine   WriteRequest   RpcStream        Descriptors, MCDescriptors
             \         |         /                DescriptorsProofs
              +--- RequestPath -+                 LogFile, LogFileProofs
                        |  MCRequestPath          MixedList, MCMixedList, MixedListProofs
                  RequestPathProofs               MatMul, MCMatMul, MatMulProofs

The service is modelled three times over, at three grains, as one model of it
all would be too large to check: `KeyService` has many clients, all threads and
whole writes; `RequestPath` one client at a time and one port, but command
lines, bytes of bodies and partial reads and writes; `Descriptors` threads and
the numbers of their files, with a message as one write.

**SpinLock.** One action per access to shared memory: the test of the byte
(`SpinFree`, `SpinBusy`), the forced store (`Grab`), the test-and-set
(`TestAndSetWon`, `TestAndSetLost`), load and store of the histogram, and the
release. `lpc` says where in `AcquireSpinlock` and the constructor a thread is.
The spin count saturates one past the limit, as only `count > limit` is ever
used. `AcquireSpinlock` returns 0 (its measuring code is commented out), so
`FloorLg(0) = 0` is the only bucket in use. `acquired` and `grabs` are history
variables: they count, and nothing reads them.

**Network.** Unit of a stream: what one `write()` of `rpc.cc` puts on it, i.e. the
mark and header of a message (a *head*) or its body. `WriteResults` is what a
`write()` can do: store all; store a part (a `part` segment, which stops the
stream for good, as no later write continues it); vanish, the peer having closed;
after a reset, fail or raise SIGPIPE. Only bodies are written short: a head is 88
bytes on an otherwise drained connection.

**RpcClient, KeyServer.** One action per `write()`, per head or body read, per
block of handler code between them, and per system call that changes state. Every
return value the code ignores is ignored: after a failed write the client goes on
to `rpc_recv_resp` and the server to its next request. The handlers of read and
write run the actions of `SpinLock` while at `store_op`. Two threads in the block
together (`ServerStoreRace`) is undefined behaviour and may leave anything in the
map and find anything there. `live` counts request bodies on the heap. `"badmark"`
stands for a message whose mark has the wrong header length, `"other"` for a
method the server does not know; `client.cc` sends neither.

**KeyStore** is what the service promises: each client has at most one call open,
which takes effect at one moment between being made and being answered, on a
store in which the first write of a key wins (`emplace`).

**KeyService** puts them together, with faults: a client or the server killed
between any two steps, a port or log that fails to open. `performed` is a history variable
that remembers the result computed for the request a client has outstanding; with
it, `Linearizable` maps the service to `KeyStore`: `store` is `keystore`; a client's
call is open from `rpc_send_req` on, served from the handler's map operation on, and idle again once
its response is read.

**CommandLine, WriteRequest, RpcStream, RequestPath** follow a request from a
command line to the store and back. `CommandLine` is `parse_args` of `client.cc`,
an iteration of its loops a step, on `argv` as a sequence of tokens. `Based` and
`Counted` are its assignments; a padded length is looked up three arguments too
far on, where there may be a null pointer. `WriteRequest` has `Make` and `FromBody`
with their 8- and 32-bit lengths; in a body too short to hold the lengths they are
whatever the heap has there. `RpcStream` is one connection: `SendHead` and
`SendBody` may store any part of what they are given, and `Read` returns any part
of what has arrived; the mark's `data_len` alone says where a message ends. Its
units carry what they are part of, so that a reader that is out of step shows.
`RequestPath` puts them together with `gen_str`, the handlers and a sequence of
client processes run one after the other. Some bodies are those of other programs.
When both ends wait for ever after a short write (`WaitNeedsShortWrite`), somebody
kills the client.

**Descriptors** is the table of descriptors all threads of a server share, with
`listen_fd`, `log_fd` and `sock_fd` the numbers each thread keeps. One action per
system call: a call looks its number up on entry and holds the file from then on
(`held`), so that `close()` by another thread does not wake it; `accept()` claims
the lowest free number before it waits. `Errs` lets a call fail for no reason in
the program (`pthread_create`, `bind`, `accept`, `getsockname`); a full table makes
`socket`, `creat` and `accept` fail. `tcp_accept`'s result is ignored, as it is in
`rpc_listen`: `sock_fd` keeps its value, at first anything in `Junk`. The history
variables are `lost` (which numbers a thread may not rely on any more), `strayed`
(such a number was used while it stood for an open file), `leaked` and `full`.

**LogFile** is one log file and the processes that write it (two writes a record,
failing or falling short; killed anywhere), one after the other or, up to
`MaxOpen`, at the same time, as two clients in one directory do. Each `creat()`
empties the file, each writer keeps an offset of its own, and what lies between
is a hole of zeros. `dumplogfile` reads at the same time.

**MixedList** builds the lists of `memory.cc` one loop iteration at a time, at the
real strides, in units of `sizeof(Pair)`, and then makes the passes of the
measurement that list is for, as many loads each as its code makes; no pass looks
for the null pointer. The `Count` phase is no part of the program.

**MatMul** has the multiplications as operators on flat arrays, translated index
by index, and `main()` as a sequence of blocks each of which may be compiled in.
The order in which loops visit independent elements is left out, so
`SimpleMatMul` and its columnwise twin are one definition, as are the two 8x8
transpositions.

Definitions called mutants in their comments are plausible mistakes. They are
used by no specification; substituted for the definition they belong to, each
makes the property it was written for fail.

## Runs

| Run | Shows |
|---|---|
| `lock` (`SpinLock.cfg`) | `HolderBound`: each forced store lets at most one more thread past the lock. `HistExact`: no count is lost before the first. `SpinnersProgress`: a holder that stops does not stop the others. 3 threads, 4 sections, limit 1, a counter modulo 3. |
| `lock_mutex` | fails: `MutualExclusion`, which `spinlock.h:14` promises, is lost by a forced store. |
| `service_store` | `Linearizable`, `RaceNeedsGrab`: two clients, readers and writers of one key on two ports, three lock sections, the safety valve firing at the first spin. |
| `service_faults` | `AnswersOwnRequest`, `ResponseHasServerRecord`, `LogPairs`, `BodiesBounded`, `EndsByQuit`, `DeathNeedsFault`, `WaitNeedsShortWrite`, and under fairness `ClientsEnd`, `QuitStops`: two clients on one port with an accept queue, every method, two requests per connection or two connections, one fault, one short write. |
| `log_dump` | `DumpsWholeRecords`, `SharingNeverShifts`, `TornOnlyInBetween`: two runs of a writer, one after the other or overlapping, two records each, one bad write, a reader at any time. |
| `log_excerpt` | fails: a request logged by `rpc_send_req` has zeros for a body (`log.cc:7`). |
| `mixed_list` | `InsideGroups`, `FullLength`, `NoNullFollowed`: the lists of all measurements. |
| `list_outside` | fails: the 640-element list of `MeasureL2CacheLevelAssoc` leaves its buffer (`memory.cc:118`). |
| `matmul` | `BlockProduct`, `SumsAgree`, `TransposesAgree`, for every selection of blocks. |
| `matmul_transpose` | fails: `TransposeMatMul` leaves the transpose of the product ("c = a*b", `interaction.cc:155`). |
| `request_path` | `InStep`, `MessagesWhole`: framing survives partial reads and short writes. `WrittenIsRead`, `StoredUnder`: what one command line writes another reads, and what becomes of keys that are too long. `ParsedInsideBody`, `CrashesOnlySo`, and under fairness `TurnsEnd`. 80 sequences of two or three processes. |
| `descriptors` | `OwnDescriptors`, `OwnAnswers`, `RoomForAll`, `DeathNeedsStray`, and under fairness `ClientsAnswered`: two ports, two clients, one failing call or a table that is too small. |

The runs `lock`, `service_store`, `log_dump`, `request_path` and `descriptors` check
the type invariant of their module as well; `MixedList` and `MatMul` have next to no
types.

Deadlock is checked except in two runs. In `service_faults` a short write does
leave client and thread waiting for each other: that this is the only way is
`WaitNeedsShortWrite`, which names the wait without relying on deadlock. In
`descriptors` the server's threads wait for more connections when the clients are
through.

### Bounds, and why they are enough

* `SafetyLimit` 0 or 1 for 10^8: the model distinguishes only "not yet" and "past
  the limit". A small limit makes more behaviours, not fewer.
* `MaxSections` ends a behaviour of the lock; four sections of three threads let a
  forced store, the release of the wrong holder and a third entry happen in a row.
  The service bounds it by the number of reads and writes its clients make.
* Two clients: the properties relate at most two (the one served and the one
  waiting, or two writers). Threads are two where they share the store, one where
  the matter is a single port.
* The accept queue holds two connections, as `SOCK_BACKLOG` is 1, and of two clients
  at most one waits in it: clients in the queue are reset when the thread quits, but
  none is refused by a full queue. `service_faults` has one port: that a port does
  not open is the end of its thread there, and how the others go on is not its
  subject.
* One fault and one short write: the properties say what a single failure can do.
  More at a time mostly end more processes.
* `RequestPath`: a key length modulo 4 and values of at most 3 characters, with keys
  of 1 and 5 and values up to 4, for 256 and 5 * 256 * 1024: on each side of both
  limits. Marks and headers of two units can be torn at one place each, which is all
  that matters of it. Two processes are a writer and a reader, three two writers
  and a reader.
* `Descriptors`: two threads, as a number has one rightful owner and one that strays;
  seven numbers are just enough for them and five are not. An uninitialised number is
  standard input or one a thread will get. One failing call.
* `MixedList`: the buffers and strides of `main()` are real. The timing loops and
  `MeasureCacheLevelSizes`, commented out in `main()`, run on lists of a few groups
  of 256 instead of 80 and more.
* `LogFile`: a header of three units and a body of two tell all boundaries apart
  (a piece of five taken at any other offset is not a record).
* `MatMul`: 4x4 with blocks of 2 has as many blocks a side as a block has rows, so
  that block and element indexes can be confused; the inputs span the matrices of
  that size, and the product is linear in each factor.

### Fairness

* `StallingLockSpec`: weak fairness of the steps inside `AcquireSpinlock`, one
  thread at a time. Nothing is assumed of a thread that holds the lock.
* `KeyService!FairSpec`: weak fairness of each client, each server thread and
  main, which is what an operating system's scheduler gives. Not of faults. That
  every client ends rests on jobs being finite and on nobody being killed
  silently: a killed process's sockets are closed by the kernel.
* `RequestPath!FairSpec`: both processes are kept running; and somebody starts the
  next client, and kills one whose connection is stuck.
* `Descriptors!FairSpec`: weak fairness of main, of each thread and of each client.
  Not of errors as such, though a thread's only step may be one.

## Proofs

For every set of threads, every limit and every counter width
(`SpinLockProofs`, from the assumptions of `SpinLock`: the set of threads is
finite, limit and bound are naturals, the modulus is positive):

* `LockTypeCorrect`: types.
* `HolderBoundCorrect`: `HolderBound` is inductive together with the types. Only
  a won test-and-set adds a holder and it uses up the clear byte; only a forced
  store clears the byte without a holder leaving, and that is what `grabs` counts.
  `MutualExclusionUntilGrab` is the case of no forced store.
* `HistExactCorrect`: needs in addition that a value loaded by a thread that has
  yet to store it is still the current one (`LoadedFresh`), which holds while there
  is one holder, by the theorem before; the rest is arithmetic modulo `HistMod`.

For every set of ports, clients, jobs and keys, and any number of faults
(`KeyServiceProtocol` states the invariants, `KeyServiceThreadProofs` proves them of
the steps of the server's threads, and `KeyServiceProofs` of clients and faults, and
draws the conclusions):

* `ImplementsLock`: every step of the service is a step of `SpinLock` or leaves its
  variables alone, so what is proved of the lock holds in the server.
* `RaceNeedsGrabCorrect`: a race on the map has two threads past the lock, and that
  takes a forced store, by `MutualExclusionUntilGrab`. The invariant carries the
  flag `raced` along with the fact that `grabs` never falls.
* `ProtocolCorrect`: `ProtocolInv` is inductive. No property of the service is so by
  itself: what a client reads next depends on everything that may still be under way
  to it. `ProtocolInv` says how far the four parties to a request - client, the stream
  up, the thread, the stream down - can be apart, as one of seven phases: `Idle`,
  `Underway`, `HeadTaken`, `Handled`, `Replying`, `Replied` and, after a request that
  could not be read, `Refused`. In each phase the content of both streams is known but
  for one tail: nothing yet, the body, or part of it for ever. The rest of the
  invariant is what keeps the phases apart: a connection is in one queue once or with
  one thread (`QueueInv`); those a client has done with or not opened yet are silent
  (`OthersInv`); without a fault no served connection has been reset (`CalmInv`);
  and each body on the heap has a thread or an unanswered client to account for it
  (`HeapInv`). A client can be ahead of its thread by a whole request (`Late`), and a
  thread ahead of a client that has not called `write()` for an empty body
  (`BodySkipped`): these two make the phases what they are.
* `TypeCorrect`, `AnswersOwnRequestCorrect`, `DeathNeedsFaultCorrect`,
  `BodiesBoundedCorrect` and `WaitNeedsShortWriteCorrect` follow from it.
* `LogPairsCorrect`, `EndsByQuitCorrect` and `ResponseHasServerRecordCorrect`: by a
  second invariant over it, `LogsInv`, as what a log must hold next depends on where
  its thread is and on what its client waits for.
* `LinearizableCorrect`: each step maps to a step of `KeyStore` or a stutter while no
  race has been. The step that computes a result is the one that takes effect; that
  the client later reads this very result is `ProtocolInv`.

The assumptions these rest on: the set of clients is finite (`ClientsAssumption`),
every job makes a connection, and what parses as a write is a key and a value
(`AssignmentsAssumption`), and the values that stand for "none" are none of the
things they stand in for (`NoneAssumption`, `IdleAssumption`).

For every number of ports and clients, every size of the table and any number of
failing calls (`DescriptorsProofs`):

* `FilesInv` is what remains true whatever strays: nothing is open under two numbers,
  a listening socket or log is open only where its thread has put it, a connection is
  in one queue once or in the table. `TypeOKCorrect` follows.
* `OwnDescriptorsCorrect`: `OwnInv` says what each thread relies on at each of its
  calls; it lasts until a thread strays. A call that reuses a number takes one nobody
  has open, and by `FilesInv` closing an own number closes nothing else.
* `OwnAnswersCorrect` and `DeathNeedsStrayCorrect`: `RequestInv`, about the client
  whose connection a thread has, rests on `OwnInv`: the number is the same at the
  read, at the answer, and stands for the same connection.
* `RoomForAllCorrect`: a count of the numbers in use. The table holds standard input,
  at most a listener, a log and a claimed or served connection for each thread, and
  connections no thread has a number for, of which there are at most `leaked`.

The one assumption on the sizes is that there is a largest (`DescriptorsAssumption`).

For all lengths of header and excerpt, and any number of writers, records and bad
writes (`LogFileProofs`):

* `TypeOKCorrect`.
* `SharingNeverShiftsCorrect` and `TornOnlyInBetweenCorrect`: as long as no write has
  failed or fallen short, every offset and the length of the file is a multiple of
  the record's length, or a header past one, and every piece of the file at such a
  place was written there as that piece, or is a hole (`Aligned`).
* `DumpsWholeRecordsCorrect`: while, besides, the log was never open twice, the file is
  the records of its last writer from the first on (`Alone`).

For every size of header, modulus and limit (`RequestPathProofs`, first part):

* `RoundTrip`: a request `Make` builds of a key that fits its byte and a value that
  is not too long is accepted by `FromBody`, and key and value come out as they
  went in.
* `OnlyWhatIsThere`: a body `FromBody` accepts, whatever its origin, is its header,
  the key and the value, with nothing outside it (what `ParsedInsideBody` checks).

For every sequence of client processes, with any command lines, any lengths of mark,
header and limits, any number of short writes, and bodies of any other program
(`RequestPathProofs`, the rest):

* `PathInv` is inductive. Its heart, `StreamInv`, says in which of six phases a
  connection is: `Idle`, `Asking`, `Asked`, `Answering`, `ClientGone`, `ServerGone`.
  In each, at most one message is under way, and buffer and wire of its reader are
  two adjoining pieces of it (`Coming`, `Split`): the piece read by the current
  `readn()`, and the piece that has arrived behind it. A write cut short leaves the
  second piece short for ever, and the phases say that nobody writes behind it. An
  end can be done with its answer before its peer has called `write()` for an empty
  body (`Late`). Most lemmas are about pieces: a read moves the boundary between two
  of them, a finished `readn()` moves their start.
* `TypeOKCorrect`, `InStepCorrect` and `MessagesWholeCorrect` follow from it, and
  `ParsedInsideBodyCorrect` from it and `OnlyWhatIsThere`.
* `CrashesOnlySoCorrect`: needs of `parse_args` only where it stands (`LineTypes`): it
  does not pass the end of its arguments, and takes configurations behind the command.
* `StoredUnderCorrect`, `WrittenIsReadCorrect`: a second invariant over `PathInv`.
  `OwnInv` says that the request a client waits for is made of its own command line
  (`AsksOwn`, `LineGives`), so that by `MakeParses`, a lemma of `RoundTrip`, the handler
  finds key and value in it. `StoreInv` relates the store to the answers so far: what is
  acknowledged is in it (`Acknowledged`); and until a write is cut short each value is
  that of the first acknowledged write of its key, or of one handled whose answer its
  client still waits for (`FirstKept`, `Pending`). Without the exception for short
  writes it is false: a client whose answer is cut short has written, but knows nothing.

The assumptions: every argument has fewer than 2^32 characters, of which the kernel
allows 2^17 (`CharsAssumption`); a body another program sends has numbers where the
lengths of a write are (`WorksAssumption`); counts are not negative
(`NumberAssumption`); null is not a body (`NullAssumption`).

For lists of every size, stride and kind, and any numbers of loads and passes
(`MixedListProofs`):

* `MixedupPermutes`: the table of mixed-up offsets has every byte once, 0 at 0. That is
  the period of a shift register, a fact about 255 numbers and not about bounds: `Place`
  lists which place each byte has in the order of `POLYSHIFT8`, and `ShiftIsNext` has
  the prover check that a shift leads from each place to the next.
* `ListsCorrect`: `MixedListInv` is inductive. Elements are at different places (`AtFacts`)
  but for the root, and at most one other is put there (`LostFacts`), so that a store of
  a next pointer spoils no other than the root's: while a list is built each element
  leads to the next, or the root has been written over (`BuildInv`). A finished list
  leads from what is at the root through all later elements to null (`ListInv`), and a
  pass that is under way has elements enough for the loads it has left (`PassInv`).
* `WrittenInsideGroups`, `ListsFull` and `NullNotFollowed` follow.
* `FewLost`: no element is lost with a stride above 16 KiB, and never more than 1279.

`NullNotFollowed` rests on `LoadsAssumption`: a pass makes no more loads than the list
has elements, less those lost. That is the callers' part, and all of them keep to it by
far: the timing loops make 256 loads on 20480 elements or more,
`MeasureCacheLevelSizes` at most 524288 on 655360, of which `FewLost` takes 1279 at most;
the associativity measurements have strides of 32 KiB and more, lose none, and make at
most 65 loads per pass on 320 elements or more. TLC evaluates it for the calls of the run.
`ExtraBitAssumption` says that the groups of 256 elements take a multiple of 32 KiB. Those
of the timing loops and of `MeasureCacheLevelSizes` fill the 80 MiB of their buffers
exactly, and with a stride of 32 KiB or more every group is such a multiple.

For every size of matrix, every size of block that divides it, and any positive inputs
(`MatMulProofs`):

* `MatricesCorrect`: `MatMulInv` says what each block of `main()` leaves in `c`: the
  product, or with `TransposeMatMul` its transpose. It is inductive because every way to
  multiply computes that from `a` and `b` alone. Each is a sum of products in an order of
  its own, so most lemmas are about `Sum`, which a loop defines by recursion: that
  it is defined at all (`SumDef`), that it may be split into groups (`SumGrouped`) and two
  loops exchanged (`SumSwap`); and about which element a flat index stands for, row by row
  (`RowMajor`) and block by block (`BlockMajor`).
* `ProductInBlocks`, `ChecksumsAgree`, `TransposingAgrees` follow: a checksum is the
  sum of the rows' sums, and for the transpose of the columns'.
* `UnmappingUndoes`: what the `assert()` of `JUST_BLOCK_REMAP` was meant to check.

The assumptions are those sizes (`DimAssumption`) and that the inputs are squares of
positive elements (`InputsAssumption`), as `MakeMatrix`'s are: with a zero in `c` the
assignment in the `assert()` of `JUST_BLOCK_REMAP` would end the program.

These two modules need induction over data, a loop's counter, and the library's
induction theorems take an operator, which the provers at hand cannot instantiate. Their
lemma `Induction` says the same of a set of numbers instead, by a least number outside
it (`Least`).

Only model-checked: liveness (`SpinnersProgress`, `ClientsEnd`, `QuitStops`, `TurnsEnd`,
`ClientsAnswered`), as the prover has no rule for fairness that it could apply here.

## What the model checking found

Besides the failing runs above, modelling met these:

* A failed `accept()` leaves a thread with a number of the past: if another thread
  has opened a file under it since, its connection is read, answered on and closed
  (`OwnDescriptors` and `OwnAnswers` fail without their exception, in ten steps).
  In the first iteration the number was never set.
* After a failed `getsockname()` `tcp_accept` closes the listening socket where it
  means the accepted one: the connection is lost with its number, its client waits
  for ever, and the thread spins in its accept loop, or accepts from a listening
  socket another thread has opened under that number.
* A server on n ports needs three descriptors for each; with fewer it exits, or its
  accept loops spin.
* A padded length (`-key k 5`) is taken three arguments too far on: with less behind
  it the client crashes.
* A key of 256 characters and more is stored under its first (length mod 256)
  characters, where a `read` of the whole key does not find it. The limit on values
  cannot be reached from a command line, as Linux allows 128 KiB per argument;
  `full_len()` of the NULL that `Make` would return could crash the client.
* With the extra bit and a stride of which 16 KiB is a multiple, `MakeLongList` puts
  some element over the root, and the list lacks those before it: it has fewer than
  the "floor(bytesize / bytestride) elements" of `memory.cc:120`. No measurement
  makes so many loads that it would get to the end (`NoNullFollowed`).
* Two clients in one directory overwrite each other's records in `client.log`, but
  never shift them (`SharingNeverShifts`). `dumplogfile.cc:63` speaks of a mark in
  front of each header; there is none.
* `JUST_BLOCK_REMAP` compares with `assert(c.data[i] = ccc.data[i])`, an assignment,
  and unmaps `c` rather than the remapped copy; a second write of a key is answered
  `Ok` and dropped; `MakeMatrix` fills 1024 x 1024 elements whatever its arguments;
  `server` with two port arguments reads `argv` one place too far.

## Not modelled

* Timing results, formatting, time stamps, addresses, and the length of the pause
  of `-waitms` (whose product wraps at 32 bits).
* `parse_args` of the server, a sequence of tests without a loop: with no ports given
  it yields the four default ports, and in every other case it exits or reads `argv`
  past its end.
* Errors of `socket`, `inet_pton` and `getsockname` in `tcp_connect`, which all come
  to a client that ends, and address lengths other than that of `sockaddr_in`.
* A kill between the write of a body and its log record (`rpc.cc:167-172`,
  `200-205`), or between the last read of a message and its record: `ClientSendBody`,
  `ServerReplyBody`, `ClientRecvBody` and their like in `KeyServer` do both in one
  step. The end of a log that lacks the record of a message the peer has got is
  therefore not seen in the logs of `service_faults`; the records that a kill tears
  are those of `LogFile`.
* What follows a failed or short write of a log record, beyond its being possible:
  `DumpsWholeRecords`, `SharingNeverShifts` and `TornOnlyInBetween` except it. Nor
  does `dumplogfile`'s `read()` return -1 (`dumplogfile.cc:71`), which ends it.
* Options `parse_args` does not know: `Dashed` lists the tokens that start with
  '-'. Any other is taken for a padded length where the program, which looks at
  the first character alone (`client.cc:112`), exits with its usage.
* A `tcp_listen` that fails half-way in `Descriptors`: `socket`, `bind` and `listen`
  are one step there, and `creat` fails for a full table only. A log that does not
  open for other reasons is a fault of `KeyService`.
* Combinations of the three grains: a descriptor that strays while a write falls
  short, or two clients at work while one parses its command line.
* Matrices that are not square (`main()` has none) and the rounding of doubles.
* The programs of `ch2-cpu`, straight-line loops around `rdtsc`, and of `util`, whose
  `pmu.h` no program uses. Their only state is an accumulator that keeps the
  compiler from removing the loop.

## What is left

* Liveness has no proofs.
* The three grains of the service are related by construction only: that
  `RequestPath`'s connection, with its partial reads and writes, implements `Network`'s,
  with whole ones, is not stated.
