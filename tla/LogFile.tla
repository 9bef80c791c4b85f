------------------------------- MODULE LogFile -------------------------------
(***************************************************************************)
(* A log file of ch6-network between the processes that write it (log.cc,   *)
(* as server.cc, client.cc and rpc.cc call it) and dumplogfile.cc, which    *)
(* may read it at any time. A record is a header and a 24-byte excerpt of   *)
(* the body, put into the file by two write() calls; the reader takes fixed *)
(* pieces of the size of a whole record. Nothing in the file separates one  *)
(* record from the next.                                                    *)
(*                                                                          *)
(* The log is opened by one process after another, each emptying it, or, as *)
(* two clients in one directory do, by several at once: creat() does not    *)
(* open for appending, so each writes at an offset of its own, over what    *)
(* another put there, or past the end after another has emptied the file,   *)
(* which leaves zeros in between.                                           *)
(*                                                                          *)
(* A file is a sequence of units. Unit [run, rec, part] is the part-th of   *)
(* record `rec' of the run-th process to open the log; parts 1 to HeaderLen *)
(* are its header, the rest its body excerpt. `text' says what an excerpt   *)
(* holds. Every message here has a body of more than 24 bytes.              *)
(***************************************************************************)
EXTENDS Integers, Sequences, FiniteSets

CONSTANTS
  HeaderLen,   \* units in a header (72 bytes)
  BodyLen,     \* units in a body excerpt (24 bytes)
  Callers,     \* the functions that log into this file
  MaxRecords,  \* bound: log() calls in one run
  MaxRuns,     \* bound: processes that open the log
  MaxOpen,     \* bound: processes that have it open at the same time
  MaxBad       \* bound: write() calls that fail or store too little

ASSUME HeaderAssumption  == HeaderLen \in Nat \ {0}
ASSUME BodyAssumption    == BodyLen \in Nat \ {0}
ASSUME RecordsAssumption == MaxRecords \in Nat
ASSUME RunsAssumption    == MaxRuns \in Nat
ASSUME OpenAssumption    == MaxOpen \in Nat
ASSUME BadAssumption     == MaxBad \in Nat

VARIABLES
  file,    \* the units in the file
  writer,  \* run -> "creat", "header", "body" or "ended"
  rec,     \* run -> number of the record it writes, from 1
  pos,     \* run -> the offset of its descriptor
  shared,  \* history: two processes have had the log open at once
  bad,     \* writes that failed or fell short so far
  reader,  \* "closed", "reading", "done" (closed the JSON array) or "failed"
  off,     \* the reader's position in the file
  out      \* pieces the reader has printed

writerVars == <<file, writer, rec, pos, shared, bad>>
readerVars == <<reader, off, out>>
vars == <<writerVars, readerVars>>

Runs   == 1 .. MaxRuns
RecLen == HeaderLen + BodyLen

Units(n, r, first, last, text) ==
  [i \in 1 .. last - first + 1 |->
     [run |-> n, rec |-> r, part |-> first + i - 1, text |-> text]]

\* What log() excerpts: message->body, or zeros if it is NULL. rpc_send_req
\* writes its body to the socket but never sets the `body' of its message.
Excerpt(caller) == IF caller = "rpc_send_req" THEN "zeros" ELSE "body"

\* What a file holds where nothing was ever written.
Hole == [run |-> 0, rec |-> 0, part |-> 0, text |-> "hole"]

\* The file after units are written at an offset of it.
WrittenAt(f, at, units) ==
  [i \in 1 .. IF at + Len(units) > Len(f) /\ units # <<>> THEN at + Len(units) ELSE Len(f) |->
     IF i \in at + 1 .. at + Len(units) THEN units[i - at]
     ELSE IF i <= Len(f) THEN f[i] ELSE Hole]

Init ==
  /\ file = <<>>
  /\ writer = [n \in Runs |-> "creat"]
  /\ rec = [n \in Runs |-> 1]
  /\ pos = [n \in Runs |-> 0]
  /\ shared = FALSE
  /\ bad = 0
  /\ reader = "closed"
  /\ off = 0
  /\ out = <<>>

-----------------------------------------------------------------------------
(* The writing processes *)

HasOpen(n) == writer[n] \in {"header", "body"}

\* The processes that have the log open.
Open == {n \in Runs : HasOpen(n)}

\* Process n is the next to open the log.
Opens(n) ==
  /\ writer[n] = "creat"
  /\ \A m \in 1 .. n - 1 : writer[m] # "creat"
  /\ Cardinality(Open) < MaxOpen
  /\ writer' = [writer EXCEPT ![n] = "header"]
  /\ shared' = (shared \/ Open # {})
  /\ UNCHANGED <<rec, bad, readerVars>>

\* Mutant of Creat: the log is opened for appending.
CreatAppending(n) ==
  /\ Opens(n)
  /\ pos' = [pos EXCEPT ![n] = Len(file)]
  /\ UNCHANGED file

\* creat(): an existing log is emptied, also under a reader that has it open,
\* and under another writer, whose offset stays where it is.
Creat(n) ==
  /\ Opens(n)
  /\ file' = <<>>
  /\ UNCHANGED pos

\* One write() of process n stores these units of its record, and it goes on.
Stores(n, units, next) ==
  /\ file' = WrittenAt(file, pos[n], units)
  /\ pos' = [pos EXCEPT ![n] = @ + Len(units)]
  /\ writer' = [writer EXCEPT ![n] = next]
  /\ rec' = [rec EXCEPT ![n] = IF next = "header" THEN @ + 1 ELSE @]
  /\ UNCHANGED <<shared, readerVars>>

\* log() begins its next record, as long as the bound allows.
Writing(n) == writer[n] = "header" /\ rec[n] <= MaxRecords

\* Mutant of LogHeader: the mark is logged in front of the header.
LogHeaderMarked(n) ==
  /\ Writing(n)
  /\ Stores(n, Units(n, rec[n], 1, 1, "header")
               \o Units(n, rec[n], 1, HeaderLen, "header"), "body")
  /\ UNCHANGED bad

\* The first write() stores all of the header.
LogHeader(n) ==
  /\ Writing(n)
  /\ Stores(n, Units(n, rec[n], 1, HeaderLen, "header"), "body")
  /\ UNCHANGED bad

\* It stores only part of it: log() compares with -1 alone and goes on.
LogHeaderShort(n) ==
  /\ Writing(n)
  /\ bad < MaxBad
  /\ bad' = bad + 1
  /\ \E last \in 1 .. HeaderLen - 1 :
       Stores(n, Units(n, rec[n], 1, last, "header"), "body")

\* It fails: log() returns -1, which no caller looks at; the record is missing.
LogHeaderFails(n) ==
  /\ Writing(n)
  /\ bad < MaxBad
  /\ bad' = bad + 1
  /\ Stores(n, <<>>, "header")

\* Mutant of LogBody: the excerpt of a short body is not padded.
LogBodyUnpadded(n) ==
  /\ writer[n] = "body"
  /\ \E caller \in Callers, last \in HeaderLen .. RecLen :
       Stores(n, Units(n, rec[n], HeaderLen + 1, last, Excerpt(caller)), "header")
  /\ UNCHANGED bad

\* Mutant of LogBody: the excerpt is one unit too long.
LogBodyOneMore(n) ==
  /\ writer[n] = "body"
  /\ \E caller \in Callers :
       Stores(n, Units(n, rec[n], HeaderLen + 1, RecLen + 1, Excerpt(caller)), "header")
  /\ UNCHANGED bad

\* The second write() stores all of the body excerpt.
LogBody(n) ==
  /\ writer[n] = "body"
  /\ \E caller \in Callers :
       Stores(n, Units(n, rec[n], HeaderLen + 1, RecLen, Excerpt(caller)), "header")
  /\ UNCHANGED bad

\* It fails or falls short: the header stays, without a whole body.
LogBodyBad(n) ==
  /\ writer[n] = "body"
  /\ bad < MaxBad
  /\ bad' = bad + 1
  /\ \E last \in HeaderLen .. RecLen - 1, caller \in Callers :
       Stores(n, Units(n, rec[n], HeaderLen + 1, last, Excerpt(caller)), "header")

\* The process ends, or is killed between two writes.
WriterEnds(n) ==
  /\ HasOpen(n)
  /\ writer' = [writer EXCEPT ![n] = "ended"]
  /\ UNCHANGED <<file, rec, pos, shared, bad, readerVars>>

-----------------------------------------------------------------------------
(* dumplogfile *)

\* open(), and the opening bracket of the array.
DumpOpen ==
  /\ reader = "closed"
  /\ \E n \in Runs : writer[n] # "creat"   \* the file exists
  /\ reader' = "reading"
  /\ UNCHANGED <<writerVars, off, out>>

\* What read(fd, &message, sizeof(LogMessage)) returns.
Available == IF Len(file) <= off THEN 0
             ELSE IF Len(file) - off < RecLen THEN Len(file) - off ELSE RecLen

\* A whole piece: it is printed as one message.
DumpRecord ==
  /\ reader = "reading"
  /\ Available = RecLen
  /\ out' = Append(out, SubSeq(file, off + 1, off + RecLen))
  /\ off' = off + RecLen
  /\ UNCHANGED <<writerVars, reader>>

\* Nothing left: the closing bracket.
DumpEnd ==
  /\ reader = "reading"
  /\ Available = 0
  /\ reader' = "done"
  /\ UNCHANGED <<writerVars, off, out>>

\* Less than a record: exit(1), the array left open.
DumpTorn ==
  /\ reader = "reading"
  /\ Available \in 1 .. RecLen - 1
  /\ reader' = "failed"
  /\ UNCHANGED <<writerVars, off, out>>

-----------------------------------------------------------------------------

Writer(n) ==
  \/ Creat(n) \/ LogHeader(n) \/ LogHeaderShort(n) \/ LogHeaderFails(n)
  \/ LogBody(n) \/ LogBodyBad(n) \/ WriterEnds(n)

Reader == DumpOpen \/ DumpRecord \/ DumpEnd \/ DumpTorn

Finished ==
  /\ \A n \in Runs : writer[n] = "ended"
  /\ reader \in {"done", "failed"}
  /\ UNCHANGED vars

Next == (\E n \in Runs : Writer(n)) \/ Reader \/ Finished

Spec == Init /\ [][Next]_vars

-----------------------------------------------------------------------------
(* Properties *)

AUnit == [run : Runs, rec : 1 .. MaxRecords, part : 1 .. RecLen,
          text : {"header", "zeros", "body"}] \cup {Hole}

TypeOK ==
  /\ file \in Seq(AUnit)
  /\ writer \in [Runs -> {"creat", "header", "body", "ended"}]
  /\ rec \in [Runs -> 1 .. MaxRecords + 1]
  /\ pos \in [Runs -> Nat]
  /\ shared \in BOOLEAN /\ bad \in 0 .. MaxBad
  /\ reader \in {"closed", "reading", "done", "failed"}
  /\ off \in Nat
  /\ out \in Seq(Seq(AUnit))

\* Parts `first' to `last' of a piece are those of one record.
OneRecord(piece, first, last) ==
  \A part \in first .. last :
    /\ piece[part].run = piece[first].run /\ piece[part].rec = piece[first].rec
    /\ piece[part].part = part

\* Nothing was ever written there.
AllHoles(piece, first, last) == \A part \in first .. last : piece[part] = Hole

\* As long as no write has failed or fallen short, and one process at a time has
\* the log open, every message dumplogfile prints is one record as it was logged,
\* the n-th message the n-th record of its run, though kills tear records and
\* restarts empty the file under the reader.
DumpsWholeRecords ==
  bad = 0 /\ ~shared
    => \A n \in DOMAIN out : OneRecord(out[n], 1, RecLen) /\ out[n][1].rec = n

\* Processes that share a log lose records, and mix them: a message dumplogfile
\* prints may have the header of one and the body of another, or zeros. But they
\* never shift them: a header it prints is a header, and all of one record, and
\* so is an excerpt.
SharingNeverShifts ==
  bad = 0 =>
    \A n \in DOMAIN out :
      /\ OneRecord(out[n], 1, HeaderLen) \/ AllHoles(out[n], 1, HeaderLen)
      /\ \/ OneRecord(out[n], HeaderLen + 1, RecLen)
         \/ AllHoles(out[n], HeaderLen + 1, RecLen)

\* A dump that gives up, no write having failed or fallen short, has met a header
\* alone: a writer was between its two writes, or was killed there. That is so
\* even of a log that is shared.
TornOnlyInBetween ==
  [][reader = "reading" /\ reader' = "failed" /\ bad = 0
       => /\ Len(file) = off + HeaderLen
          /\ \E n \in Runs : pos[n] = Len(file) /\ writer[n] \in {"body", "ended"}]_vars

\* log.cc: "Logs the header and the first 24 bytes of the body, truncated or
\* zero-extended to fit a length of 24": no excerpt of these bodies is all zeros.
ExcerptOfBody == \A n \in DOMAIN file : file[n].text # "zeros"
=============================================================================
