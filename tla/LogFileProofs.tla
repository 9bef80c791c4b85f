----------------------------- MODULE LogFileProofs -----------------------------
(***************************************************************************)
(* Proofs about LogFile for every size of header and excerpt, any number of *)
(* processes and records, and any functions that log.                       *)
(***************************************************************************)
EXTENDS LogFile, SequenceTheorems, TLAPS

-----------------------------------------------------------------------------
(* Units, and what a write leaves in the file *)

(* A header and an excerpt have at least one unit each.                     *)
LEMMA Lengths == HeaderLen \in Nat /\ BodyLen \in Nat /\ HeaderLen > 0 /\ BodyLen > 0
                 /\ RecLen = HeaderLen + BodyLen
  BY HeaderAssumption, BodyAssumption DEF RecLen

\* These units are parts `first' to `last' of a record.
AreUnits(units, n, r, first, last) ==
  /\ units \in Seq(AUnit)
  /\ Len(units) = last - first + 1
  /\ \A i \in 1 .. last - first + 1 :
       units[i].run = n /\ units[i].rec = r /\ units[i].part = first + i - 1

(* Units makes them.                                                        *)
LEMMA UnitsProperties ==
  ASSUME NEW n \in Runs, NEW r \in 1 .. MaxRecords, NEW first \in 1 .. RecLen + 1,
         NEW last \in first - 1 .. RecLen, NEW text \in {"header", "zeros", "body"}
  PROVE  AreUnits(Units(n, r, first, last, text), n, r, first, last)
  <1> DEFINE units == Units(n, r, first, last, text)
  <1> USE Lengths
  <1>1. \A i \in 1 .. last - first + 1 :
          units[i] = [run |-> n, rec |-> r, part |-> first + i - 1, text |-> text]
    BY DEF Units
  <1>2. \A i \in 1 .. last - first + 1 :
          [run |-> n, rec |-> r, part |-> first + i - 1, text |-> text] \in AUnit
    BY DEF AUnit
  <1>3. units \in [1 .. last - first + 1 -> AUnit]
    BY <1>2 DEF Units
  <1>4. last - first + 1 \in Nat
    OBVIOUS
  <1>5. units \in Seq(AUnit) /\ Len(units) = last - first + 1
    BY <1>3, <1>4
  <1> HIDE DEF units
  <1>6. \A i \in 1 .. last - first + 1 :
          units[i].run = n /\ units[i].rec = r /\ units[i].part = first + i - 1
    <2> SUFFICES ASSUME NEW i \in 1 .. last - first + 1
                 PROVE  units[i].run = n /\ units[i].rec = r /\ units[i].part = first + i - 1
      OBVIOUS
    <2>1. units[i] = [run |-> n, rec |-> r, part |-> first + i - 1, text |-> text]
      BY <1>1
    <2> QED
      BY <2>1
  <1> QED
    BY <1>5, <1>6 DEF units, AreUnits

(* The file after a write: the units at their place, the rest as it was, and *)
(* holes between the old end and the new units if they are past it.         *)
LEMMA WrittenAtProperties ==
  ASSUME NEW f \in Seq(AUnit), NEW at \in Nat, NEW units \in Seq(AUnit)
  PROVE  LET g == WrittenAt(f, at, units)
         IN  /\ g \in Seq(AUnit)
             /\ Len(g) = IF units # <<>> /\ at + Len(units) > Len(f)
                         THEN at + Len(units) ELSE Len(f)
             /\ \A i \in 1 .. Len(g) :
                  g[i] = IF i \in at + 1 .. at + Len(units) THEN units[i - at]
                         ELSE IF i <= Len(f) THEN f[i] ELSE Hole
  <1> DEFINE len == IF at + Len(units) > Len(f) /\ units # <<>>
                    THEN at + Len(units) ELSE Len(f)
             unit(i) == IF i \in at + 1 .. at + Len(units) THEN units[i - at]
                        ELSE IF i <= Len(f) THEN f[i] ELSE Hole
             g == WrittenAt(f, at, units)
  <1>1. Len(f) \in Nat /\ Len(units) \in Nat /\ len \in Nat
    BY LenProperties
  <1>2. \A i \in 1 .. len : unit(i) \in AUnit
    <2> SUFFICES ASSUME NEW i \in 1 .. len PROVE unit(i) \in AUnit
      OBVIOUS
    <2>1. CASE i \in at + 1 .. at + Len(units)
      <3>1. i - at \in 1 .. Len(units)
        BY <1>1, <2>1
      <3> QED
        BY <2>1, <3>1, ElementOfSeq
    <2>2. CASE i \notin at + 1 .. at + Len(units) /\ i <= Len(f)
      <3>1. i \in 1 .. Len(f)
        BY <1>1, <2>2
      <3> QED
        BY <2>2, <3>1, ElementOfSeq
    <2>3. CASE i \notin at + 1 .. at + Len(units) /\ ~(i <= Len(f))
      BY <2>3 DEF AUnit
    <2> QED
      BY <2>1, <2>2, <2>3
  <1>3. g = [i \in 1 .. len |-> unit(i)]
    BY DEF WrittenAt
  <1> HIDE DEF len, unit, g
  <1>4. g \in [1 .. len -> AUnit]
    BY <1>2, <1>3
  <1>5. g \in Seq(AUnit) /\ Len(g) = len
    BY <1>1, <1>4
  <1>6. \A i \in 1 .. len : g[i] = unit(i)
    BY <1>3
  <1> QED
    BY <1>5, <1>6 DEF len, unit, g

-----------------------------------------------------------------------------
(* Types *)

\* A writer is in the second half of a record only of one it may write.
TypeInv ==
  /\ TypeOK
  /\ \A n \in Runs : writer[n] = "body" => rec[n] <= MaxRecords

(* What write() may make of the file, by type.                              *)
LEMMA StoresTyped ==
  ASSUME TypeOK, NEW n \in Runs, NEW units \in Seq(AUnit), NEW next \in {"header", "body"},
         rec[n] <= MaxRecords, Stores(n, units, next), bad' \in 0 .. MaxBad,
         \A m \in Runs : writer[m] = "body" => rec[m] <= MaxRecords
  PROVE  TypeInv'
  <1>1. Len(units) \in Nat /\ pos[n] \in Nat
    BY LenProperties DEF TypeOK
  <1>2. file' \in Seq(AUnit)
    BY <1>1, WrittenAtProperties DEF Stores, TypeOK
  <1>3. pos' \in [Runs -> Nat]
    BY <1>1 DEF Stores, TypeOK
  <1>4. writer' \in [Runs -> {"creat", "header", "body", "ended"}]
    BY DEF Stores, TypeOK
  <1>5. rec' \in [Runs -> 1 .. MaxRecords + 1]
    BY RecordsAssumption DEF Stores, TypeOK
  <1>6. \A m \in Runs : writer'[m] = "body" => rec'[m] <= MaxRecords
    BY DEF Stores, TypeOK
  <1> QED
    BY <1>2, <1>3, <1>4, <1>5, <1>6 DEF TypeInv, TypeOK, Stores, readerVars

(* The types of LogFile, with what they need to be kept: a process that is  *)
(* between its two writes has not yet written its last record.              *)
THEOREM TypeCorrect == Spec => []TypeInv
  <1>1. Init => TypeInv
    <2> SUFFICES ASSUME Init PROVE TypeInv
      OBVIOUS
    <2>1. file \in Seq(AUnit) /\ out \in Seq(Seq(AUnit))
      BY EmptySeq DEF Init
    <2>2. rec \in [Runs -> 1 .. MaxRecords + 1] /\ pos \in [Runs -> Nat]
      BY RecordsAssumption DEF Init
    <2>3. writer \in [Runs -> {"creat", "header", "body", "ended"}]
      BY DEF Init
    <2>4. \A n \in Runs : writer[n] = "body" => rec[n] <= MaxRecords
      BY DEF Init
    <2>5. shared \in BOOLEAN /\ bad \in 0 .. MaxBad /\ off \in Nat
          /\ reader \in {"closed", "reading", "done", "failed"}
      <3>1. 0 \in 0 .. MaxBad
        BY BadAssumption
      <3> QED
        BY <3>1 DEF Init
    <2> QED
      BY <2>1, <2>2, <2>3, <2>4, <2>5 DEF TypeInv, TypeOK
  <1>2. TypeInv /\ [Next]_vars => TypeInv'
    <2> SUFFICES ASSUME TypeInv, [Next]_vars PROVE TypeInv'
      OBVIOUS
    <2> USE Lengths
    <2>1. ASSUME NEW n \in Runs, Creat(n) PROVE TypeInv'
      <3>1. file' \in Seq(AUnit)
        BY <2>1, EmptySeq DEF Creat
      <3>2. writer' \in [Runs -> {"creat", "header", "body", "ended"}]
        BY <2>1 DEF Creat, Opens, TypeInv, TypeOK
      <3>3. \A m \in Runs : writer'[m] = "body" => rec'[m] <= MaxRecords
        BY <2>1 DEF Creat, Opens, TypeInv, TypeOK
      <3>4. shared' \in BOOLEAN
        BY <2>1 DEF Creat, Opens, TypeInv, TypeOK
      <3> QED
        BY <2>1, <3>1, <3>2, <3>3, <3>4
           DEF Creat, Opens, TypeInv, TypeOK, readerVars
    <2>2. ASSUME NEW n \in Runs, LogHeader(n) \/ LogHeaderShort(n) \/ LogHeaderFails(n)
          PROVE  TypeInv'
      <3>1. rec[n] \in 1 .. MaxRecords
        BY <2>2, RecordsAssumption
           DEF LogHeader, LogHeaderShort, LogHeaderFails, Writing, TypeInv, TypeOK
      <3>2. CASE LogHeader(n)
        <4>1. Units(n, rec[n], 1, HeaderLen, "header") \in Seq(AUnit)
          <5>1. AreUnits(Units(n, rec[n], 1, HeaderLen, "header"), n, rec[n], 1, HeaderLen)
            BY <3>1, UnitsProperties
          <5> QED
            BY <5>1 DEF AreUnits
        <4>2. bad' \in 0 .. MaxBad
          BY <3>2 DEF LogHeader, TypeInv, TypeOK
        <4>3. Stores(n, Units(n, rec[n], 1, HeaderLen, "header"), "body")
          BY <3>2 DEF LogHeader
        <4> QED
          BY <3>1, <4>1, <4>2, <4>3, StoresTyped DEF TypeInv
      <3>3. CASE LogHeaderShort(n)
        <4>1. PICK last \in 1 .. HeaderLen - 1 :
                Stores(n, Units(n, rec[n], 1, last, "header"), "body")
          BY <3>3 DEF LogHeaderShort
        <4>2. bad' \in 0 .. MaxBad
          BY <3>3, BadAssumption DEF LogHeaderShort, TypeInv, TypeOK
        <4>3. Units(n, rec[n], 1, last, "header") \in Seq(AUnit)
          BY <3>1, UnitsProperties DEF AreUnits
        <4> QED
          BY <3>1, <4>1, <4>2, <4>3, StoresTyped DEF TypeInv
      <3>4. CASE LogHeaderFails(n)
        <4>1. bad' \in 0 .. MaxBad
          BY <3>4, BadAssumption DEF LogHeaderFails, TypeInv, TypeOK
        <4>2. PICK units \in Seq(AUnit) : Stores(n, units, "header")
          <5>1. <<>> \in Seq(AUnit)
            BY EmptySeq
          <5> QED
            BY <3>4, <5>1, Zenon DEF LogHeaderFails
        <4> QED
          BY <3>1, <4>1, <4>2, StoresTyped DEF TypeInv
      <3> QED
        BY <2>2, <3>2, <3>3, <3>4
    <2>3. ASSUME NEW n \in Runs, LogBody(n) \/ LogBodyBad(n)
          PROVE  TypeInv'
      <3>1. rec[n] \in 1 .. MaxRecords
        BY <2>3, RecordsAssumption DEF LogBody, LogBodyBad, TypeInv, TypeOK
      <3>2. PICK last \in HeaderLen .. RecLen, caller \in Callers :
              Stores(n, Units(n, rec[n], HeaderLen + 1, last, Excerpt(caller)), "header")
        BY <2>3 DEF LogBody, LogBodyBad
      <3>3. bad' \in 0 .. MaxBad
        BY <2>3, BadAssumption DEF LogBody, LogBodyBad, TypeInv, TypeOK
      <3>4. Excerpt(caller) \in {"header", "zeros", "body"}
        BY DEF Excerpt
      <3>5. Units(n, rec[n], HeaderLen + 1, last, Excerpt(caller)) \in Seq(AUnit)
        <4>1. HeaderLen + 1 \in 1 .. RecLen + 1 /\ last \in (HeaderLen + 1) - 1 .. RecLen
          OBVIOUS
        <4> QED
          BY <3>1, <3>4, <4>1, UnitsProperties DEF AreUnits
      <3> QED
        BY <3>1, <3>2, <3>3, <3>5, StoresTyped DEF TypeInv
    <2>4. ASSUME NEW n \in Runs, WriterEnds(n) PROVE TypeInv'
      BY <2>4 DEF WriterEnds, TypeInv, TypeOK, readerVars
    <2>5. CASE DumpRecord
      <3>1. /\ off \in Nat /\ RecLen \in Nat /\ Len(file) \in Nat
            /\ off + RecLen <= Len(file)
        BY <2>5, LenProperties DEF DumpRecord, Available, TypeInv, TypeOK
      <3>2. \A i \in off + 1 .. off + RecLen : file[i] \in AUnit
        BY <3>1, ElementOfSeq DEF TypeInv, TypeOK
      <3>3. SubSeq(file, off + 1, off + RecLen) \in Seq(AUnit)
        BY <3>1, <3>2, SubSeqProperties
      <3>4. out' \in Seq(Seq(AUnit))
        BY <2>5, <3>3 DEF DumpRecord, TypeInv, TypeOK
      <3> QED
        BY <2>5, <3>1, <3>4 DEF DumpRecord, TypeInv, TypeOK, writerVars
    <2>6. CASE DumpOpen \/ DumpEnd \/ DumpTorn
      BY <2>6 DEF DumpOpen, DumpEnd, DumpTorn, TypeInv, TypeOK, writerVars
    <2>7. CASE UNCHANGED vars
      BY <2>7 DEF TypeInv, TypeOK, vars, writerVars, readerVars
    <2> QED
      BY <2>1, <2>2, <2>3, <2>4, <2>5, <2>6, <2>7
         DEF Next, Writer, Reader, Finished
  <1> QED
    BY <1>1, <1>2, PTL DEF Spec

(* Types of the writers, the file and the reader of LogFile.                *)
THEOREM TypeOKCorrect == Spec => []TypeOK
  <1>1. TypeInv => TypeOK
    BY DEF TypeInv
  <1> QED
    BY <1>1, TypeCorrect, PTL

-----------------------------------------------------------------------------
(* Where records start, and what lies there *)

Slots == Nat \ {0}

\* The offset of the q-th record of a file of whole records.
Start(q) == (q - 1) * RecLen

(* The records lie one behind the other.                                    *)
LEMMA StartProperties ==
  /\ Start(1) = 0
  /\ \A q \in Slots : Start(q) \in Nat /\ Start(q + 1) = Start(q) + RecLen
  /\ \A q, r \in Slots : q < r => Start(q) + RecLen <= Start(r)
  <1> USE Lengths
  <1>1. RecLen \in Nat
    OBVIOUS
  <1>2. \A d \in Nat : d * RecLen \in Nat /\ (d + 1) * RecLen = d * RecLen + RecLen
    BY <1>1
  <1>3. Start(1) = 0
    BY <1>1 DEF Start
  <1>4. ASSUME NEW q \in Slots
        PROVE  Start(q) \in Nat /\ Start(q + 1) = Start(q) + RecLen
    <2>1. PICK d \in Nat : q = d + 1
      <3>1. q - 1 \in Nat /\ q = (q - 1) + 1
        BY DEF Slots
      <3> QED
        BY <3>1
    <2>2. Start(q) = d * RecLen /\ Start(q + 1) = (d + 1) * RecLen
      <3>1. q - 1 = d /\ (q + 1) - 1 = d + 1
        BY <2>1
      <3> QED
        BY <3>1 DEF Start
    <2> QED
      BY <1>2, <2>2
  <1>5. ASSUME NEW q \in Slots, NEW r \in Slots, q < r
        PROVE  Start(q) + RecLen <= Start(r)
    <2>1. q \in Nat /\ r \in Nat /\ q <= r - 1
      BY <1>5 DEF Slots
    <2>2. PICK d \in Nat : r - 1 = q + d
      <3>1. (r - 1) - q \in Nat /\ r - 1 = q + ((r - 1) - q)
        BY <2>1
      <3> QED
        BY <3>1
    <2>3. Start(r) = q * RecLen + d * RecLen
      <3>1. Start(r) = (q + d) * RecLen
        BY <2>2 DEF Start
      <3>2. (q + d) * RecLen = q * RecLen + d * RecLen
        BY <1>1, <2>1
      <3> QED
        BY <3>1, <3>2
    <2>4. Start(q + 1) = q * RecLen
      <3>1. (q + 1) - 1 = q
        BY <2>1
      <3> QED
        BY <3>1 DEF Start
    <2>5. d * RecLen \in Nat /\ q * RecLen \in Nat
      BY <1>2, <2>1
    <2>6. Start(q) + RecLen = Start(q + 1)
      BY <1>4
    <2> QED
      BY <2>3, <2>4, <2>5, <2>6
  <1> QED
    BY <1>3, <1>4, <1>5

\* The first parts of a header and of an excerpt, and their last ones.
Firsts == {1, HeaderLen + 1}
LastOf(first) == IF first = 1 THEN HeaderLen ELSE RecLen

\* An offset at the start of a record, or behind a header.
AtRecord(x) == \E q \in Slots : x = Start(q)
PastHeader(x) == \E q \in Slots : x = Start(q) + HeaderLen

\* Behind an offset of the file lie parts `first' to `last' of one record, or holes.
Piece(f, at, first, last) ==
  \/ \A part \in first .. last :
       /\ f[at + part].run = f[at + first].run /\ f[at + part].rec = f[at + first].rec
       /\ f[at + part].part = part
  \/ \A part \in first .. last : f[at + part] = Hole

\* The file is made of whole headers and excerpts, each in its place, and holes.
FileAligned(f) ==
  /\ AtRecord(Len(f)) \/ PastHeader(Len(f))
  /\ \A q \in Slots : \A first \in Firsts :
       Start(q) + first <= Len(f) => Piece(f, Start(q), first, LastOf(first))

(* A part of a record lies between the starts of two records.               *)
LEMMA StretchBounds ==
  ASSUME NEW first \in Firsts
  PROVE  /\ first \in 1 .. RecLen /\ LastOf(first) \in first .. RecLen
         /\ first = 1 => LastOf(first) = HeaderLen
         /\ first # 1 => first = HeaderLen + 1 /\ LastOf(first) = RecLen
  BY Lengths DEF Firsts, LastOf

(* Of a header or an excerpt, an aligned file has all or nothing.           *)
LEMMA AllOrNothing ==
  ASSUME NEW len \in Nat, AtRecord(len) \/ PastHeader(len),
         NEW q \in Slots, NEW first \in Firsts
  PROVE  \/ Start(q) + LastOf(first) <= len
         \/ len < Start(q) + first
  <1>1. PICK r \in Slots : len = Start(r) \/ len = Start(r) + HeaderLen
    BY DEF AtRecord, PastHeader
  <1>2. q < r \/ q = r \/ r < q
    BY DEF Slots
  <1>3. Start(q) \in Nat /\ Start(r) \in Nat
    BY StartProperties
  <1>4. CASE q < r
    BY <1>1, <1>3, <1>4, StartProperties, StretchBounds, Lengths
  <1>5. CASE r < q
    BY <1>1, <1>3, <1>5, StartProperties, StretchBounds, Lengths
  <1>6. CASE q = r
    BY <1>1, <1>3, <1>6, StretchBounds, Lengths
  <1> QED
    BY <1>2, <1>4, <1>5, <1>6

(* Different headers and excerpts do not overlap.                           *)
LEMMA Apart ==
  ASSUME NEW q \in Slots, NEW r \in Slots, NEW first \in Firsts, NEW other \in Firsts,
         q # r \/ first # other
  PROVE  \/ Start(q) + LastOf(first) < Start(r) + other
         \/ Start(r) + LastOf(other) < Start(q) + first
  <1>1. Start(q) \in Nat /\ Start(r) \in Nat
    BY StartProperties
  <1>2. q < r \/ q = r \/ r < q
    BY DEF Slots
  <1>3. CASE q < r
    BY <1>1, <1>3, StartProperties, StretchBounds, Lengths
  <1>4. CASE r < q
    BY <1>1, <1>4, StartProperties, StretchBounds, Lengths
  <1>5. CASE q = r
    <2>1. first # other
      BY <1>5
    <2>2. CASE first = 1
      BY <1>1, <1>5, <2>1, <2>2, StretchBounds, Lengths
    <2>3. CASE first # 1
      BY <1>1, <1>5, <2>1, <2>3, StretchBounds, Lengths DEF Firsts
    <2> QED
      BY <2>2, <2>3
  <1> QED
    BY <1>2, <1>3, <1>4, <1>5

(* Where a part of a stretch lies among its units.                          *)
LEMMA Offsets ==
  ASSUME NEW s \in Nat, NEW first \in Nat, NEW last \in Nat, NEW part \in first .. last
  PROVE  /\ (s + part) - (s + first - 1) \in 1 .. last - first + 1
         /\ first + ((s + part) - (s + first - 1)) - 1 = part
  OBVIOUS

(* No position is in both of two stretches that are apart.                  *)
LEMMA NotInBoth ==
  ASSUME NEW a \in Nat, NEW first \in Nat, NEW last \in Nat, NEW part \in first .. last,
         NEW b \in Nat, NEW other \in Nat, NEW end \in Nat,
         a + last < b + other \/ b + end < a + first
  PROVE  a + part \notin b + other .. b + end
  OBVIOUS

\* They are a whole header, or a whole excerpt, of one record.
IsStretch(units, n, r, first) == AreUnits(units, n, r, first, LastOf(first))

(* A whole header or excerpt written in its place leaves an aligned file    *)
(* aligned, however far past the end the place is.                          *)
LEMMA AlignedWrite ==
  ASSUME NEW f, f \in Seq(AUnit), FileAligned(f), NEW q \in Slots, NEW first \in Firsts,
         NEW n, NEW r, NEW units, IsStretch(units, n, r, first),
         NEW at \in Nat, at = Start(q) + first - 1
  PROVE  LET g == WrittenAt(f, at, units)
         IN  /\ FileAligned(g)
             /\ Len(g) = Len(f) \/ Len(g) = at + Len(units)
             /\ Len(g) >= at + Len(units)
  <1> DEFINE g == WrittenAt(f, at, units)
  <1> HIDE DEF g
  <1>1. /\ units \in Seq(AUnit) /\ Len(units) = LastOf(first) - first + 1
        /\ \A i \in 1 .. LastOf(first) - first + 1 :
             units[i].run = n /\ units[i].rec = r /\ units[i].part = first + i - 1
    BY DEF IsStretch, AreUnits
  <1> DEFINE l == LastOf(first)
  <1>range. /\ first \in Nat /\ l \in Nat /\ first >= 1 /\ first <= l
         /\ Len(units) = l - first + 1
    BY <1>1, StretchBounds, Lengths
  <1> HIDE DEF l
  <1>2. Start(q) \in Nat /\ at \in Nat
    BY StartProperties
  <1>3. Len(f) \in Nat
    BY LenProperties
  <1>4. Len(units) \in Nat /\ Len(units) > 0 /\ at + Len(units) = Start(q) + LastOf(first)
    <2>1. Len(units) \in Nat /\ Len(units) > 0 /\ at + Len(units) = Start(q) + l
      BY <1>range, <1>2
    <2> QED
      BY <2>1 DEF l
  <1>5. units # <<>>
    BY <1>4, EmptySeq
  <1>6. /\ g \in Seq(AUnit)
        /\ Len(g) = IF at + Len(units) > Len(f) THEN at + Len(units) ELSE Len(f)
        /\ \A i \in 1 .. Len(g) :
             g[i] = IF i \in at + 1 .. at + Len(units) THEN units[i - at]
                    ELSE IF i <= Len(f) THEN f[i] ELSE Hole
    BY <1>1, <1>2, <1>5, WrittenAtProperties DEF g
  <1>7. Len(g) \in Nat /\ Len(g) >= at + Len(units) /\ Len(g) >= Len(f)
    BY <1>2, <1>3, <1>4, <1>6
  <1>8. AtRecord(Len(g)) \/ PastHeader(Len(g))
    <2>1. CASE Len(g) = Len(f)
      BY <2>1 DEF FileAligned
    <2>2. CASE Len(g) = at + Len(units)
      <3>1. CASE first = 1
        BY <1>4, <2>2, <3>1, StretchBounds DEF PastHeader
      <3>2. CASE first # 1
        <4>1. q + 1 \in Slots /\ Len(g) = Start(q + 1)
          BY <1>4, <2>2, <3>2, StretchBounds, StartProperties DEF Slots
        <4> QED
          BY <4>1 DEF AtRecord
      <3> QED
        BY <3>1, <3>2
    <2> QED
      BY <1>6, <2>1, <2>2
  <1>9. ASSUME NEW p \in Slots, NEW fst \in Firsts, Start(p) + fst <= Len(g)
        PROVE  Piece(g, Start(p), fst, LastOf(fst))
    <2>1. Start(p) \in Nat /\ fst \in Nat /\ LastOf(fst) \in Nat /\ fst >= 1
          /\ fst <= LastOf(fst)
      BY StartProperties, StretchBounds
    <2>2. Start(p) + LastOf(fst) <= Len(g)
      BY <1>7, <1>8, <1>9, <2>1, AllOrNothing
    <2>3. CASE p = q /\ fst = first
      <3>1. ASSUME NEW part \in fst .. LastOf(fst)
            PROVE  g[Start(p) + part].run = n /\ g[Start(p) + part].rec = r
                   /\ g[Start(p) + part].part = part
        <4> DEFINE i == Start(p) + part
        <4>1. i \in 1 .. Len(g) /\ i \in at + 1 .. at + Len(units)
          BY <1>2, <1>4, <1>7, <2>1, <2>2, <2>3
        <4>2. i - at \in 1 .. LastOf(first) - first + 1 /\ first + (i - at) - 1 = part
          <5>1. /\ (Start(q) + part) - (Start(q) + first - 1) \in 1 .. l - first + 1
                /\ first + ((Start(q) + part) - (Start(q) + first - 1)) - 1 = part
            BY <1>2, <1>range, <2>3, Offsets DEF l
          <5> QED
            BY <2>3, <5>1, Zenon DEF l
        <4>3. g[i] = units[i - at]
          BY <1>6, <4>1
        <4>4. units[i - at].run = n /\ units[i - at].rec = r
              /\ units[i - at].part = first + (i - at) - 1
          BY <1>1, <4>2
        <4> QED
          BY <4>2, <4>3, <4>4
      <3>2. fst \in fst .. LastOf(fst)
        BY <2>1
      <3> QED
        BY <3>1, <3>2 DEF Piece
    <2>4. CASE p # q \/ fst # first
      <3>1. \A part \in fst .. LastOf(fst) :
              g[Start(p) + part] = IF Start(p) + part <= Len(f) THEN f[Start(p) + part] ELSE Hole
        <4> SUFFICES ASSUME NEW part \in fst .. LastOf(fst)
                     PROVE  g[Start(p) + part] = IF Start(p) + part <= Len(f)
                                                 THEN f[Start(p) + part] ELSE Hole
          OBVIOUS
        <4>1. Start(p) + part \in 1 .. Len(g)
          BY <1>7, <2>1, <2>2
        <4>2. Start(p) + part \notin at + 1 .. at + Len(units)
          <5>1. \/ Start(p) + LastOf(fst) < Start(q) + first
                \/ Start(q) + LastOf(first) < Start(p) + fst
            BY <2>4, Apart
          <5>2. at + 1 = Start(q) + first /\ at + Len(units) = Start(q) + LastOf(first)
            BY <1>2, <1>4, <1>range
          <5>3. LastOf(first) \in Nat
            BY <1>range DEF l
          <5>4. Start(p) + part \notin Start(q) + first .. Start(q) + LastOf(first)
            BY <1>2, <1>range, <2>1, <5>1, <5>3, NotInBoth
          <5> QED
            BY <5>2, <5>4, Zenon
        <4> QED
          BY <1>6, <4>1, <4>2
      <3>2. CASE Start(p) + LastOf(fst) <= Len(f)
        <4>1. Piece(f, Start(p), fst, LastOf(fst))
          <5>1. Start(p) + fst <= Len(f)
            BY <1>3, <2>1, <3>2
          <5> QED
            BY <5>1 DEF FileAligned
        <4>2. \A part \in fst .. LastOf(fst) : g[Start(p) + part] = f[Start(p) + part]
          BY <1>3, <2>1, <3>1, <3>2
        <4>3. fst \in fst .. LastOf(fst)
          BY <2>1
        <4> QED
          BY <4>1, <4>2, <4>3, Zenon DEF Piece
      <3>3. CASE Len(f) < Start(p) + fst
        <4>1. \A part \in fst .. LastOf(fst) : g[Start(p) + part] = Hole
          BY <1>3, <2>1, <3>1, <3>3
        <4> QED
          BY <4>1 DEF Piece
      <3> QED
        BY <1>3, <3>2, <3>3, AllOrNothing DEF FileAligned
    <2> QED
      BY <2>3, <2>4
  <1> QED
    BY <1>3, <1>4, <1>6, <1>7, <1>8, <1>9 DEF FileAligned, g
-----------------------------------------------------------------------------
(* Sharing never shifts *)

\* As long as no write has failed: writers and reader stand where records start,
\* or behind a header; the file is aligned, and so is all that was read of it; and
\* a header at the end of the file is that of a writer between its two writes.
Aligned ==
  /\ FileAligned(file)
  /\ PastHeader(Len(file)) =>
       \E n \in Runs : writer[n] \in {"body", "ended"} /\ pos[n] = Len(file)
  /\ \A n \in Runs : /\ writer[n] \in {"creat", "header"} => AtRecord(pos[n])
                     /\ writer[n] = "body" => PastHeader(pos[n])
  /\ AtRecord(off)
  /\ \A n \in DOMAIN out : \A first \in Firsts : Piece(out[n], 0, first, LastOf(first))

AlignedInv == bad = 0 => Aligned

(* No offset is both.                                                       *)
LEMMA NotBoth ==
  ASSUME NEW x, AtRecord(x)
  PROVE  ~PastHeader(x)
  <1> SUFFICES ASSUME PastHeader(x) PROVE FALSE
    OBVIOUS
  <1>1. PICK q \in Slots : x = Start(q)
    BY DEF AtRecord
  <1>2. PICK r \in Slots : x = Start(r) + HeaderLen
    BY DEF PastHeader
  <1>3. q < r \/ q = r \/ r < q
    BY DEF Slots
  <1>4. Start(q) \in Nat /\ Start(r) \in Nat
    BY StartProperties
  <1>5. Start(q) = Start(r) + HeaderLen
    BY <1>1, <1>2
  <1>6. ASSUME q < r PROVE FALSE
    <2>1. Start(q) + RecLen <= Start(r)
      BY <1>6, StartProperties
    <2> QED
      BY <1>4, <1>5, <2>1, Lengths
  <1>7. ASSUME r < q PROVE FALSE
    <2>1. Start(r) + RecLen <= Start(q)
      BY <1>7, StartProperties
    <2> QED
      BY <1>4, <1>5, <2>1, Lengths
  <1>8. q # r
    BY <1>4, <1>5, Lengths
  <1> QED
    BY <1>3, <1>6, <1>7, <1>8

(* At the start no part of any record is in a file.                         *)
LEMMA NothingAtStart ==
  /\ AtRecord(0)
  /\ FileAligned(<<>>)
  <1>1. 1 \in Slots /\ Start(1) = 0
    BY StartProperties DEF Slots
  <1>2. AtRecord(0)
    BY <1>1 DEF AtRecord
  <1>3. Len(<<>>) = 0
    BY EmptySeq
  <1>4. ASSUME NEW q \in Slots, NEW first \in Firsts
        PROVE  ~(Start(q) + first <= 0)
    BY StartProperties, StretchBounds, Lengths
  <1> QED
    BY <1>2, <1>3, <1>4 DEF FileAligned

(* A writer writes a whole header or excerpt where it belongs.              *)
LEMMA WriteAligned ==
  ASSUME TypeInv, Aligned, NEW n \in Runs, NEW q \in Slots, NEW first \in Firsts,
         NEW r, NEW units, IsStretch(units, n, r, first), NEW next,
         pos[n] = Start(q) + first - 1, Stores(n, units, next),
         \/ first = 1 /\ writer[n] = "header" /\ next = "body"
         \/ first # 1 /\ writer[n] = "body" /\ next = "header"
  PROVE  Aligned'
  <1>1. /\ file' = WrittenAt(file, pos[n], units)
        /\ pos' = [pos EXCEPT ![n] = @ + Len(units)]
        /\ writer' = [writer EXCEPT ![n] = next]
        /\ off' = off /\ out' = out
    BY DEF Stores, readerVars
  <1>2. pos \in [Runs -> Nat] /\ file \in Seq(AUnit)
        /\ writer \in [Runs -> {"creat", "header", "body", "ended"}]
    BY DEF TypeInv, TypeOK
  <1>3. pos[n] \in Nat
    BY <1>2
  <1>4. /\ FileAligned(file')
        /\ Len(file') = Len(file) \/ Len(file') = pos[n] + Len(units)
        /\ Len(file') >= pos[n] + Len(units)
    BY <1>1, <1>2, <1>3, AlignedWrite DEF Aligned
  <1>5. Len(units) = LastOf(first) - first + 1
    BY DEF IsStretch, AreUnits
  <1>6. Start(q) \in Nat /\ q + 1 \in Slots /\ Start(q + 1) = Start(q) + RecLen
    BY StartProperties DEF Slots
  <1>7. pos'[n] = pos[n] + Len(units) /\ writer'[n] = next
        /\ \A m \in Runs : m # n => pos'[m] = pos[m] /\ writer'[m] = writer[m]
    BY <1>1, <1>2
  <1>8. pos[n] + Len(units) = Start(q) + LastOf(first) /\ Len(units) > 0
    <2>1. first \in Nat /\ LastOf(first) \in Nat /\ first <= LastOf(first)
      BY StretchBounds, Lengths
    <2> QED
      BY <1>5, <1>6, <2>1
  <1>9. first = 1 => PastHeader(pos'[n])
    BY <1>7, <1>8, StretchBounds DEF PastHeader
  <1>10. first # 1 => AtRecord(pos'[n])
    <2>1. first # 1 => pos'[n] = Start(q + 1)
      BY <1>6, <1>7, <1>8, StretchBounds
    <2> QED
      BY <1>6, <2>1 DEF AtRecord
  <1>11. \A m \in Runs : /\ writer'[m] \in {"creat", "header"} => AtRecord(pos'[m])
                         /\ writer'[m] = "body" => PastHeader(pos'[m])
    BY <1>7, <1>9, <1>10 DEF Aligned
  <1>12. ASSUME PastHeader(Len(file'))
         PROVE  \E m \in Runs : writer'[m] \in {"body", "ended"} /\ pos'[m] = Len(file')
    <2>1. CASE Len(file') = pos[n] + Len(units)
      <3>1. first = 1
        BY <1>7, <1>10, <1>12, <2>1, NotBoth
      <3>2. next = "body"
        BY <3>1
      <3> QED
        BY <1>7, <2>1, <3>2
    <2>2. CASE Len(file') = Len(file)
      <3>1. PICK m \in Runs : writer[m] \in {"body", "ended"} /\ pos[m] = Len(file)
        BY <1>12, <2>2 DEF Aligned
      <3>2. m # n
        BY <1>3, <1>4, <1>5, <1>8, <2>2, <3>1, StretchBounds, Lengths
      <3> QED
        BY <1>7, <2>2, <3>1, <3>2
    <2> QED
      BY <1>4, <2>1, <2>2
  <1> QED
    BY <1>1, <1>4, <1>11, <1>12 DEF Aligned

(* The units that log() writes when nothing fails.                          *)
LEMMA WholeStretches ==
  ASSUME NEW n \in Runs, NEW r \in 1 .. MaxRecords, NEW text \in {"header", "zeros", "body"}
  PROVE  /\ IsStretch(Units(n, r, 1, HeaderLen, text), n, r, 1)
         /\ IsStretch(Units(n, r, HeaderLen + 1, RecLen, text), n, r, HeaderLen + 1)
  <1>1. LastOf(1) = HeaderLen /\ LastOf(HeaderLen + 1) = RecLen
    BY Lengths DEF LastOf
  <1>2. /\ 1 \in 1 .. RecLen + 1 /\ HeaderLen \in 1 - 1 .. RecLen
        /\ HeaderLen + 1 \in 1 .. RecLen + 1 /\ RecLen \in (HeaderLen + 1) - 1 .. RecLen
    BY Lengths
  <1>3. IsStretch(Units(n, r, 1, HeaderLen, text), n, r, 1)
    <2>1. AreUnits(Units(n, r, 1, HeaderLen, text), n, r, 1, HeaderLen)
      BY <1>2, UnitsProperties
    <2> QED
      BY <1>1, <2>1 DEF IsStretch
  <1>4. IsStretch(Units(n, r, HeaderLen + 1, RecLen, text), n, r, HeaderLen + 1)
    <2>1. AreUnits(Units(n, r, HeaderLen + 1, RecLen, text), n, r, HeaderLen + 1, RecLen)
      BY <1>2, UnitsProperties
    <2> QED
      BY <1>1, <2>1 DEF IsStretch
  <1> QED
    BY <1>3, <1>4

(* While no write has failed, none has failed before.                       *)
LEMMA BadGrows ==
  ASSUME TypeInv, [Next]_vars, bad' = 0
  PROVE  /\ bad = 0
         /\ \A n \in Runs : ~LogHeaderShort(n) /\ ~LogHeaderFails(n) /\ ~LogBodyBad(n)
  <1>1. bad \in Nat
    BY BadAssumption DEF TypeInv, TypeOK
  <1>2. ASSUME NEW n \in Runs, LogHeaderShort(n) \/ LogHeaderFails(n) \/ LogBodyBad(n)
        PROVE  FALSE
    BY <1>1, <1>2 DEF LogHeaderShort, LogHeaderFails, LogBodyBad
  <1>3. bad' = bad
    BY <1>2 DEF Next, Writer, Creat, Opens, LogHeader, LogBody, WriterEnds, Reader,
       DumpOpen, DumpRecord, DumpEnd, DumpTorn, Finished, vars, writerVars
  <1> QED
    BY <1>2, <1>3

(* What the reader can read of an aligned file: a whole record, or nothing, *)
(* or a header at its end.                                                  *)
LEMMA ReaderAligned ==
  ASSUME TypeInv, Aligned
  PROVE  /\ Available = RecLen => off + RecLen <= Len(file)
         /\ Available \in 1 .. RecLen - 1 => Len(file) = off + HeaderLen
  <1>1. off \in Nat /\ Len(file) \in Nat
    BY LenProperties DEF TypeInv, TypeOK
  <1>2. PICK q \in Slots : off = Start(q)
    BY DEF Aligned, AtRecord
  <1>3. Available = RecLen => off + RecLen <= Len(file)
    BY <1>1, Lengths DEF Available
  <1>4. ASSUME Available \in 1 .. RecLen - 1
        PROVE  Len(file) = off + HeaderLen
    <2>1. off < Len(file) /\ Len(file) < off + RecLen
      BY <1>1, <1>4, Lengths DEF Available
    <2>2. PICK r \in Slots : Len(file) = Start(r) \/ Len(file) = Start(r) + HeaderLen
      BY DEF Aligned, FileAligned, AtRecord, PastHeader
    <2>3. Start(r) \in Nat
      BY StartProperties
    <2>4. ASSUME q < r PROVE FALSE
      <3>1. Start(q) + RecLen <= Start(r)
        BY <2>4, StartProperties
      <3> QED
        BY <1>1, <1>2, <2>1, <2>2, <2>3, <3>1, Lengths
    <2>5. ASSUME r < q PROVE FALSE
      <3>1. Start(r) + RecLen <= Start(q)
        BY <2>5, StartProperties
      <3> QED
        BY <1>1, <1>2, <2>1, <2>2, <2>3, <3>1, Lengths
    <2>6. q = r
      BY <2>4, <2>5 DEF Slots
    <2> QED
      BY <1>1, <1>2, <2>1, <2>2, <2>6, Lengths
  <1> QED
    BY <1>3, <1>4

(* The piece that a read() takes from the file.                             *)
LEMMA PieceUnits ==
  ASSUME TypeInv, off + RecLen <= Len(file)
  PROVE  /\ SubSeq(file, off + 1, off + RecLen) \in Seq(AUnit)
         /\ \A part \in 1 .. RecLen : SubSeq(file, off + 1, off + RecLen)[part] = file[off + part]
  <1> DEFINE piece == SubSeq(file, off + 1, off + RecLen)
  <1>1. off \in Nat /\ Len(file) \in Nat /\ RecLen \in Nat
    BY LenProperties, Lengths DEF TypeInv, TypeOK
  <1>2. \A i \in off + 1 .. off + RecLen : file[i] \in AUnit
    BY <1>1, ElementOfSeq DEF TypeInv, TypeOK
  <1>3. \A i \in 1 .. (off + RecLen) - (off + 1) + 1 : piece[i] = file[(off + 1) + i - 1]
    BY <1>1, <1>2, SubSeqProperties
  <1>4. piece \in Seq(AUnit)
    BY <1>1, <1>2, SubSeqProperties
  <1> HIDE DEF piece
  <1>5. ASSUME NEW part \in 1 .. RecLen PROVE piece[part] = file[off + part]
    <2>1. part \in 1 .. (off + RecLen) - (off + 1) + 1 /\ (off + 1) + part - 1 = off + part
      BY <1>1
    <2> QED
      BY <1>3, <2>1
  <1> QED
    BY <1>4, <1>5 DEF piece

(* What Append adds.                                                        *)
LEMMA Appended ==
  ASSUME NEW S, NEW s \in Seq(S), NEW e \in S, NEW n \in DOMAIN Append(s, e)
  PROVE  \/ n \in 1 .. Len(s) /\ n \in DOMAIN s /\ Append(s, e)[n] = s[n]
         \/ n = Len(s) + 1 /\ Append(s, e)[n] = e
  <1>1. Len(s) \in Nat /\ DOMAIN s = 1 .. Len(s)
    BY LenProperties
  <1>2. n \in 1 .. Len(s) + 1
    BY <1>1, AppendProperties, LenProperties
  <1>3. CASE n \in 1 .. Len(s)
    BY <1>1, <1>3, AppendProperties
  <1>4. CASE n = Len(s) + 1
    BY <1>4, AppendProperties
  <1> QED
    BY <1>1, <1>2, <1>3, <1>4

(* The piece the reader takes from an aligned file is aligned.              *)
LEMMA PieceRead ==
  ASSUME TypeInv, Aligned, off + RecLen <= Len(file), NEW first \in Firsts
  PROVE  /\ Piece(SubSeq(file, off + 1, off + RecLen), 0, first, LastOf(first))
         /\ AtRecord(off + RecLen)
  <1> DEFINE piece == SubSeq(file, off + 1, off + RecLen)
  <1>1. off \in Nat /\ Len(file) \in Nat /\ RecLen \in Nat
    BY LenProperties, Lengths DEF TypeInv, TypeOK
  <1>2. PICK q \in Slots : off = Start(q)
    BY DEF Aligned, AtRecord
  <1>3. first \in Nat /\ LastOf(first) \in Nat /\ 1 <= first /\ first <= LastOf(first)
        /\ LastOf(first) <= RecLen
    BY StretchBounds, Lengths
  <1>4. \A part \in 1 .. RecLen : piece[0 + part] = file[off + part]
    <2>1. \A part \in 1 .. RecLen : piece[part] = file[off + part]
      BY PieceUnits
    <2>2. \A part \in 1 .. RecLen : 0 + part = part
      BY <1>1
    <2> QED
      BY <2>1, <2>2, Zenon
  <1>5. Piece(file, off, first, LastOf(first))
    <2>1. Start(q) + first <= Len(file)
      BY <1>1, <1>2, <1>3
    <2> QED
      BY <1>2, <2>1 DEF Aligned, FileAligned
  <1> HIDE DEF piece
  <1>6. \A part \in first .. LastOf(first) : piece[0 + part] = file[off + part]
    BY <1>1, <1>3, <1>4
  <1>7. first \in first .. LastOf(first)
    BY <1>3
  <1>8. Piece(piece, 0, first, LastOf(first))
    BY <1>5, <1>6, <1>7, Zenon DEF Piece
  <1>9. AtRecord(off + RecLen)
    <2>1. q + 1 \in Slots /\ off + RecLen = Start(q + 1)
      BY <1>2, StartProperties DEF Slots
    <2> QED
      BY <2>1 DEF AtRecord
  <1> QED
    BY <1>8, <1>9 DEF piece

(* No step that succeeds takes the file, its writers or its reader out of   *)
(* alignment, whoever has the log open.                                     *)
LEMMA AlignedStep ==
  ASSUME TypeInv, Aligned, [Next]_vars, bad' = 0
  PROVE  Aligned'
  <1>0. /\ file \in Seq(AUnit) /\ pos \in [Runs -> Nat]
        /\ rec \in [Runs -> 1 .. MaxRecords + 1]
        /\ writer \in [Runs -> {"creat", "header", "body", "ended"}]
        /\ out \in Seq(Seq(AUnit))
    BY DEF TypeInv, TypeOK
  <1>1. ASSUME NEW n \in Runs, Creat(n) PROVE Aligned'
    <2>1. /\ file' = <<>> /\ pos' = pos /\ off' = off /\ out' = out
          /\ writer[n] = "creat" /\ writer' = [writer EXCEPT ![n] = "header"]
      BY <1>1 DEF Creat, Opens, readerVars
    <2>2. FileAligned(file') /\ ~PastHeader(Len(file'))
      <3>1. Len(<<>>) = 0
        BY EmptySeq
      <3> QED
        BY <2>1, <3>1, NothingAtStart, NotBoth
    <2>3. \A m \in Runs : /\ writer'[m] \in {"creat", "header"} => AtRecord(pos'[m])
                          /\ writer'[m] = "body" => PastHeader(pos'[m])
      BY <1>0, <2>1 DEF Aligned
    <2> QED
      BY <2>1, <2>2, <2>3 DEF Aligned
  <1>2. ASSUME NEW n \in Runs, LogHeader(n) PROVE Aligned'
    <2>1. rec[n] \in 1 .. MaxRecords /\ writer[n] = "header"
      BY <1>0, <1>2, RecordsAssumption DEF LogHeader, Writing
    <2>2. PICK q \in Slots : pos[n] = Start(q)
      BY <2>1 DEF Aligned, AtRecord
    <2>3. 1 \in Firsts /\ pos[n] = Start(q) + 1 - 1
      BY <2>2, StartProperties DEF Firsts
    <2>4. IsStretch(Units(n, rec[n], 1, HeaderLen, "header"), n, rec[n], 1)
      BY <2>1, WholeStretches
    <2>5. Stores(n, Units(n, rec[n], 1, HeaderLen, "header"), "body")
      BY <1>2 DEF LogHeader
    <2> QED
      BY <2>1, <2>3, <2>4, <2>5, WriteAligned
  <1>3. ASSUME NEW n \in Runs, LogBody(n) PROVE Aligned'
    <2>1. rec[n] \in 1 .. MaxRecords /\ writer[n] = "body"
      BY <1>0, <1>3, RecordsAssumption DEF LogBody, TypeInv
    <2>2. PICK q \in Slots : pos[n] = Start(q) + HeaderLen
      BY <2>1 DEF Aligned, PastHeader
    <2>3. /\ HeaderLen + 1 \in Firsts /\ HeaderLen + 1 # 1
          /\ pos[n] = Start(q) + (HeaderLen + 1) - 1
      BY <2>2, StartProperties, Lengths DEF Firsts
    <2>4. PICK caller \in Callers :
            Stores(n, Units(n, rec[n], HeaderLen + 1, RecLen, Excerpt(caller)), "header")
      BY <1>3 DEF LogBody
    <2>5. Excerpt(caller) \in {"header", "zeros", "body"}
      BY DEF Excerpt
    <2>6. IsStretch(Units(n, rec[n], HeaderLen + 1, RecLen, Excerpt(caller)), n, rec[n],
                    HeaderLen + 1)
      BY <2>1, <2>5, WholeStretches
    <2> QED
      BY <2>1, <2>3, <2>4, <2>6, WriteAligned
  <1>4. ASSUME NEW n \in Runs, WriterEnds(n) PROVE Aligned'
    <2>1. /\ file' = file /\ pos' = pos /\ off' = off /\ out' = out
          /\ writer' = [writer EXCEPT ![n] = "ended"]
      BY <1>4 DEF WriterEnds, readerVars
    <2>2. \A m \in Runs : writer'[m] = IF m = n THEN "ended" ELSE writer[m]
      BY <1>0, <2>1
    <2> QED
      BY <2>1, <2>2 DEF Aligned
  <1>5. CASE DumpRecord
    <2>1. /\ file' = file /\ pos' = pos /\ writer' = writer /\ off' = off + RecLen
          /\ out' = Append(out, SubSeq(file, off + 1, off + RecLen))
      BY <1>5 DEF DumpRecord, writerVars
    <2>2. off + RecLen <= Len(file)
      BY <1>5, ReaderAligned DEF DumpRecord
    <2>3. AtRecord(off')
      <3>1. 1 \in Firsts
        BY DEF Firsts
      <3> QED
        BY <2>1, <2>2, <3>1, PieceRead
    <2>4. ASSUME NEW n \in DOMAIN out', NEW first \in Firsts
          PROVE  Piece(out'[n], 0, first, LastOf(first))
      <3>1. \/ n \in DOMAIN out /\ out'[n] = out[n]
            \/ out'[n] = SubSeq(file, off + 1, off + RecLen)
        <4>1. SubSeq(file, off + 1, off + RecLen) \in Seq(AUnit)
          BY <2>2, PieceUnits
        <4> QED
          BY <1>0, <2>1, <4>1, Appended
      <3> QED
        BY <2>2, <3>1, PieceRead DEF Aligned
    <2> QED
      BY <2>1, <2>3, <2>4 DEF Aligned
  <1>6. CASE DumpOpen \/ DumpEnd \/ DumpTorn \/ UNCHANGED vars
    <2>1. file' = file /\ pos' = pos /\ writer' = writer /\ off' = off /\ out' = out
      BY <1>6 DEF DumpOpen, DumpEnd, DumpTorn, vars, writerVars, readerVars
    <2> QED
      BY <2>1 DEF Aligned
  <1> QED
    BY <1>1, <1>2, <1>3, <1>4, <1>5, <1>6, BadGrows
       DEF Next, Writer, Reader, Finished

(* Unless a write failed or fell short, the file is made of whole parts,    *)
(* and so is what has been read of it.                                      *)
LEMMA AlignedCorrect == Spec => []AlignedInv
  <1>1. Init => AlignedInv
    <2> SUFFICES ASSUME Init PROVE Aligned
      BY DEF AlignedInv
    <2>1. /\ file = <<>> /\ off = 0 /\ out = <<>>
          /\ \A n \in Runs : writer[n] = "creat" /\ pos[n] = 0
      BY DEF Init
    <2>2. Len(file) = 0 /\ DOMAIN out = {}
      <3>1. out \in Seq(AUnit) /\ Len(out) = 0 /\ Len(file) = 0
        BY <2>1, EmptySeq
      <3>2. DOMAIN out = 1 .. 0
        BY <3>1, LenProperties
      <3> QED
        BY <3>1, <3>2
    <2> QED
      BY <2>1, <2>2, NothingAtStart, NotBoth DEF Aligned
  <1>2. TypeInv /\ AlignedInv /\ [Next]_vars => AlignedInv'
    BY AlignedStep, BadGrows DEF AlignedInv
  <1> QED
    BY <1>1, <1>2, TypeCorrect, PTL DEF Spec

(* As long as no write has failed or fallen short, processes that share a   *)
(* log may overwrite each other's records, but whatever dumplogfile prints, *)
(* its header is a header of one record, or zeros, and its excerpt an       *)
(* excerpt: for every length of the two and any number of processes.        *)
THEOREM SharingNeverShiftsCorrect == Spec => []SharingNeverShifts
  <1>1. TypeInv /\ AlignedInv => SharingNeverShifts
    <2> SUFFICES ASSUME TypeInv, AlignedInv, bad = 0, NEW n \in DOMAIN out
                 PROVE  /\ OneRecord(out[n], 1, HeaderLen) \/ AllHoles(out[n], 1, HeaderLen)
                        /\ \/ OneRecord(out[n], HeaderLen + 1, RecLen)
                           \/ AllHoles(out[n], HeaderLen + 1, RecLen)
      BY DEF SharingNeverShifts
    <2>1. \A first \in Firsts : Piece(out[n], 0, first, LastOf(first))
      BY DEF AlignedInv, Aligned
    <2>2. /\ Piece(out[n], 0, 1, HeaderLen)
          /\ Piece(out[n], 0, HeaderLen + 1, RecLen)
      BY <2>1, Lengths DEF Firsts, LastOf
    <2>3. ASSUME NEW first \in 1 .. RecLen, NEW last \in 1 .. RecLen, first <= last,
                 Piece(out[n], 0, first, last)
          PROVE  OneRecord(out[n], first, last) \/ AllHoles(out[n], first, last)
      <3>1. \A part \in first .. last : 0 + part = part
        BY Lengths
      <3>2. 0 + first = first
        BY Lengths
      <3> QED
        BY <2>3, <3>1, <3>2, Zenon DEF Piece, OneRecord, AllHoles
    <2>4. /\ 1 \in 1 .. RecLen /\ HeaderLen \in 1 .. RecLen /\ 1 <= HeaderLen
          /\ HeaderLen + 1 \in 1 .. RecLen /\ RecLen \in 1 .. RecLen /\ HeaderLen + 1 <= RecLen
      BY Lengths
    <2> QED
      BY <2>2, <2>3, <2>4
  <1> QED
    BY <1>1, TypeCorrect, AlignedCorrect, PTL

(* dumplogfile gives up, no write having failed or fallen short, only when  *)
(* the file ends in a header whose writer is between its two writes, or was *)
(* killed there: also of a log that is shared.                              *)
THEOREM TornOnlyInBetweenCorrect == Spec => TornOnlyInBetween
  <1>1. TypeInv /\ AlignedInv /\ [Next]_vars
          => [reader = "reading" /\ reader' = "failed" /\ bad = 0
                => /\ Len(file) = off + HeaderLen
                   /\ \E n \in Runs : pos[n] = Len(file) /\ writer[n] \in {"body", "ended"}]_vars
    <2> SUFFICES ASSUME TypeInv, AlignedInv, [Next]_vars,
                        reader = "reading", reader' = "failed", bad = 0
                 PROVE  /\ Len(file) = off + HeaderLen
                        /\ \E n \in Runs : pos[n] = Len(file) /\ writer[n] \in {"body", "ended"}
      OBVIOUS
    <2>1. Aligned
      BY DEF AlignedInv
    <2>2. DumpTorn
      <3>1. reader' # reader
        OBVIOUS
      <3>2. \A n \in Runs : ~Writer(n)
        BY <3>1
           DEF Writer, Creat, Opens, LogHeader, LogHeaderShort, LogHeaderFails, LogBody,
               LogBodyBad, Stores, WriterEnds, readerVars
      <3>3. ~DumpOpen /\ ~DumpRecord /\ ~DumpEnd
        BY DEF DumpOpen, DumpRecord, DumpEnd
      <3> QED
        BY <3>1, <3>2, <3>3 DEF Next, Reader, Finished, vars, readerVars
    <2>3. Len(file) = off + HeaderLen
      BY <2>1, <2>2, ReaderAligned DEF DumpTorn
    <2>4. PastHeader(Len(file))
      BY <2>1, <2>3 DEF Aligned, AtRecord, PastHeader
    <2> QED
      BY <2>1, <2>3, <2>4 DEF Aligned
  <1> QED
    BY <1>1, TypeCorrect, AlignedCorrect, PTL DEF Spec, TornOnlyInBetween

-----------------------------------------------------------------------------
(* One process at a time: whole records *)

\* As long as, besides, one process at a time has the log open: it stands at the
\* end of the file, which holds its records from the first on and nothing else;
\* and what was read of it is as many whole records, from the first on.
Alone ==
  /\ \A m, n \in Runs : HasOpen(m) /\ HasOpen(n) => m = n
  /\ \A n \in Runs :
       /\ writer[n] = "creat" => pos[n] = 0 /\ rec[n] = 1
       /\ writer[n] = "header" => pos[n] = Len(file) /\ pos[n] = Start(rec[n])
       /\ writer[n] = "body" => pos[n] = Len(file) /\ pos[n] = Start(rec[n]) + HeaderLen
       /\ HasOpen(n) => \A i \in 1 .. Len(file) : file[i].run = n
  /\ \A i, j \in 1 .. Len(file) : file[i].run = file[j].run
  /\ \A q \in Slots : \A part \in 1 .. RecLen :
       Start(q) + part <= Len(file) =>
         file[Start(q) + part].rec = q /\ file[Start(q) + part].part = part
  /\ off = Start(Len(out) + 1)
  /\ \A n \in DOMAIN out : \A part \in 1 .. RecLen :
       /\ out[n][part].run = out[n][1].run
       /\ out[n][part].rec = n /\ out[n][part].part = part

AloneInv == bad = 0 /\ ~shared => Alone

(* Of the parts of all records, those of the r-th lie behind its start.     *)
LEMMA PlaceOfPart ==
  ASSUME NEW q \in Slots, NEW r \in Slots, NEW part \in 1 .. RecLen,
         Start(r) < Start(q) + part, Start(q) + part <= Start(r) + RecLen
  PROVE  q = r
  <1>1. Start(q) \in Nat /\ Start(r) \in Nat
    BY StartProperties
  <1>2. ASSUME q < r PROVE FALSE
    <2>1. Start(q) + RecLen <= Start(r)
      BY <1>2, StartProperties
    <2> QED
      BY <1>1, <2>1, Lengths
  <1>3. ASSUME r < q PROVE FALSE
    <2>1. Start(r) + RecLen <= Start(q)
      BY <1>3, StartProperties
    <2> QED
      BY <1>1, <2>1, Lengths
  <1> QED
    BY <1>2, <1>3 DEF Slots

\* File g is file f with a header or an excerpt of this record behind it.
IsAddition(g, f, n, r, first) ==
  /\ Len(g) = Len(f) + (LastOf(first) - first + 1)
  /\ \A i \in 1 .. Len(f) : g[i] = f[i]
  /\ \A i \in 1 .. LastOf(first) - first + 1 :
       /\ g[Len(f) + i].run = n /\ g[Len(f) + i].rec = r
       /\ g[Len(f) + i].part = first + i - 1

(* The units of a write at the end of a file are put behind it.             *)
LEMMA WrittenAtEnd ==
  ASSUME NEW f, f \in Seq(AUnit), NEW n, NEW r, NEW first \in Firsts,
         NEW units, IsStretch(units, n, r, first)
  PROVE  IsAddition(WrittenAt(f, Len(f), units), f, n, r, first)
  <1> DEFINE g == WrittenAt(f, Len(f), units)
             k == LastOf(first) - first + 1
  <1>1. /\ units \in Seq(AUnit) /\ Len(units) = k
        /\ \A i \in 1 .. k : units[i].run = n /\ units[i].rec = r /\ units[i].part = first + i - 1
    BY DEF IsStretch, AreUnits
  <1>2. k \in Nat /\ k > 0
    BY StretchBounds, Lengths
  <1>3. Len(f) \in Nat
    BY LenProperties
  <1> HIDE DEF g, k
  <1>4. units # <<>>
    BY <1>1, <1>2, EmptySeq
  <1>5. /\ Len(g) = IF Len(f) + k > Len(f) THEN Len(f) + k ELSE Len(f)
        /\ \A i \in 1 .. Len(g) :
             g[i] = IF i \in Len(f) + 1 .. Len(f) + k THEN units[i - Len(f)]
                    ELSE IF i <= Len(f) THEN f[i] ELSE Hole
    BY <1>1, <1>3, <1>4, WrittenAtProperties DEF g
  <1>6. Len(g) = Len(f) + k
    BY <1>2, <1>3, <1>5
  <1>7. ASSUME NEW i \in 1 .. Len(f) PROVE g[i] = f[i]
    <2>1. i \in 1 .. Len(g) /\ i \notin Len(f) + 1 .. Len(f) + k /\ i <= Len(f)
      BY <1>2, <1>3, <1>6
    <2> QED
      BY <1>5, <2>1
  <1>8. ASSUME NEW i \in 1 .. k
        PROVE  /\ g[Len(f) + i].run = n /\ g[Len(f) + i].rec = r
               /\ g[Len(f) + i].part = first + i - 1
    <2>1. /\ Len(f) + i \in 1 .. Len(g) /\ Len(f) + i \in Len(f) + 1 .. Len(f) + k
          /\ (Len(f) + i) - Len(f) = i
      BY <1>2, <1>3, <1>6
    <2>2. g[Len(f) + i] = units[i]
      BY <1>5, <2>1
    <2> QED
      BY <1>1, <2>2
  <1> QED
    BY <1>6, <1>7, <1>8 DEF g, k, IsAddition

(* The one writer puts the next header or excerpt behind what is there.     *)
LEMMA WriteAlone ==
  ASSUME TypeInv, Alone, NEW n \in Runs, NEW first \in Firsts, NEW units,
         IsStretch(units, n, rec[n], first), NEW next, Stores(n, units, next),
         \/ first = 1 /\ writer[n] = "header" /\ next = "body"
         \/ first # 1 /\ writer[n] = "body" /\ next = "header"
  PROVE  Alone'
  <1> DEFINE r == rec[n]
             k == LastOf(first) - first + 1
  <1>1. /\ file' = WrittenAt(file, pos[n], units)
        /\ pos' = [pos EXCEPT ![n] = @ + Len(units)]
        /\ writer' = [writer EXCEPT ![n] = next]
        /\ rec' = [rec EXCEPT ![n] = IF next = "header" THEN @ + 1 ELSE @]
        /\ off' = off /\ out' = out
    BY DEF Stores, readerVars
  <1>2. /\ pos \in [Runs -> Nat] /\ file \in Seq(AUnit)
        /\ writer \in [Runs -> {"creat", "header", "body", "ended"}]
        /\ rec \in [Runs -> 1 .. MaxRecords + 1]
    BY DEF TypeInv, TypeOK
  <1>3. r \in Slots /\ r + 1 \in Slots
    BY <1>2, RecordsAssumption DEF Slots
  <1>4. first \in Nat /\ LastOf(first) \in Nat /\ 1 <= first /\ first <= LastOf(first)
        /\ LastOf(first) <= RecLen /\ k \in Nat /\ k > 0
    BY StretchBounds, Lengths
  <1>5. Start(r) \in Nat /\ Start(r + 1) = Start(r) + RecLen
    BY <1>3, StartProperties
  <1>6. HasOpen(n) /\ pos[n] = Len(file) /\ pos[n] = Start(r) + first - 1
    <2>1. CASE first = 1
      BY <1>5, <2>1 DEF Alone, HasOpen
    <2>2. CASE first # 1
      BY <1>5, <2>2, StretchBounds, Lengths DEF Alone, HasOpen
    <2> QED
      BY <2>1, <2>2
  <1>7. Len(units) = k
    BY DEF IsStretch, AreUnits
  <1> HIDE DEF r, k
  <1>8. /\ Len(file') = Len(file) + k
        /\ \A i \in 1 .. Len(file) : file'[i] = file[i]
        /\ \A i \in 1 .. k :
             /\ file'[Len(file) + i].run = n /\ file'[Len(file) + i].rec = r
             /\ file'[Len(file) + i].part = first + i - 1
    <2>1. IsAddition(WrittenAt(file, Len(file), units), file, n, r, first)
      BY <1>2, WrittenAtEnd DEF r
    <2>2. IsAddition(file', file, n, r, first)
      BY <1>1, <1>6, <2>1
    <2> QED
      BY <2>2 DEF IsAddition, k
  <1>9. Len(file) \in Nat /\ Len(file') = Start(r) + LastOf(first)
    <2>1. Len(file) \in Nat
      BY <1>2, LenProperties
    <2>2. Len(file') = Len(file) + k
      BY <1>8
    <2>3. Len(file) = Start(r) + first - 1
      BY <1>6
    <2> QED
      BY <1>4, <1>5, <2>1, <2>2, <2>3 DEF k
  <1>10. /\ pos'[n] = Len(file') /\ writer'[n] = next
         /\ rec'[n] = IF next = "header" THEN r + 1 ELSE r
         /\ \A m \in Runs : m # n => pos'[m] = pos[m] /\ writer'[m] = writer[m] /\ rec'[m] = rec[m]
    BY <1>1, <1>2, <1>6, <1>7, <1>8 DEF r
  <1>11. \A m \in Runs : m # n => writer[m] \notin {"header", "body"}
    BY <1>6 DEF Alone, HasOpen
  <1>12. \A m \in Runs : HasOpen(m)' => m = n
    BY <1>10, <1>11 DEF HasOpen
  <1>13. \A i \in 1 .. Len(file') : file'[i].run = n
    <2> SUFFICES ASSUME NEW i \in 1 .. Len(file') PROVE file'[i].run = n
      OBVIOUS
    <2>1. CASE i \in 1 .. Len(file)
      BY <1>6, <1>8, <2>1 DEF Alone
    <2>2. CASE i \notin 1 .. Len(file)
      <3>1. i - Len(file) \in 1 .. k /\ Len(file) + (i - Len(file)) = i
        BY <1>4, <1>8, <1>9, <2>2 DEF k
      <3> QED
        BY <1>8, <3>1
    <2> QED
      BY <2>1, <2>2
  <1>14. ASSUME NEW q \in Slots, NEW part \in 1 .. RecLen, Start(q) + part <= Len(file')
         PROVE  file'[Start(q) + part].rec = q /\ file'[Start(q) + part].part = part
    <2>1. Start(q) \in Nat
      BY StartProperties
    <2>2. CASE Start(q) + part <= Len(file)
      <3>1. Start(q) + part \in 1 .. Len(file)
        BY <1>9, <2>1, <2>2
      <3> QED
        BY <1>8, <2>2, <3>1 DEF Alone
    <2>3. CASE ~(Start(q) + part <= Len(file))
      <3>1. Start(r) < Start(q) + part /\ Start(q) + part <= Start(r) + RecLen
        BY <1>4, <1>5, <1>6, <1>9, <1>14, <2>1, <2>3, Lengths
      <3>2. q = r
        BY <1>3, <3>1, PlaceOfPart
      <3> DEFINE i == (Start(r) + part) - Len(file)
      <3>3. i \in 1 .. k /\ Len(file) + i = Start(r) + part /\ first + i - 1 = part
        <4>1. Len(file) = Start(r) + first - 1
          BY <1>6
        <4>2. Start(r) + part <= Len(file') /\ ~(Start(r) + part <= Len(file))
          BY <1>14, <2>3, <3>2
        <4>3. part \in Nat
          BY Lengths
        <4>4. part \in first .. LastOf(first)
          BY <1>4, <1>5, <1>9, <4>1, <4>2, <4>3
        <4>5. /\ (Start(r) + part) - (Start(r) + first - 1) \in 1 .. LastOf(first) - first + 1
              /\ first + ((Start(r) + part) - (Start(r) + first - 1)) - 1 = part
          BY <1>4, <1>5, <4>4, Offsets
        <4>6. (Start(r) + first - 1) + ((Start(r) + part) - (Start(r) + first - 1)) = Start(r) + part
          BY <1>4, <1>5, <4>3
        <4> QED
          BY <4>1, <4>5, <4>6, Zenon DEF k
      <3> HIDE DEF i
      <3> QED
        BY <1>8, <3>2, <3>3
    <2> QED
      BY <2>2, <2>3
  <1>15. /\ writer'[n] = "header" => pos'[n] = Start(rec'[n])
         /\ writer'[n] = "body" => pos'[n] = Start(rec'[n]) + HeaderLen
    <2>1. CASE first = 1
      BY <1>9, <1>10, <2>1, StretchBounds
    <2>2. CASE first # 1
      BY <1>5, <1>9, <1>10, <2>2, StretchBounds
    <2> QED
      BY <2>1, <2>2
  <1>16. \A m \in Runs :
           /\ writer'[m] = "creat" => pos'[m] = 0 /\ rec'[m] = 1
           /\ writer'[m] = "header" => pos'[m] = Len(file') /\ pos'[m] = Start(rec'[m])
           /\ writer'[m] = "body" => pos'[m] = Len(file') /\ pos'[m] = Start(rec'[m]) + HeaderLen
    BY <1>10, <1>11, <1>15 DEF Alone
  <1> QED
    BY <1>1, <1>12, <1>13, <1>14, <1>16 DEF Alone

(* A step that leaves the file and the writers alone, or ends one.          *)
LEMMA AloneKept ==
  ASSUME Alone, file' = file, pos' = pos, rec' = rec, off' = off, out' = out,
         \A n \in Runs : writer'[n] \in {writer[n], "ended"}
  PROVE  Alone'
  <1>1. \A n \in Runs : HasOpen(n)' => HasOpen(n)
    BY DEF HasOpen
  <1>2. \A n \in Runs : writer'[n] \in {"creat", "header", "body"} => writer'[n] = writer[n]
    OBVIOUS
  <1> QED
    BY <1>1, <1>2 DEF Alone

(* Every step keeps the records of a log that is not shared in the order    *)
(* they were written.                                                       *)
LEMMA AloneStep ==
  ASSUME TypeInv, Aligned, Alone, [Next]_vars, bad' = 0, ~shared'
  PROVE  Alone'
  <1>0. /\ file \in Seq(AUnit) /\ pos \in [Runs -> Nat]
        /\ rec \in [Runs -> 1 .. MaxRecords + 1]
        /\ writer \in [Runs -> {"creat", "header", "body", "ended"}]
        /\ out \in Seq(Seq(AUnit))
    BY DEF TypeInv, TypeOK
  <1>1. ASSUME NEW n \in Runs, Creat(n) PROVE Alone'
    <2>1. /\ file' = <<>> /\ pos' = pos /\ off' = off /\ out' = out /\ rec' = rec
          /\ writer[n] = "creat" /\ writer' = [writer EXCEPT ![n] = "header"]
          /\ Open = {}
      BY <1>1 DEF Creat, Opens, readerVars
    <2>2. \A m \in Runs : writer[m] \notin {"header", "body"}
      BY <2>1 DEF Open, HasOpen
    <2>3. \A m \in Runs : writer'[m] = IF m = n THEN "header" ELSE writer[m]
      BY <1>0, <2>1
    <2>4. Len(file') = 0
      BY <2>1, EmptySeq
    <2>5. pos[n] = 0 /\ rec[n] = 1 /\ Start(1) = 0
      BY <2>1, StartProperties DEF Alone
    <2>6. \A q \in Slots : \A part \in 1 .. RecLen : ~(Start(q) + part <= 0)
      BY StartProperties, Lengths
    <2>7. \A m \in Runs : HasOpen(m)' => m = n
      BY <2>2, <2>3 DEF HasOpen
    <2>8. \A m \in Runs :
            /\ writer'[m] = "creat" => pos'[m] = 0 /\ rec'[m] = 1
            /\ writer'[m] = "header" => pos'[m] = Len(file') /\ pos'[m] = Start(rec'[m])
            /\ writer'[m] # "body"
      BY <2>1, <2>2, <2>3, <2>4, <2>5 DEF Alone
    <2>9. \A i \in 1 .. Len(file') : FALSE
      BY <2>4
    <2> QED
      BY <2>1, <2>4, <2>6, <2>7, <2>8, <2>9 DEF Alone
  <1>2. ASSUME NEW n \in Runs, LogHeader(n) PROVE Alone'
    <2>1. rec[n] \in 1 .. MaxRecords /\ writer[n] = "header" /\ 1 \in Firsts
      BY <1>0, <1>2, RecordsAssumption DEF LogHeader, Writing, Firsts
    <2>2. IsStretch(Units(n, rec[n], 1, HeaderLen, "header"), n, rec[n], 1)
      BY <2>1, WholeStretches
    <2>3. Stores(n, Units(n, rec[n], 1, HeaderLen, "header"), "body")
      BY <1>2 DEF LogHeader
    <2> QED
      BY <2>1, <2>2, <2>3, WriteAlone
  <1>3. ASSUME NEW n \in Runs, LogBody(n) PROVE Alone'
    <2>1. rec[n] \in 1 .. MaxRecords /\ writer[n] = "body"
      BY <1>0, <1>3, RecordsAssumption DEF LogBody, TypeInv
    <2>2. HeaderLen + 1 \in Firsts /\ HeaderLen + 1 # 1
      BY Lengths DEF Firsts
    <2>3. PICK caller \in Callers :
            Stores(n, Units(n, rec[n], HeaderLen + 1, RecLen, Excerpt(caller)), "header")
      BY <1>3 DEF LogBody
    <2>4. Excerpt(caller) \in {"header", "zeros", "body"}
      BY DEF Excerpt
    <2>5. IsStretch(Units(n, rec[n], HeaderLen + 1, RecLen, Excerpt(caller)), n, rec[n],
                    HeaderLen + 1)
      BY <2>1, <2>4, WholeStretches
    <2> QED
      BY <2>1, <2>2, <2>3, <2>5, WriteAlone
  <1>4. ASSUME NEW n \in Runs, WriterEnds(n) PROVE Alone'
    <2>1. /\ file' = file /\ pos' = pos /\ rec' = rec /\ off' = off /\ out' = out
          /\ writer' = [writer EXCEPT ![n] = "ended"]
      BY <1>4 DEF WriterEnds, readerVars
    <2>2. \A m \in Runs : writer'[m] \in {writer[m], "ended"}
      BY <1>0, <2>1
    <2> QED
      BY <2>1, <2>2, AloneKept
  <1>5. CASE DumpRecord
    <2> DEFINE piece == SubSeq(file, off + 1, off + RecLen)
               q == Len(out) + 1
    <2>1. /\ file' = file /\ pos' = pos /\ writer' = writer /\ rec' = rec
          /\ off' = off + RecLen /\ out' = Append(out, piece)
      BY <1>5 DEF DumpRecord, writerVars
    <2>2. off + RecLen <= Len(file)
      BY <1>5, ReaderAligned DEF DumpRecord
    <2>3. piece \in Seq(AUnit) /\ \A part \in 1 .. RecLen : piece[part] = file[off + part]
      BY <2>2, PieceUnits
    <2>4. q \in Slots /\ off = Start(q) /\ Start(q) \in Nat /\ Start(q + 1) = Start(q) + RecLen
      <3>1. Len(out) \in Nat
        BY <1>0, LenProperties
      <3>2. q \in Slots
        BY <3>1 DEF Slots
      <3> QED
        BY <3>2, StartProperties DEF Alone
    <2> HIDE DEF piece
    <2>5. off' = Start(Len(out') + 1)
      <3>1. Len(out') = Len(out) + 1
        BY <1>0, <2>1, <2>3, AppendProperties
      <3> QED
        BY <2>1, <2>4, <3>1
    <2>6. ASSUME NEW part \in 1 .. RecLen
          PROVE  /\ piece[part].run = piece[1].run
                 /\ piece[part].rec = q /\ piece[part].part = part
      <3>1. Len(file) \in Nat /\ RecLen \in Nat /\ 1 \in 1 .. RecLen
        BY <1>0, LenProperties, Lengths
      <3>2. off + part \in 1 .. Len(file) /\ off + 1 \in 1 .. Len(file)
        BY <2>2, <2>4, <3>1
      <3>3. file[off + part].run = file[off + 1].run
        BY <3>2 DEF Alone
      <3>4. Start(q) + part <= Len(file)
        BY <2>2, <2>4, <3>1
      <3>5. file[off + part].rec = q /\ file[off + part].part = part
        BY <2>4, <3>4 DEF Alone
      <3> QED
        BY <2>3, <3>1, <3>3, <3>5
    <2>7. ASSUME NEW n \in DOMAIN out', NEW part \in 1 .. RecLen
          PROVE  /\ out'[n][part].run = out'[n][1].run
                 /\ out'[n][part].rec = n /\ out'[n][part].part = part
      <3>1. \/ n \in DOMAIN out /\ out'[n] = out[n]
            \/ n = q /\ out'[n] = piece
        BY <1>0, <2>1, <2>3, Appended
      <3> QED
        BY <2>6, <3>1 DEF Alone
    <2> HIDE DEF q
    <2>8. \A n \in Runs : HasOpen(n)' <=> HasOpen(n)
      BY <2>1 DEF HasOpen
    <2> QED
      BY <2>1, <2>5, <2>7, <2>8 DEF Alone
  <1>6. CASE DumpOpen \/ DumpEnd \/ DumpTorn \/ UNCHANGED vars
    <2>1. /\ file' = file /\ pos' = pos /\ writer' = writer /\ rec' = rec
          /\ off' = off /\ out' = out
      BY <1>6 DEF DumpOpen, DumpEnd, DumpTorn, vars, writerVars, readerVars
    <2> QED
      BY <2>1, AloneKept
  <1> QED
    BY <1>1, <1>2, <1>3, <1>4, <1>5, <1>6, BadGrows
       DEF Next, Writer, Reader, Finished

(* Once the log has been shared, it has been.                               *)
LEMMA SharedStays ==
  ASSUME [Next]_vars, shared \in BOOLEAN, ~shared'
  PROVE  ~shared
  BY DEF Next, Writer, Creat, Opens, LogHeader, LogHeaderShort, LogHeaderFails, LogBody,
     LogBodyBad, Stores, WriterEnds, Reader, DumpOpen, DumpRecord, DumpEnd, DumpTorn,
     Finished, vars, writerVars, readerVars

(* A log no two processes had open holds the records in order.              *)
LEMMA AloneCorrect == Spec => []AloneInv
  <1>1. Init => AloneInv
    <2> SUFFICES ASSUME Init PROVE Alone
      BY DEF AloneInv
    <2>1. /\ file = <<>> /\ off = 0 /\ out = <<>>
          /\ \A n \in Runs : writer[n] = "creat" /\ pos[n] = 0 /\ rec[n] = 1
      BY DEF Init
    <2>2. Len(file) = 0 /\ Len(out) = 0 /\ DOMAIN out = {}
      <3>1. out \in Seq(AUnit) /\ Len(out) = 0 /\ Len(file) = 0
        BY <2>1, EmptySeq
      <3>2. DOMAIN out = 1 .. 0
        BY <3>1, LenProperties
      <3> QED
        BY <3>1, <3>2
    <2>3. off = Start(Len(out) + 1)
      BY <2>1, <2>2, StartProperties
    <2>4. \A q \in Slots : \A part \in 1 .. RecLen : ~(Start(q) + part <= Len(file))
      BY <2>2, StartProperties, Lengths
    <2>5. \A i \in 1 .. Len(file) : FALSE
      BY <2>2
    <2>6. \A n \in Runs : ~HasOpen(n)
      BY <2>1 DEF HasOpen
    <2> QED
      BY <2>1, <2>2, <2>3, <2>4, <2>5, <2>6 DEF Alone
  <1>2. TypeInv /\ AlignedInv /\ AloneInv /\ [Next]_vars => AloneInv'
    <2> SUFFICES ASSUME TypeInv, AlignedInv, AloneInv, [Next]_vars, bad' = 0, ~shared'
                 PROVE  Alone'
      BY DEF AloneInv
    <2>1. bad = 0
      BY BadGrows
    <2>2. ~shared
      BY SharedStays DEF TypeInv, TypeOK
    <2> QED
      BY <2>1, <2>2, AloneStep DEF AlignedInv, AloneInv
  <1> QED
    BY <1>1, <1>2, TypeCorrect, AlignedCorrect, PTL DEF Spec

(* As long as no write has failed or fallen short and one process at a time *)
(* has the log open, the n-th message dumplogfile prints is the n-th record *)
(* of one process, whole, whatever is killed and restarted meanwhile: for   *)
(* every length of header and excerpt and any number of processes.          *)
THEOREM DumpsWholeRecordsCorrect == Spec => []DumpsWholeRecords
  <1>1. AloneInv => DumpsWholeRecords
    <2> SUFFICES ASSUME AloneInv, bad = 0, ~shared, NEW n \in DOMAIN out
                 PROVE  OneRecord(out[n], 1, RecLen) /\ out[n][1].rec = n
      BY DEF DumpsWholeRecords
    <2>1. \A part \in 1 .. RecLen :
            /\ out[n][part].run = out[n][1].run
            /\ out[n][part].rec = n /\ out[n][part].part = part
      BY DEF AloneInv, Alone
    <2>2. 1 \in 1 .. RecLen
      BY Lengths
    <2> QED
      BY <2>1, <2>2, Zenon DEF OneRecord
  <1> QED
    BY <1>1, AloneCorrect, PTL
=============================================================================
