------------------------------ MODULE MixedList ------------------------------
(***************************************************************************)
(* The linked lists of ch3-memory/memory.cc that the cache measurements     *)
(* chase: MakeLinkedList, and MakeLongList with its scrambled order and its *)
(* "extra bit". A list is built in place in a byte buffer, one iteration of *)
(* the loop a step; then a measurement goes through it, several times over, *)
(* following as many pointers as it wants loads. No measurement looks for   *)
(* the null pointer: the list has to be long enough.                        *)
(*                                                                          *)
(* Offsets and sizes are in units of sizeof(Pair), 16 bytes.                *)
(***************************************************************************)
EXTENDS Integers, FiniteSets

CONSTANTS
  Calls,   \* the calls considered: records [kind, size, stride, extrabit, loads,
           \* passes]; a measurement makes so many passes, each of one of these
           \* numbers of loads
  Null     \* the next pointer of the last element

VARIABLES
  call,    \* the arguments: kind is "plain" for MakeLinkedList, "linear" or
           \* "mixed" for MakeLongList
  phase,   \* "build", "count", "idle", "measure", "crashed"
  i,       \* the loop variable
  pairptr, \* offset of the element whose next pointer is filled in next
  next,    \* offset -> offset or Null, where something was stored
  p,       \* the walker's element, or Null
  counted, \* history: elements from the root to the null pointer
  left,    \* loads left in this pass
  passes   \* passes made

vars == <<call, phase, i, pairptr, next, p, counted, left, passes>>

-----------------------------------------------------------------------------
(* The order of the elements *)

\* Exclusive or with `bit', a power of two.
FlipBit(x, bit) == IF (x \div bit) % 2 = 1 THEN x - bit ELSE x + bit

\* Exclusive or with POLY8, which is 29.
XorPoly8(x) == FlipBit(FlipBit(FlipBit(FlipBit(x, 16), 8), 4), 1)

\* Mutant of PolyShift8: the bit that falls out is lost.
PolyShift8NoFeedback(x) == (2 * x) % 256

\* POLYSHIFT8 on a byte: shift left, and fold the bit that falls out back in.
PolyShift8(x) == IF x < 128 THEN 2 * x ELSE XorPoly8(2 * x - 256)

Shift == [y \in 0 .. 255 |-> PolyShift8(y)]

\* The table of mixed-up offsets: 0, POLYINIT8, then one shift after the other.
mixedup ==
  LET x[n \in 1 .. 255] == IF n = 1 THEN 255 ELSE Shift[x[n - 1]]
  IN  [n \in 0 .. 255 |-> IF n = 0 THEN 0 ELSE x[n]]

\* 1 << 14 bytes.
ExtraBit == 1024

ElementCount(args) == args.size \div args.stride

\* Mutant of LongOffset: the low byte is added to n rather than put in its place.
LongOffsetUnmasked(args, n) ==
  LET offset == (IF args.kind = "linear" THEN n ELSE n + mixedup[n % 256]) * args.stride
  IN  IF args.kind = "mixed" /\ args.extrabit THEN FlipBit(offset, ExtraBit) ELSE offset

\* Where MakeLongList puts its n-th element. (The scrambled groups are of 256
\* whatever the count of elements is.)
LongOffset(args, n) ==
  LET mixed  == (n - (n % 256)) + mixedup[n % 256]
      offset == (IF args.kind = "linear" THEN n ELSE mixed) * args.stride
  IN  IF args.kind = "mixed" /\ args.extrabit THEN FlipBit(offset, ExtraBit) ELSE offset

\* The end of the groups of 256 that n elements take, the last one whole.
GroupsEnd(args) == 256 * args.stride * ((ElementCount(args) + 255) \div 256)

\* The elements MakeLongList puts over the root.
OverRoot(args) ==
  IF args.kind = "mixed"
  THEN {n \in 1 .. ElementCount(args) - 1 : LongOffset(args, n) = 0} ELSE {}

\* With an element over the root, those up to it are lost.
Lost(args) == IF OverRoot(args) = {} THEN 0 ELSE CHOOSE n \in OverRoot(args) : TRUE

\* Stores a next pointer at an offset, over what may have been there.
Store(f, offset, target) ==
  [o \in DOMAIN f \cup {offset} |-> IF o = offset THEN target ELSE f[o]]

-----------------------------------------------------------------------------
(* The strides of the measurements *)

KiB == 64     \* 1 KiB in units of 16 bytes

MaxCacheSize == 80 * 1024 * KiB

\* MeasureL1CacheLevelAssoc strides by the size of the L1 cache.
L1Stride == 32 * KiB

\* MeasureL2CacheLevelAssoc strides by a part of the L2 cache, for a guess of
\* its associativity smaller than that of L1.
L2Share(assoc) == IF 8 \div assoc > 1 THEN 8 \div assoc ELSE 1

L2Stride(assoc) ==
  IF assoc < 8 THEN (256 * KiB) \div L2Share(assoc) ELSE 256 * KiB

\* The loads of one of its passes for that guess: fetches_per_read.
L2Fetches(assoc) ==
  LET n == assoc * L2Share(assoc) + 1 IN IF n > 8 THEN n ELSE 8

\* The guesses of both.
Guesses == {1, 2, 4, 8, 16, 32, 64}

-----------------------------------------------------------------------------
(* What the calls are like *)

\* Every list has an element.
ASSUME CallsAssumption ==
  \A args \in Calls :
    /\ args.kind \in {"plain", "linear", "mixed"} /\ args.extrabit \in BOOLEAN
    /\ args.stride \in Nat \ {0} /\ args.size \in Nat /\ args.stride <= args.size
    /\ args.loads \subseteq Nat /\ args.passes \in Nat

\* Flipping the extra bit leads out of no whole group: without that a list would
\* not stay inside its groups.
ASSUME ExtraBitAssumption ==
  \A args \in Calls :
    args.kind = "mixed" /\ args.extrabit => GroupsEnd(args) % (2 * ExtraBit) = 0

\* No pass makes more loads than the list has elements, without the lost ones.
ASSUME LoadsAssumption ==
  \A args \in Calls : \A loads \in args.loads :
    Lost(args) + loads <= ElementCount(args)

ASSUME NullAssumption == Null \notin Int

-----------------------------------------------------------------------------

Init ==
  /\ call \in Calls
  /\ phase = "build"
  /\ i = IF call.kind = "plain" THEN 0 ELSE 1
  /\ pairptr = 0
  /\ next = <<>>
  /\ p = Null
  /\ counted = 0
  /\ left = 0
  /\ passes = 0

\* One iteration of MakeLinkedList. The first makes the root its own successor,
\* for the second to correct.
LinkPlain ==
  /\ phase = "build"
  /\ call.kind = "plain"
  /\ i < ElementCount(call)
  /\ next' = Store(next, pairptr, i * call.stride)
  /\ pairptr' = i * call.stride
  /\ i' = i + 1
  /\ UNCHANGED <<call, phase, p, counted, left, passes>>

\* One iteration of MakeLongList.
LinkLong ==
  /\ phase = "build"
  /\ call.kind # "plain"
  /\ i < ElementCount(call)
  /\ next' = Store(next, pairptr, LongOffset(call, i))
  /\ pairptr' = LongOffset(call, i)
  /\ i' = i + 1
  /\ UNCHANGED <<call, phase, p, counted, left, passes>>

\* Mutant of Terminate: the loop ends one element early.
TerminateEarly ==
  /\ phase = "build"
  /\ i >= ElementCount(call) - 1
  /\ next' = Store(next, pairptr, Null)
  /\ phase' = "count"
  /\ p' = 0
  /\ UNCHANGED <<call, i, pairptr, counted, left, passes>>

\* The last element; the caller gets a pointer to the root.
Terminate ==
  /\ phase = "build"
  /\ i >= ElementCount(call)
  /\ next' = Store(next, pairptr, Null)
  /\ phase' = "count"
  /\ p' = 0
  /\ UNCHANGED <<call, i, pairptr, counted, left, passes>>

\* The elements of the finished list are counted, for FullLength: the program
\* does not do so.
Count ==
  /\ phase = "count"
  /\ counted' = counted + 1
  /\ p' = next[p]
  /\ phase' = IF next[p] = Null THEN "idle" ELSE "count"
  /\ UNCHANGED <<call, i, pairptr, next, left, passes>>

\* A pass of AssocRead, ScrambledReads or a timing loop begins at the root.
BeginPass ==
  /\ phase = "idle"
  /\ passes < call.passes
  /\ passes' = passes + 1
  /\ \E loads \in call.loads : left' = loads
  /\ p' = 0
  /\ phase' = "measure"
  /\ UNCHANGED <<call, i, pairptr, next, counted>>

\* p = p->next, without a look at p.
Load ==
  /\ phase = "measure"
  /\ left > 0
  /\ left' = left - 1
  /\ IF p = Null
     THEN phase' = "crashed" /\ UNCHANGED p
     ELSE p' = next[p] /\ UNCHANGED phase
  /\ UNCHANGED <<call, i, pairptr, next, counted, passes>>

EndPass ==
  /\ phase = "measure"
  /\ left = 0
  /\ phase' = "idle"
  /\ UNCHANGED <<call, i, pairptr, next, p, counted, left, passes>>

Done ==
  /\ phase = "idle" /\ passes = call.passes
  /\ UNCHANGED vars

Next ==
  \/ LinkPlain \/ LinkLong \/ Terminate
  \/ Count
  \/ BeginPass \/ Load \/ EndPass
  \/ Done

Spec == Init /\ [][Next]_vars

-----------------------------------------------------------------------------
(* Properties *)

\* memory.cc: the list is created "in a byte array": every element written to,
\* and so every element walked, is inside the buffer of `bytesize' bytes.
InsideBuffer == pairptr < call.size

\* What is true of it: a scrambled list fills whole groups of 256 elements, and
\* stays inside the last of them. Where the groups fill the buffer that is all of
\* InsideBuffer, extra bit or not.
InsideGroups ==
  pairptr < IF call.kind = "mixed" THEN GroupsEnd(call) ELSE call.size

\* memory.cc: "The list will have floor(bytesize / bytestride) elements". They are
\* met from the root to the null pointer, and never more (there is no cycle,
\* although MakeLinkedList makes one and undoes it); but if the extra bit puts the
\* n-th over the root, those up to it are lost. No other element is put where there
\* is one: that would close a cycle.
FullLength ==
  /\ counted <= ElementCount(call)
  /\ phase = "idle" => /\ counted = ElementCount(call) - Lost(call)
                       /\ Cardinality(OverRoot(call)) <= 1

\* No measurement follows the null pointer, though none looks for it, elements
\* get lost, and some lists are made of few elements far apart.
NoNullFollowed == phase # "crashed"
=============================================================================
