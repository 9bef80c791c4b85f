--------------------------- MODULE MixedListProofs ---------------------------
(***************************************************************************)
(* Proofs about MixedList, for any calls within its assumptions: any sizes  *)
(* and strides, any numbers of loads and passes.                            *)
(*                                                                          *)
(* The scrambled order is a permutation of each group of 256, so no two     *)
(* elements but the root are ever put in one place, and what a later store  *)
(* of a next pointer can spoil is the root's, by the one element that the   *)
(* extra bit can put there.                                                 *)
(***************************************************************************)
EXTENDS MixedList, FiniteSetTheorems, WellFoundedInduction, TLAPS

-----------------------------------------------------------------------------
(* Numbers *)

(* A set of natural numbers has a least one.                                *)
LEMMA Least ==
  ASSUME NEW S \in SUBSET Nat, S # {}
  PROVE  \E n \in S : \A m \in S : n <= m
  <1> DEFINE Less == OpToRel(<, Nat)
  <1>1. IsWellFoundedOn(Less, Nat)
    BY NatLessThanWellFounded
  <1>2. \A n, m \in Nat : m < n => <<m, n>> \in Less
    BY DEF OpToRel
  <1> HIDE DEF Less
  <1>3. PICK n \in S : \A m \in S : ~(<<m, n>> \in Less)
    BY <1>1, WFMin
  <1>4. \A m \in S : ~(m < n)
    BY <1>2, <1>3
  <1> QED
    BY <1>4

(* So what holds of 0, and of the successor of any number it holds of, holds *)
(* of all.                                                                  *)
LEMMA Induction ==
  ASSUME NEW S, 0 \in S, \A n \in Nat : n \in S => n + 1 \in S
  PROVE  \A n \in Nat : n \in S
  <1> DEFINE T == {n \in Nat : n \notin S}
  <1> SUFFICES ASSUME T # {}
               PROVE  FALSE
    OBVIOUS
  <1>1. PICK n \in T : \A m \in T : n <= m
    BY Least
  <1>2. n \in Nat \ {0} /\ n - 1 \in Nat /\ n - 1 \notin T
    BY <1>1
  <1>3. n - 1 \in S
    BY <1>2
  <1>4. (n - 1) + 1 \in S
    BY <1>2, <1>3
  <1> QED
    BY <1>1, <1>2, <1>4

(* Products of numbers.                                                     *)
LEMMA MulLeq ==
  ASSUME NEW k \in Nat, NEW m \in Nat, NEW d \in Nat, k <= m
  PROVE  k * d <= m * d
  OBVIOUS

LEMMA MulType ==
  ASSUME NEW k \in Nat, NEW m \in Nat
  PROVE  k * m \in Nat
  OBVIOUS

(* A factor that is not 0 cancels.                                          *)
LEMMA MulCancel ==
  ASSUME NEW k \in Nat, NEW m \in Nat, NEW d \in Nat \ {0}, k * d = m * d
  PROVE  k = m
  <1>1. ASSUME k < m PROVE FALSE
    <2>1. (k + 1) * d <= m * d /\ (k + 1) * d = k * d + d
      BY <1>1, MulLeq
    <2> QED
      BY <2>1, MulType
  <1>2. ASSUME m < k PROVE FALSE
    <2>1. (m + 1) * d <= k * d /\ (m + 1) * d = m * d + d
      BY <1>2, MulLeq
    <2> QED
      BY <2>1, MulType
  <1> QED
    BY <1>1, <1>2

-----------------------------------------------------------------------------
(* The scrambled order *)

(* Which place each byte but 0 has in the order of POLYSHIFT8, from 255: the *)
(* shifts go through all of them before they come back.                     *)
Place ==
  <<81,  82, 106,  83, 131, 107,  24,  84,  49, 132,  64, 108, 185,  25, 156,  85,
    181,  50,  95, 133, 222,  65, 210, 109,  19, 186,  74,  26,  89, 157, 194,  86,
    219, 182, 128,  51, 117,  96, 114, 134, 228, 223,  44,  66,  99, 211, 150, 110,
      7,  20, 206, 187, 120,  75,  11,  27, 235,  90, 201, 158,  54, 195, 247,  87,
     17, 220, 179, 183,  47, 129,  79,  52, 233, 118,   5,  97, 226, 115, 217, 135,
     34, 229,  32, 224, 231,  45,  15,  67,  36, 100, 173, 212, 137, 151, 145, 111,
    147,   8, 244,  21, 153, 207, 191, 188, 139, 121, 165,  76, 214,  12, 142,  28,
    175, 236, 240,  91, 102, 202, 124, 159,  38,  55, 253, 196,  69, 248, 168,  88,
    193,  18,  73, 221, 209, 180,  94, 184, 155,  48,  63, 130,  23,  80, 105,  53,
    246, 234, 200, 119,  10,   6, 205,  98, 149, 227,  43, 116, 113, 218, 127, 136,
    144,  35, 172, 230,  14,  33,  31, 225, 216, 232,   4,  46,  78,  16, 178,  68,
    167,  37, 252, 101, 123, 174, 239, 213, 141, 138, 164, 152, 190, 146, 243, 112,
    126, 148,  42,   9, 204, 245, 199,  22, 104, 154,  62, 208,  93, 192,  72, 189,
    242, 140, 163, 122, 238, 166, 251,  77, 177, 215,   3,  13,  30, 143, 171,  29,
    170, 176,   2, 237, 250, 241, 162,  92,  71, 103,  61, 203, 198, 125,  41, 160,
    255,  39,  59,  56,  57, 254,  58, 197,  40,  70,  60, 249, 161, 169,   1>>

(* A shift leads to the byte in the next place.                             *)
LEMMA ShiftIsNext ==
  ASSUME NEW x \in 1 .. 255
  PROVE  /\ Place[x] \in 1 .. 255
         /\ PolyShift8(x) \in 1 .. 255
         /\ Place[x] < 255 => Place[PolyShift8(x)] = Place[x] + 1
  <1>1. Place[x] \in 1 .. 255
    BY DEF Place
  <1>2. PolyShift8(x) \in 1 .. 255
    BY DEF PolyShift8, XorPoly8, FlipBit
  <1>3. CASE x < 128
    <2>1. \A y \in 1 .. 127 : Place[y] < 255 => Place[2 * y] = Place[y] + 1
      BY SMTT(60) DEF Place
    <2> QED
      BY <1>1, <1>2, <1>3, <2>1 DEF PolyShift8
  <1>4. CASE x >= 128
    <2>1. \A y \in 128 .. 255 :
            Place[y] < 255 => Place[XorPoly8(2 * y - 256)] = Place[y] + 1
      BY SMTT(60) DEF Place, XorPoly8, FlipBit
    <2> QED
      BY <1>1, <1>2, <1>4, <2>1 DEF PolyShift8
  <1> QED
    BY <1>1, <1>2, <1>3, <1>4

\* The first n offsets after 0.
Offsets(g, n) ==
  g = [k \in 1 .. n |-> IF k = 1 THEN 255 ELSE Shift[g[k - 1]]]

(* There is such a sequence of shifts.                                      *)
LEMMA OffsetsExist ==
  \E g : Offsets(g, 255)
  <1> DEFINE S == {m \in Nat : \E g : Offsets(g, m)}
  <1>1. 0 \in S
    <2> DEFINE g == [k \in 1 .. 0 |-> 0]
    <2>1. g = [k \in 1 .. 0 |-> IF k = 1 THEN 255 ELSE Shift[g[k - 1]]]
      OBVIOUS
    <2>2. Offsets(g, 0)
      BY ONLY <2>1 DEF Offsets
    <2> QED
      BY <2>2
  <1>2. ASSUME NEW m \in Nat, m \in S
        PROVE  m + 1 \in S
    <2>1. PICK g : Offsets(g, m)
      BY <1>2
    <2> DEFINE h == [k \in 1 .. m + 1 |->
                       IF k = m + 1 THEN IF m = 0 THEN 255 ELSE Shift[g[m]] ELSE g[k]]
    <2>2. \A k \in 1 .. m : g[k] = IF k = 1 THEN 255 ELSE Shift[g[k - 1]]
      BY ONLY <2>1, m \in Nat DEF Offsets
    <2>3. \A k \in 1 .. m + 1 : h[k] = IF k = 1 THEN 255 ELSE Shift[h[k - 1]]
      BY <2>2
    <2>4. h = [k \in 1 .. m + 1 |-> h[k]]
      OBVIOUS
    <2> HIDE DEF h
    <2>5. h = [k \in 1 .. m + 1 |-> IF k = 1 THEN 255 ELSE Shift[h[k - 1]]]
      BY <2>3, <2>4
    <2> QED
      BY <2>5 DEF Offsets
  <1> HIDE DEF S
  <1>3. 255 \in S
    BY <1>1, <1>2, Induction
  <1> QED
    BY <1>3 DEF S

\* g undoes f, which keeps 0 in its place.
Undoes(g, f, N) ==
  f[0] = 0 /\ \A n \in 1 .. N : f[n] \in 1 .. N /\ g[f[n]] = n

(* What can be undone keeps apart what it is applied to.                    *)
LEMMA KeptApart ==
  ASSUME NEW N \in Nat, NEW f, NEW g, Undoes(g, f, N)
  PROVE  /\ \A n \in 0 .. N : f[n] \in 0 .. N
         /\ \A n, m \in 0 .. N : f[n] = f[m] => n = m
  <1>1. ASSUME NEW n \in 0 .. N
        PROVE  f[n] \in 0 .. N /\ (n # 0 => f[n] # 0)
    BY DEF Undoes
  <1>2. ASSUME NEW n \in 0 .. N, NEW m \in 0 .. N, f[n] = f[m]
        PROVE  n = m
    BY <1>1, <1>2 DEF Undoes
  <1> QED
    BY <1>1, <1>2

(* The table of mixed-up offsets has every byte, 0 at 0, and no byte twice:  *)
(* no element of a group of 256 is put on another one.                      *)
THEOREM MixedupPermutes ==
  /\ mixedup[0] = 0
  /\ \A n \in 0 .. 255 : mixedup[n] \in 0 .. 255
  /\ \A n, m \in 0 .. 255 : mixedup[n] = mixedup[m] => n = m
  <1>1. PICK x : x = CHOOSE g : g = [n \in 1 .. 255 |-> IF n = 1 THEN 255 ELSE Shift[g[n - 1]]]
    OBVIOUS
  <1>2. mixedup = [n \in 0 .. 255 |-> IF n = 0 THEN 0 ELSE x[n]]
    BY <1>1 DEF mixedup
  <1>3. \A n \in 1 .. 255 : x[n] = IF n = 1 THEN 255 ELSE Shift[x[n - 1]]
    <2>1. \E g : g = [n \in 1 .. 255 |-> IF n = 1 THEN 255 ELSE Shift[g[n - 1]]]
      BY OffsetsExist DEF Offsets
    <2> QED
      BY <1>1, <2>1
  <1> DEFINE S == {n \in Nat : n < 255 => x[n + 1] \in 1 .. 255 /\ Place[x[n + 1]] = n + 1}
  <1>4. 0 \in S
    <2>1. x[0 + 1] = 255
      BY <1>3
    <2>2. Place[255] = 1
      BY DEF Place
    <2> QED
      BY <2>1, <2>2
  <1>5. ASSUME NEW n \in Nat, n \in S
        PROVE  n + 1 \in S
    <2> SUFFICES ASSUME n + 1 < 255
                 PROVE  /\ x[(n + 1) + 1] \in 1 .. 255
                        /\ Place[x[(n + 1) + 1]] = (n + 1) + 1
      OBVIOUS
    <2>1. x[(n + 1) + 1] = Shift[x[n + 1]]
      BY <1>3
    <2>2. PICK y : y = x[n + 1]
      OBVIOUS
    <2>3. y \in 1 .. 255 /\ Place[y] = n + 1
      BY <1>5, <2>2
    <2>4. Shift[y] = PolyShift8(y)
      BY <2>3 DEF Shift
    <2>5. PolyShift8(y) \in 1 .. 255 /\ Place[PolyShift8(y)] = (n + 1) + 1
      BY <2>3, ShiftIsNext
    <2> QED
      BY <2>1, <2>2, <2>4, <2>5
  <1> HIDE DEF S
  <1>6. \A n \in Nat : n \in S
    BY <1>4, <1>5, Induction
  <1>7. ASSUME NEW n \in 1 .. 255
        PROVE  x[n] \in 1 .. 255 /\ Place[x[n]] = n
    <2>1. n - 1 \in Nat /\ n - 1 < 255 /\ (n - 1) + 1 = n
      OBVIOUS
    <2>2. n - 1 \in S
      BY <1>6, <2>1
    <2> QED
      BY <2>1, <2>2 DEF S
  <1>8. mixedup[0] = 0 /\ \A n \in 1 .. 255 : mixedup[n] = x[n]
    BY <1>2
  <1>9. \A n \in 1 .. 255 : mixedup[n] \in 1 .. 255 /\ Place[mixedup[n]] = n
    BY <1>7, <1>8
  <1>10. Undoes(Place, mixedup, 255)
    BY <1>8, <1>9 DEF Undoes
  <1>11. 255 \in Nat
    OBVIOUS
  <1>12. /\ \A n \in 0 .. 255 : mixedup[n] \in 0 .. 255
         /\ \A n, m \in 0 .. 255 : mixedup[n] = mixedup[m] => n = m
    BY ONLY <1>10, <1>11, KeptApart, Zenon
  <1> QED
    BY <1>8, <1>12

-----------------------------------------------------------------------------
(* The offsets *)

(* Flipping the extra bit twice does nothing, and it leads out of no space  *)
(* of whole pairs of 16 KiB.                                                *)
LEMMA FlipExtraBit ==
  ASSUME NEW x \in Nat
  PROVE  /\ FlipBit(x, ExtraBit) \in Nat
         /\ FlipBit(FlipBit(x, ExtraBit), ExtraBit) = x
         /\ \A end \in Nat : end % (2 * ExtraBit) = 0 /\ x < end => FlipBit(x, ExtraBit) < end
  BY DEF FlipBit, ExtraBit

\* Where a scrambled list has its n-th element, in strides.
Mixed(n) == (n - (n % 256)) + mixedup[n % 256]

(* The scrambled order keeps to the groups of 256, and no two elements meet. *)
LEMMA MixedApart ==
  ASSUME NEW n \in Nat
  PROVE  /\ Mixed(n) \in Nat
         /\ Mixed(n) < 256 * ((n \div 256) + 1)
         /\ \A m \in Nat : Mixed(m) = Mixed(n) => m = n
  <1>1. ASSUME NEW m \in Nat
        PROVE  \E u \in 0 .. 255 : u = mixedup[m % 256] /\ Mixed(m) = 256 * (m \div 256) + u
    <2>1. m % 256 \in 0 .. 255 /\ m - (m % 256) = 256 * (m \div 256)
      OBVIOUS
    <2>2. mixedup[m % 256] \in 0 .. 255
      BY <2>1, MixedupPermutes
    <2> QED
      BY <2>1, <2>2 DEF Mixed
  <1>2. PICK u \in 0 .. 255 : u = mixedup[n % 256] /\ Mixed(n) = 256 * (n \div 256) + u
    BY <1>1
  <1>3. ASSUME NEW m \in Nat, Mixed(m) = Mixed(n)
        PROVE  m = n
    <2>1. PICK v \in 0 .. 255 : v = mixedup[m % 256] /\ Mixed(m) = 256 * (m \div 256) + v
      BY <1>1
    <2>2. m \div 256 = n \div 256 /\ u = v
      BY <1>2, <1>3, <2>1
    <2>3. m % 256 \in 0 .. 255 /\ n % 256 \in 0 .. 255
      OBVIOUS
    <2>4. m % 256 = n % 256
      <3>1. mixedup[m % 256] = mixedup[n % 256]
        BY <1>2, <2>1, <2>2
      <3>2. PICK k, l \in 0 .. 255 : k = m % 256 /\ l = n % 256
        BY <2>3
      <3>3. mixedup[k] = mixedup[l]
        BY ONLY <3>1, <3>2
      <3>4. k = l
        BY ONLY <3>3, MixedupPermutes, Zenon
      <3> QED
        BY <3>2, <3>4
    <2> QED
      BY <2>2, <2>4
  <1> QED
    BY <1>2, <1>3

(* Every list has an element, and its elements fit into the buffer.         *)
LEMMA CallSizes ==
  ASSUME NEW args \in Calls
  PROVE  /\ args.stride \in Nat \ {0} /\ args.size \in Nat
         /\ ElementCount(args) \in Nat \ {0}
         /\ ElementCount(args) * args.stride <= args.size
  <1> DEFINE s == args.stride
             n == args.size
  <1>1. s \in Nat \ {0} /\ n \in Nat /\ s <= n
    BY CallsAssumption
  <1>2. ElementCount(args) = n \div s
    BY DEF ElementCount
  <1> HIDE DEF s, n
  <1>3. n \div s \in Nat /\ n % s \in 0 .. s - 1 /\ n = (n \div s) * s + (n % s)
    BY <1>1
  <1>4. (n \div s) * s <= n /\ n \div s # 0
    BY <1>1, <1>3, MulType
  <1> QED
    BY <1>1, <1>2, <1>3, <1>4 DEF s, n

\* In strides, and without the extra bit.
Index(args, n) == IF args.kind = "mixed" THEN Mixed(n) ELSE n

\* Where the n-th element is: the root is where no extra bit puts it.
At(args, n) ==
  IF n = 0 THEN 0
  ELSE IF args.kind = "plain" THEN n * args.stride
  ELSE LongOffset(args, n)

\* What InsideGroups says no element is beyond.
End(args) == IF args.kind = "mixed" THEN GroupsEnd(args) ELSE args.size

(* From the second element on, kinds differ in the index and the extra bit. *)
LEMMA AtIs ==
  ASSUME NEW args \in Calls, NEW n \in Nat \ {0}
  PROVE  At(args, n) = IF args.kind = "mixed" /\ args.extrabit
                       THEN FlipBit(Index(args, n) * args.stride, ExtraBit)
                       ELSE Index(args, n) * args.stride
  BY CallsAssumption DEF At, Index, LongOffset, Mixed

(* Indexes keep the elements apart, and before the end.                     *)
LEMMA IndexFacts ==
  ASSUME NEW args \in Calls, NEW n \in Nat
  PROVE  /\ Index(args, n) \in Nat
         /\ Index(args, n) * args.stride \in Nat
         /\ \A m \in Nat : Index(args, m) = Index(args, n) => m = n
         /\ n < ElementCount(args) => Index(args, n) * args.stride < End(args)
  <1> DEFINE s == args.stride
             x == Index(args, n)
  <1>1. s \in Nat \ {0}
    BY CallSizes
  <1>2. x \in Nat /\ \A m \in Nat : Index(args, m) = Index(args, n) => m = n
    BY MixedApart DEF Index
  <1>3. x * s \in Nat
    BY <1>1, <1>2, MulType
  <1>4. ASSUME n < ElementCount(args)
        PROVE  x * s < End(args)
    <2> DEFINE C == ElementCount(args)
               G == 256 * ((C + 255) \div 256)
    <2>1. C \in Nat \ {0} /\ C * s <= args.size
      BY CallSizes
    <2>2. CASE args.kind = "mixed"
      <3>1. x < 256 * ((n \div 256) + 1)
        BY <2>2, MixedApart DEF Index
      <3>2. /\ (n \div 256) + 1 <= (C + 255) \div 256
            /\ n \div 256 \in Nat /\ (C + 255) \div 256 \in Nat /\ G \in Nat
        BY <1>4, <2>1
      <3>3. x + 1 <= G
        <4> HIDE DEF x, C
        <4> QED
          BY <1>2, <3>1, <3>2
      <3>4. End(args) = G * s
        <4>1. (C + 255) \div 256 \in Nat
          BY <2>1
        <4> QED
          BY <1>1, <2>2, <4>1 DEF End, GroupsEnd
      <3> HIDE DEF G, x, s
      <3>5. (x + 1) * s <= G * s /\ (x + 1) * s = x * s + s /\ G * s \in Nat
        BY <1>1, <1>2, <3>2, <3>3, MulLeq, MulType
      <3> QED
        BY <1>1, <1>3, <3>4, <3>5
    <2>3. CASE args.kind # "mixed"
      <3>1. x = n /\ End(args) = args.size
        BY <2>3 DEF Index, End
      <3> HIDE DEF x, s, C
      <3>2. (n + 1) * s <= C * s /\ (n + 1) * s = n * s + s /\ C * s \in Nat
        BY <1>1, <1>4, <2>1, MulLeq, MulType DEF C
      <3> QED
        BY <1>1, <1>3, <2>1, <3>1, <3>2, CallSizes
    <2> QED
      BY <2>2, <2>3
  <1> QED
    BY <1>2, <1>3, <1>4

(* No two elements but the root and at most one other are in one place, and *)
(* none is beyond the end.                                                  *)
LEMMA AtFacts ==
  ASSUME NEW args \in Calls, NEW n \in Nat
  PROVE  /\ At(args, n) \in Nat
         /\ n # 0 => \A m \in Nat \ {0} : At(args, m) = At(args, n) => m = n
         /\ n < ElementCount(args) => At(args, n) < End(args)
  <1>1. CASE n = 0
    <2>1. Index(args, 0) * args.stride \in Nat /\ 0 < ElementCount(args)
      BY CallSizes, IndexFacts
    <2>2. Index(args, 0) * args.stride < End(args)
      BY <2>1, IndexFacts
    <2>3. End(args) \in Int
      BY CallSizes DEF End, GroupsEnd
    <2> QED
      BY <1>1, <2>1, <2>2, <2>3 DEF At
  <1>2. CASE n # 0
    <2> DEFINE off(m) == Index(args, m) * args.stride
    <2>1. \A m \in Nat : off(m) \in Nat
      BY IndexFacts
    <2>2. ASSUME NEW m \in Nat, off(m) = off(n)
          PROVE  m = n
      <3>1. /\ Index(args, m) \in Nat /\ Index(args, n) \in Nat
            /\ args.stride \in Nat \ {0}
        BY IndexFacts, CallSizes
      <3>2. Index(args, m) = Index(args, n)
        BY <2>2, <3>1, MulCancel
      <3> QED
        BY <3>2, IndexFacts
    <2>3. n < ElementCount(args) => off(n) < End(args)
      BY IndexFacts
    <2> HIDE DEF off
    <2>4. CASE args.kind = "mixed" /\ args.extrabit
      <3>1. \A m \in Nat \ {0} : At(args, m) = FlipBit(off(m), ExtraBit)
        BY <2>4, AtIs DEF off
      <3>2. ASSUME NEW m \in Nat \ {0}, At(args, m) = At(args, n)
            PROVE  m = n
        <4>1. off(m) = off(n)
          BY <1>2, <2>1, <3>1, <3>2, FlipExtraBit
        <4> QED
          BY <2>2, <4>1
      <3>3. ASSUME n < ElementCount(args)
            PROVE  At(args, n) < End(args)
        <4>1. End(args) % (2 * ExtraBit) = 0
          BY <2>4, ExtraBitAssumption DEF End
        <4>2. End(args) \in Nat
          <5>1. End(args) \in Int
            BY <2>4, CallSizes DEF End, GroupsEnd
          <5> QED
            BY <2>1, <2>3, <3>3, <5>1
        <4> QED
          BY <1>2, <2>1, <2>3, <3>1, <3>3, <4>1, <4>2, FlipExtraBit
      <3>4. At(args, n) \in Nat
        BY <1>2, <2>1, <3>1, FlipExtraBit
      <3> QED
        BY <3>2, <3>3, <3>4
    <2>5. CASE ~(args.kind = "mixed" /\ args.extrabit)
      <3>1. \A m \in Nat \ {0} : At(args, m) = off(m)
        BY <2>5, AtIs DEF off
      <3> QED
        BY <1>2, <2>1, <2>2, <2>3, <3>1
    <2> QED
      BY <2>4, <2>5
  <1> QED
    BY <1>1, <1>2

(* The elements lost: those before the one that is over the root.           *)
LEMMA LostFacts ==
  ASSUME NEW args \in Calls
  PROVE  /\ Lost(args) \in 0 .. ElementCount(args) - 1
         /\ At(args, Lost(args)) = 0
         /\ Lost(args) = 0 => \A n \in 1 .. ElementCount(args) - 1 : At(args, n) # 0
         /\ Cardinality(OverRoot(args)) <= 1
  <1> DEFINE C == ElementCount(args)
  <1>1. C \in Nat \ {0}
    BY CallSizes
  <1>2. ASSUME args.kind # "mixed", NEW n \in 1 .. C - 1
        PROVE  At(args, n) # 0
    <2>1. At(args, n) = n * args.stride
      BY <1>1, <1>2, AtIs DEF Index
    <2>2. args.stride \in Nat \ {0}
      BY CallSizes
    <2> QED
      BY <1>1, <2>1, <2>2
  <1>3. OverRoot(args) = {n \in 1 .. C - 1 : At(args, n) = 0}
    <2>1. CASE args.kind = "mixed"
      BY <1>1, <2>1 DEF OverRoot, At
    <2>2. CASE args.kind # "mixed"
      BY <1>2, <2>2 DEF OverRoot
    <2> QED
      BY <2>1, <2>2
  <1> HIDE DEF C
  <1>4. CASE OverRoot(args) = {}
    <2>1. Lost(args) = 0 /\ Cardinality(OverRoot(args)) = 0
      BY <1>4, FS_EmptySet DEF Lost
    <2> QED
      BY <1>1, <1>3, <1>4, <2>1 DEF At, C
  <1>5. CASE OverRoot(args) # {}
    <2>1. Lost(args) \in OverRoot(args)
      BY <1>5 DEF Lost
    <2>2. Lost(args) \in 1 .. C - 1 /\ At(args, Lost(args)) = 0
      BY <1>3, <2>1
    <2>3. \A n \in OverRoot(args) : n = Lost(args)
      BY <1>1, <1>3, <2>2, AtFacts
    <2>4. OverRoot(args) = {Lost(args)}
      BY <2>1, <2>3
    <2>5. Cardinality(OverRoot(args)) = 1
      BY <2>4, FS_Singleton
    <2> QED
      BY <1>1, <2>2, <2>5 DEF C
  <1> QED
    BY <1>4, <1>5

-----------------------------------------------------------------------------
(* Building a list, counting it, and walking it *)

TypeInv ==
  /\ call \in Calls
  /\ phase \in {"build", "count", "idle", "measure"}
  /\ i \in Nat /\ counted \in Nat /\ left \in Nat /\ passes \in Nat

\* Which element pairptr is at while the list is built.
Linked == IF i = 0 THEN 0 ELSE i - 1

\* The n-th element's next pointer is x.
Leads(n, x) == At(call, n) \in DOMAIN next /\ next[At(call, n)] = x

\* So far every element leads to the next, but for a root that has been
\* written over.
BuildInv ==
  phase = "build" =>
    /\ Linked < ElementCount(call) /\ (call.kind # "plain" => i # 0)
    /\ pairptr = At(call, Linked)
    /\ \A n \in 0 .. Linked - 1 :
         \/ Leads(n, At(call, n + 1))
         \/ n = 0 /\ \E m \in 1 .. Linked - 1 : At(call, m) = 0
    /\ counted = 0

\* From the element at the root on each leads to the next, and the last to none.
ListInv ==
  phase # "build" =>
    /\ \A n \in Lost(call) .. ElementCount(call) - 2 : Leads(n, At(call, n + 1))
    /\ Leads(ElementCount(call) - 1, Null)

\* How far the count has come.
CountInv ==
  /\ phase = "count" => /\ Lost(call) + counted < ElementCount(call)
                        /\ p = At(call, Lost(call) + counted)
  /\ phase \in {"idle", "measure"} => counted = ElementCount(call) - Lost(call)

\* How far a pass has come, and that the elements suffice for the rest of it.
PassInv ==
  phase = "measure" =>
    \E n \in Lost(call) .. ElementCount(call) :
      /\ n + left <= ElementCount(call)
      /\ p = IF n = ElementCount(call) THEN Null ELSE At(call, n)

\* No element is beyond the end.
PointerInv == \E n \in 0 .. ElementCount(call) - 1 : pairptr = At(call, n)

MixedListInv ==
  TypeInv /\ BuildInv /\ ListInv /\ CountInv /\ PassInv /\ PointerInv

(* A call starts within the invariant,                                      *)
LEMMA InitMixedListInv ==
  Init => MixedListInv
  <1> SUFFICES ASSUME Init
               PROVE  MixedListInv
    OBVIOUS
  <1>1. call \in Calls /\ phase = "build" /\ pairptr = 0 /\ counted = 0
    BY DEF Init
  <1>2. ElementCount(call) \in Nat \ {0}
    BY <1>1, CallSizes
  <1>3. TypeInv
    BY DEF Init, TypeInv
  <1>4. BuildInv
    BY <1>2 DEF Init, BuildInv, Linked, At
  <1>5. ListInv /\ CountInv /\ PassInv
    BY <1>1 DEF ListInv, CountInv, PassInv
  <1>6. PointerInv
    BY <1>1, <1>2 DEF PointerInv, At
  <1> QED
    BY <1>3, <1>4, <1>5, <1>6 DEF MixedListInv

(* An element more: what led on before still does, unless the one written    *)
(* to is over the root.                                                     *)
LEMMA LinkKeepsBuildInv ==
  ASSUME MixedListInv, phase = "build", Linked + 1 < ElementCount(call),
         NEW k \in Nat, k = Linked,
         next' = Store(next, pairptr, At(call, k + 1)), call' = call,
         pairptr' = At(call, k + 1), Linked' = k + 1, i' # 0, counted' = counted
  PROVE  BuildInv' /\ PointerInv'
  <1>1. /\ call \in Calls /\ pairptr = At(call, k) /\ counted = 0
        /\ ElementCount(call) \in Nat
        /\ \A n \in 0 .. k - 1 :
             \/ Leads(n, At(call, n + 1))
             \/ n = 0 /\ \E m \in 1 .. k - 1 : At(call, m) = 0
    BY CallSizes DEF MixedListInv, TypeInv, BuildInv
  <1>2. /\ DOMAIN next' = DOMAIN next \cup {At(call, k)}
        /\ next'[At(call, k)] = At(call, k + 1)
        /\ \A q \in DOMAIN next : q # At(call, k) => next'[q] = next[q]
    BY <1>1 DEF Store
  <1>3. ASSUME NEW n \in 0 .. k
        PROVE  \/ Leads(n, At(call, n + 1))'
               \/ n = 0 /\ \E m \in 1 .. k : At(call, m) = 0
    <2>1. CASE n = k
      BY <1>1, <1>2, <2>1 DEF Leads
    <2>2. CASE n # k /\ n # 0
      <3>1. At(call, n) # At(call, k) /\ n \in 0 .. k - 1
        BY <1>1, <2>2, AtFacts
      <3>2. Leads(n, At(call, n + 1))
        BY <1>1, <2>2, <3>1
      <3> QED
        BY <1>2, <3>1, <3>2 DEF Leads
    <2>3. CASE n # k /\ n = 0
      <3>1. CASE At(call, k) = 0
        BY <2>3, <3>1
      <3>2. CASE At(call, k) # 0
        <4>1. At(call, n) # At(call, k)
          BY <2>3, <3>2 DEF At
        <4>2. Leads(n, At(call, n + 1)) \/ \E m \in 1 .. k : At(call, m) = 0
          BY <1>1, <2>3
        <4> QED
          BY <1>2, <2>3, <4>1, <4>2 DEF Leads
      <3> QED
        BY <3>1, <3>2
    <2> QED
      BY <2>1, <2>2, <2>3
  <1>4. /\ Linked' - 1 = k /\ k + 1 \in 0 .. ElementCount(call) - 1
    BY <1>1
  <1>5. BuildInv'
    BY <1>1, <1>3, <1>4 DEF BuildInv
  <1>6. PointerInv'
    BY <1>4 DEF PointerInv
  <1> QED
    BY <1>5, <1>6

(* and every step keeps it.                                                 *)
LEMMA LinkPlainKeeps ==
  ASSUME MixedListInv, LinkPlain
  PROVE  MixedListInv'
  <1>1. /\ phase = "build" /\ phase' = "build" /\ call.kind = "plain"
        /\ i < ElementCount(call) /\ i' = i + 1 /\ call' = call /\ i \in Nat
        /\ call \in Calls /\ counted' = counted /\ left' = left /\ passes' = passes
        /\ pairptr' = i * call.stride
        /\ next' = Store(next, pairptr, i * call.stride)
    BY DEF LinkPlain, MixedListInv, TypeInv
  <1>2. /\ call.stride \in Nat \ {0} /\ ElementCount(call) \in Nat \ {0}
    BY <1>1, CallSizes
  <1>3. At(call, i) = i * call.stride
    BY <1>1, <1>2 DEF At
  <1>4. TypeInv'
    BY <1>1 DEF MixedListInv, TypeInv
  <1>5. ListInv' /\ CountInv' /\ PassInv'
    BY <1>1 DEF ListInv, CountInv, PassInv
  <1>6. BuildInv' /\ PointerInv'
    <2>1. CASE i = 0
      <3>1. Linked' = 0 /\ At(call, 0) = 0
        BY <1>1, <2>1 DEF Linked, At
      <3>2. pairptr' = 0
        BY <1>1, <1>2, <2>1
      <3>3. counted = 0
        BY <1>1 DEF MixedListInv, BuildInv
      <3> QED
        BY <1>1, <1>2, <3>1, <3>2, <3>3 DEF BuildInv, PointerInv
    <2>2. CASE i # 0
      <3>1. /\ Linked = i - 1 /\ Linked' = i /\ Linked \in Nat
            /\ Linked + 1 = i
        BY <1>1, <2>2 DEF Linked
      <3>2. PICK k \in Nat : k = Linked
        BY <3>1
      <3> QED
        BY <1>1, <1>3, <3>1, <3>2, LinkKeepsBuildInv
    <2> QED
      BY <2>1, <2>2
  <1> QED
    BY <1>4, <1>5, <1>6 DEF MixedListInv

LEMMA LinkLongKeeps ==
  ASSUME MixedListInv, LinkLong
  PROVE  MixedListInv'
  <1>1. /\ phase = "build" /\ phase' = "build" /\ call.kind # "plain"
        /\ i < ElementCount(call) /\ i' = i + 1 /\ call' = call /\ i \in Nat
        /\ call \in Calls /\ counted' = counted /\ left' = left /\ passes' = passes
        /\ pairptr' = LongOffset(call, i)
        /\ next' = Store(next, pairptr, LongOffset(call, i))
    BY DEF LinkLong, MixedListInv, TypeInv
  <1>2. ElementCount(call) \in Nat \ {0}
    BY <1>1, CallSizes
  <1>3. i # 0
    BY <1>1 DEF MixedListInv, BuildInv
  <1>4. At(call, i) = LongOffset(call, i)
    BY <1>1, <1>3 DEF At
  <1>5. TypeInv'
    BY <1>1 DEF MixedListInv, TypeInv
  <1>6. ListInv' /\ CountInv' /\ PassInv'
    BY <1>1 DEF ListInv, CountInv, PassInv
  <1>7. /\ Linked = i - 1 /\ Linked' = i /\ Linked \in Nat
        /\ Linked + 1 = i
    BY <1>1, <1>3 DEF Linked
  <1>8. PICK k \in Nat : k = Linked
    BY <1>7
  <1>9. BuildInv' /\ PointerInv'
    BY <1>1, <1>4, <1>7, <1>8, LinkKeepsBuildInv
  <1> QED
    BY <1>5, <1>6, <1>9 DEF MixedListInv

LEMMA TerminateKeeps ==
  ASSUME MixedListInv, Terminate
  PROVE  MixedListInv'
  <1> DEFINE C == ElementCount(call)
             k == C - 1
             lost == Lost(call)
  <1>1. /\ phase = "build" /\ phase' = "count" /\ i >= C /\ i' = i /\ call' = call
        /\ call \in Calls /\ i \in Nat /\ p' = 0
        /\ pairptr' = pairptr /\ counted' = counted /\ left' = left /\ passes' = passes
        /\ next' = Store(next, pairptr, Null)
    BY DEF Terminate, MixedListInv, TypeInv
  <1>2. C \in Nat \ {0}
    BY <1>1, CallSizes
  <1>3. Linked = k
    BY <1>1, <1>2 DEF MixedListInv, BuildInv, Linked
  <1>4. /\ pairptr = At(call, k) /\ counted = 0
        /\ \A n \in 0 .. k - 1 :
             \/ Leads(n, At(call, n + 1))
             \/ n = 0 /\ \E m \in 1 .. k - 1 : At(call, m) = 0
    BY <1>1, <1>3 DEF MixedListInv, BuildInv
  <1>5. /\ lost \in 0 .. C - 1 /\ At(call, lost) = 0
        /\ lost = 0 => \A n \in 1 .. C - 1 : At(call, n) # 0
    BY <1>1, LostFacts
  <1> HIDE DEF lost, C
  <1>6. /\ DOMAIN next' = DOMAIN next \cup {At(call, k)}
        /\ next'[At(call, k)] = Null
        /\ \A q \in DOMAIN next : q # At(call, k) => next'[q] = next[q]
    BY <1>1, <1>4 DEF Store
  <1>7. ASSUME NEW n \in lost .. C - 2
        PROVE  Leads(n, At(call, n + 1))'
    <2>1. n \in 0 .. k - 1 /\ n \in Nat /\ k \in Nat /\ k # 0 /\ n # k
      BY <1>2, <1>5
    <2>2. Leads(n, At(call, n + 1))
      <3>1. CASE n = 0
        <4>1. lost = 0
          BY <1>5, <3>1
        <4>2. \A m \in 1 .. k - 1 : At(call, m) # 0
          BY <1>2, <1>5, <4>1
        <4> QED
          BY <1>4, <2>1, <4>2
      <3>2. CASE n # 0
        BY <1>4, <2>1, <3>2
      <3> QED
        BY <3>1, <3>2
    <2>3. At(call, n) # At(call, k)
      <3>1. CASE n = 0
        <4>1. lost = 0 /\ k \in 1 .. C - 1 /\ At(call, n) = 0
          BY <1>2, <1>5, <2>1, <3>1
        <4> QED
          BY <1>5, <4>1
      <3>2. CASE n # 0
        BY <1>1, <2>1, <3>2, AtFacts
      <3> QED
        BY <3>1, <3>2
    <2> QED
      BY <1>1, <1>6, <2>2, <2>3 DEF Leads
  <1>8. TypeInv' /\ BuildInv' /\ PassInv'
    BY <1>1 DEF MixedListInv, TypeInv, BuildInv, PassInv
  <1>9. ListInv'
    <2>1. /\ ElementCount(call') - 1 = k /\ ElementCount(call') - 2 = C - 2
          /\ Lost(call') = lost
      BY <1>1, <1>2 DEF lost, C
    <2>2. At(call', k) \in DOMAIN next' /\ next'[At(call', k)] = Null
      BY <1>1, <1>6
    <2> QED
      BY <1>7, <2>1, <2>2 DEF ListInv, Leads
  <1>10. CountInv'
    BY <1>1, <1>2, <1>4, <1>5 DEF CountInv, lost, C
  <1>11. PointerInv'
    BY <1>1 DEF MixedListInv, PointerInv
  <1> QED
    BY <1>8, <1>9, <1>10, <1>11 DEF MixedListInv

(* What the next pointer of an element from the root on is.                 *)
LEMMA NextOf ==
  ASSUME MixedListInv, phase # "build", NEW n \in Lost(call) .. ElementCount(call) - 1
  PROVE  /\ At(call, n) # Null
         /\ n = ElementCount(call) - 1 => next[At(call, n)] = Null
         /\ n # ElementCount(call) - 1 => /\ next[At(call, n)] = At(call, n + 1)
                                          /\ At(call, n + 1) # Null
  <1>1. /\ call \in Calls /\ ElementCount(call) \in Nat \ {0}
        /\ Lost(call) \in 0 .. ElementCount(call) - 1
    BY CallSizes, LostFacts DEF MixedListInv, TypeInv
  <1>2. n \in Nat /\ n + 1 \in Nat
    BY <1>1
  <1>3. At(call, n) # Null /\ At(call, n + 1) # Null
    BY <1>1, <1>2, AtFacts, NullAssumption
  <1>4. CASE n = ElementCount(call) - 1
    BY <1>3, <1>4 DEF MixedListInv, ListInv, Leads
  <1>5. CASE n # ElementCount(call) - 1
    <2>1. n \in Lost(call) .. ElementCount(call) - 2
      BY <1>1, <1>5
    <2>2. Leads(n, At(call, n + 1))
      BY <2>1 DEF MixedListInv, ListInv
    <2> QED
      BY <1>3, <1>5, <2>2 DEF Leads
  <1> QED
    BY <1>4, <1>5

LEMMA CountKeeps ==
  ASSUME MixedListInv, Count
  PROVE  MixedListInv'
  <1> DEFINE C == ElementCount(call)
             lost == Lost(call)
             n == lost + counted
  <1>1. /\ phase = "count" /\ counted' = counted + 1 /\ p' = next[p] /\ call' = call
        /\ phase' = IF next[p] = Null THEN "idle" ELSE "count"
        /\ i' = i /\ pairptr' = pairptr /\ next' = next /\ left' = left
        /\ passes' = passes /\ call \in Calls /\ counted \in Nat
    BY DEF Count, MixedListInv, TypeInv
  <1>2. C \in Nat \ {0} /\ lost \in 0 .. C - 1
    BY <1>1, CallSizes, LostFacts
  <1>3. n < C /\ p = At(call, n)
    BY <1>1 DEF MixedListInv, CountInv
  <1>4. /\ n = C - 1 => next[p] = Null
        /\ n # C - 1 => next[p] = At(call, n + 1) /\ At(call, n + 1) # Null
    BY <1>1, <1>2, <1>3, NextOf
  <1>5. TypeInv'
    BY <1>1 DEF MixedListInv, TypeInv
  <1>6. BuildInv' /\ PassInv'
    BY <1>1 DEF BuildInv, PassInv
  <1>7. ListInv'
    BY <1>1 DEF MixedListInv, ListInv, Leads
  <1>8. CountInv'
    <2> HIDE DEF C, lost
    <2>1. CASE n = C - 1
      <3>1. phase' = "idle" /\ counted' = C - lost
        BY <1>1, <1>2, <1>4, <2>1
      <3> QED
        BY <1>1, <3>1 DEF CountInv, C, lost
    <2>2. CASE n # C - 1
      <3>1. /\ phase' = "count" /\ lost + counted' < C /\ n + 1 = lost + counted'
            /\ p' = At(call, lost + counted')
        BY <1>1, <1>2, <1>3, <1>4, <2>2
      <3> QED
        BY <1>1, <3>1 DEF CountInv, C, lost
    <2> QED
      BY <2>1, <2>2
  <1>9. PointerInv'
    BY <1>1 DEF MixedListInv, PointerInv
  <1> QED
    BY <1>5, <1>6, <1>7, <1>8, <1>9 DEF MixedListInv

LEMMA BeginPassKeeps ==
  ASSUME MixedListInv, BeginPass
  PROVE  MixedListInv'
  <1> DEFINE C == ElementCount(call)
             lost == Lost(call)
  <1>1. /\ phase = "idle" /\ phase' = "measure" /\ p' = 0 /\ call' = call /\ i' = i
        /\ passes' = passes + 1 /\ pairptr' = pairptr /\ next' = next
        /\ counted' = counted /\ left' \in call.loads /\ call \in Calls
    BY DEF BeginPass, MixedListInv, TypeInv
  <1>2. C \in Nat \ {0} /\ lost \in 0 .. C - 1 /\ At(call, lost) = 0
    BY <1>1, CallSizes, LostFacts
  <1>3. left' \in Nat /\ lost + left' <= C
    BY <1>1, CallsAssumption, LoadsAssumption
  <1>4. TypeInv'
    BY <1>1, <1>3 DEF MixedListInv, TypeInv
  <1>5. BuildInv' /\ ListInv' /\ CountInv' /\ PointerInv'
    BY <1>1 DEF MixedListInv, BuildInv, ListInv, CountInv, PointerInv, Leads
  <1>6. PassInv'
    <2> HIDE DEF C, lost
    <2>1. lost \in lost .. C /\ lost # C
      BY <1>2
    <2>2. p' = IF lost = C THEN Null ELSE At(call, lost)
      BY <1>1, <1>2, <2>1
    <2> QED
      BY <1>1, <1>3, <2>1, <2>2 DEF PassInv, C, lost
  <1> QED
    BY <1>4, <1>5, <1>6 DEF MixedListInv

LEMMA LoadKeeps ==
  ASSUME MixedListInv, Load
  PROVE  MixedListInv'
  <1> DEFINE C == ElementCount(call)
             lost == Lost(call)
  <1>1. /\ phase = "measure" /\ left > 0 /\ left' = left - 1 /\ left \in Nat
        /\ call' = call /\ i' = i /\ passes' = passes /\ pairptr' = pairptr
        /\ next' = next /\ counted' = counted /\ call \in Calls
        /\ p # Null => p' = next[p] /\ phase' = phase
    BY DEF Load, MixedListInv, TypeInv
  <1>2. C \in Nat \ {0} /\ lost \in 0 .. C - 1
    BY <1>1, CallSizes, LostFacts
  <1>3. PICK n \in lost .. C : n + left <= C /\ p = IF n = C THEN Null ELSE At(call, n)
    BY <1>1 DEF MixedListInv, PassInv
  <1>4. n \in lost .. C - 1 /\ p = At(call, n)
    BY <1>1, <1>2, <1>3
  <1>5. /\ p # Null
        /\ n = C - 1 => next[p] = Null
        /\ n # C - 1 => next[p] = At(call, n + 1)
    BY <1>1, <1>4, NextOf
  <1>6. phase' = "measure" /\ p' = next[p]
    BY <1>1, <1>5
  <1>7. TypeInv'
    BY <1>1, <1>6 DEF MixedListInv, TypeInv
  <1>8. BuildInv' /\ ListInv' /\ CountInv' /\ PointerInv'
    BY <1>1, <1>6 DEF MixedListInv, BuildInv, ListInv, CountInv, PointerInv, Leads
  <1>9. PassInv'
    <2> HIDE DEF C, lost
    <2>1. /\ n + 1 \in lost .. C /\ (n + 1) + left' <= C
          /\ p' = IF n + 1 = C THEN Null ELSE At(call, n + 1)
      BY <1>1, <1>2, <1>3, <1>4, <1>5, <1>6
    <2> QED
      BY <1>1, <2>1 DEF PassInv, C, lost
  <1> QED
    BY <1>7, <1>8, <1>9 DEF MixedListInv

(* So every step does.                                                      *)
LEMMA NextMixedListInv ==
  MixedListInv /\ [Next]_vars => MixedListInv'
  <1> SUFFICES ASSUME MixedListInv, [Next]_vars
               PROVE  MixedListInv'
    OBVIOUS
  <1>1. CASE LinkPlain
    BY <1>1, LinkPlainKeeps
  <1>2. CASE LinkLong
    BY <1>2, LinkLongKeeps
  <1>3. CASE Terminate
    BY <1>3, TerminateKeeps
  <1>4. CASE Count
    BY <1>4, CountKeeps
  <1>5. CASE BeginPass
    BY <1>5, BeginPassKeeps
  <1>6. CASE Load
    BY <1>6, LoadKeeps
  <1>7. CASE EndPass
    <2>1. /\ phase = "measure" /\ phase' = "idle"
          /\ UNCHANGED <<call, i, pairptr, next, p, counted, left, passes>>
      BY <1>7 DEF EndPass
    <2> QED
      BY <2>1 DEF MixedListInv, TypeInv, BuildInv, ListInv, CountInv, PassInv, PointerInv,
                  Leads
  <1>8. CASE Done \/ UNCHANGED vars
    <2>1. UNCHANGED <<call, phase, i, pairptr, next, p, counted, left, passes>>
      BY <1>8 DEF Done, vars
    <2> QED
      BY <2>1 DEF MixedListInv, TypeInv, BuildInv, ListInv, CountInv, PassInv, PointerInv,
                  Leads, Linked
  <1> QED
    BY <1>1, <1>2, <1>3, <1>4, <1>5, <1>6, <1>7, <1>8 DEF Next

(* The invariant behind the properties: while a list is built every element  *)
(* leads to the next, or the root is written over by one of them; a list that *)
(* is built leads from its root through all others, and a pass that is under  *)
(* way has elements enough left for its loads.                               *)
THEOREM ListsCorrect == Spec => []MixedListInv
  BY InitMixedListInv, NextMixedListInv, PTL DEF Spec

(* InsideGroups: no element is written beyond the last group of 256.         *)
THEOREM WrittenInsideGroups == Spec => []InsideGroups
  <1>1. MixedListInv => InsideGroups
    <2> SUFFICES ASSUME MixedListInv
                 PROVE  InsideGroups
      OBVIOUS
    <2>1. PICK n \in 0 .. ElementCount(call) - 1 : pairptr = At(call, n)
      BY DEF MixedListInv, PointerInv
    <2>2. call \in Calls /\ ElementCount(call) \in Nat
      BY CallSizes DEF MixedListInv, TypeInv
    <2>3. At(call, n) < End(call)
      BY <2>1, <2>2, AtFacts
    <2> QED
      BY <2>1, <2>3 DEF InsideGroups, End
  <1> QED
    BY <1>1, ListsCorrect, PTL

(* FullLength: a list has all its elements, but for those lost to the extra  *)
(* bit, which there are only if it puts one element over the root.           *)
THEOREM ListsFull == Spec => []FullLength
  <1>1. MixedListInv => FullLength
    <2> SUFFICES ASSUME MixedListInv
                 PROVE  FullLength
      OBVIOUS
    <2>1. /\ ElementCount(call) \in Nat \ {0} /\ counted \in Nat
          /\ Lost(call) \in 0 .. ElementCount(call) - 1
          /\ Cardinality(OverRoot(call)) <= 1
      BY CallSizes, LostFacts DEF MixedListInv, TypeInv
    <2>2. counted <= ElementCount(call)
      <3>1. CASE phase = "build"
        BY <2>1, <3>1 DEF MixedListInv, BuildInv
      <3>2. CASE phase # "build"
        BY <2>1, <3>2 DEF MixedListInv, CountInv, TypeInv
      <3> QED
        BY <3>1, <3>2
    <2>3. phase = "idle" => counted = ElementCount(call) - Lost(call)
      BY DEF MixedListInv, CountInv
    <2> QED
      BY <2>1, <2>2, <2>3 DEF FullLength
  <1> QED
    BY <1>1, ListsCorrect, PTL

(* NoNullFollowed: no measurement follows the null pointer.                  *)
THEOREM NullNotFollowed == Spec => []NoNullFollowed
  <1>1. MixedListInv => NoNullFollowed
    BY DEF MixedListInv, TypeInv, NoNullFollowed
  <1> QED
    BY <1>1, ListsCorrect, PTL

(* How many elements a list can lose: none with a stride of more than 16 KiB, *)
(* and never more than 1279. The timing loops of memory.cc make 256 loads on   *)
(* lists of 20480 elements or more, MeasureCacheLevelSizes at most 524288 on    *)
(* one of 655360: what LoadsAssumption says holds of them with room to spare.  *)
THEOREM FewLost ==
  \A args \in Calls : /\ args.stride > ExtraBit => Lost(args) = 0
                      /\ Lost(args) <= ExtraBit + 255
  <1> SUFFICES ASSUME NEW args \in Calls
               PROVE  /\ args.stride > ExtraBit => Lost(args) = 0
                      /\ Lost(args) <= ExtraBit + 255
    OBVIOUS
  <1> DEFINE s == args.stride
  <1>1. s \in Nat \ {0} /\ Lost(args) \in Nat /\ ExtraBit = 1024
    BY CallSizes, LostFacts DEF ExtraBit
  <1>2. ASSUME NEW n \in Nat \ {0}, At(args, n) = 0
        PROVE  \E x \in Nat : x * s = 1024 /\ n <= x + 255
    <2> DEFINE x == Index(args, n)
    <2>1. x \in Nat /\ x * s \in Nat
      BY IndexFacts
    <2>2. x # 0
      <3>1. Index(args, 0) = 0
        <4>1. 0 % 256 = 0 /\ 0 - 0 = 0 /\ 0 + 0 = 0
          OBVIOUS
        <4>2. mixedup[0] = 0
          BY MixedupPermutes
        <4> QED
          BY <4>1, <4>2 DEF Index, Mixed
      <3> QED
        BY <3>1, IndexFacts
    <2>3. x * s # 0
      BY <1>1, <2>1, <2>2
    <2>4. args.kind = "mixed" /\ FlipBit(x * s, ExtraBit) = 0
      BY <1>2, <2>3, AtIs
    <2>5. x * s = 1024
      BY <2>1, <2>4, FlipExtraBit DEF FlipBit, ExtraBit
    <2>6. n <= x + 255
      <3>1. PICK k \in 0 .. 255 : k = n % 256
        OBVIOUS
      <3>2. PICK u \in 0 .. 255 : u = mixedup[k]
        BY MixedupPermutes
      <3> QED
        BY <2>4, <3>1, <3>2 DEF Index, Mixed
    <2> QED
      BY <2>1, <2>5, <2>6
  <1>3. CASE Lost(args) = 0
    BY <1>1, <1>3
  <1>4. CASE Lost(args) # 0
    <2>1. At(args, Lost(args)) = 0
      BY LostFacts
    <2>2. PICK x \in Nat : x * s = 1024 /\ Lost(args) <= x + 255
      BY <1>1, <1>2, <1>4, <2>1
    <2> HIDE DEF s
    <2>3. x # 0 /\ 1 * s <= x * s
      BY <1>1, <2>2, MulLeq
    <2>4. x * 1 <= x * s
      BY <1>1, <2>2
    <2>5. s <= 1024 /\ x <= 1024
      BY <1>1, <2>2, <2>3, <2>4
    <2> QED
      BY <1>1, <2>2, <2>5 DEF s
  <1> QED
    BY <1>3, <1>4
=============================================================================
