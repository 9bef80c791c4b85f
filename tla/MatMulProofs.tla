---------------------------- MODULE MatMulProofs ----------------------------
(***************************************************************************)
(* Proofs about MatMul, for every size of matrix and of block that divides  *)
(* it, and any positive inputs.                                             *)
(*                                                                          *)
(* Every way to multiply is a sum of products in an order of its own: with  *)
(* what a sum is, and how it is regrouped, and which elements the indexes   *)
(* reach, each is shown to be the product, or its transpose. The invariant  *)
(* then says no more than what each block of main() leaves in c.            *)
(***************************************************************************)
EXTENDS MatMul, WellFoundedInduction, TLAPS

-----------------------------------------------------------------------------
(* Numbers *)

(* A set of natural numbers has a least one.                                *)
LEMMA Least ==
  ASSUME NEW S \in SUBSET Nat, S # {}
  PROVE  \E n \in S : \A m \in S : n <= m
  <1> DEFINE Less == OpToRel(<, Nat)
  <1>1. IsWellFoundedOn(Less, Nat)
    BY NatLessThanWellFounded
  <1>2. \A n, m \in Nat : m < n => <<m, n>> \in Less
    BY DEF OpToRel
  <1> HIDE DEF Less
  <1>3. PICK n \in S : \A m \in S : ~(<<m, n>> \in Less)
    BY <1>1, WFMin
  <1>4. \A m \in S : ~(m < n)
    BY <1>2, <1>3
  <1> QED
    BY <1>4

(* So what holds of 0, and of the successor of any number it holds of, holds *)
(* of all.                                                                  *)
LEMMA Induction ==
  ASSUME NEW S, 0 \in S, \A n \in Nat : n \in S => n + 1 \in S
  PROVE  \A n \in Nat : n \in S
  <1> DEFINE T == {n \in Nat : n \notin S}
  <1> SUFFICES ASSUME T # {}
               PROVE  FALSE
    OBVIOUS
  <1>1. PICK n \in T : \A m \in T : n <= m
    BY Least
  <1>2. n \in Nat \ {0} /\ n - 1 \in Nat /\ n - 1 \notin T
    BY <1>1
  <1>3. n - 1 \in S
    BY <1>2
  <1>4. (n - 1) + 1 \in S
    BY <1>2, <1>3
  <1> QED
    BY <1>1, <1>2, <1>4

(* Division by a positive number.                                           *)
LEMMA DivMod ==
  ASSUME NEW n \in Nat, NEW d \in Nat \ {0}
  PROVE  /\ n \div d \in Nat /\ n % d \in 0 .. d - 1
         /\ n = (n \div d) * d + (n % d)
  OBVIOUS

(* Products of numbers.                                                     *)
LEMMA MulLeq ==
  ASSUME NEW k \in Nat, NEW m \in Nat, NEW d \in Nat, k <= m
  PROVE  k * d <= m * d
  OBVIOUS

LEMMA MulType ==
  ASSUME NEW k \in Nat, NEW m \in Nat
  PROVE  k * m \in Nat
  OBVIOUS

(* A quotient and a remainder are those of the number they make.            *)
LEMMA DivUnique ==
  ASSUME NEW d \in Nat \ {0}, NEW q \in Nat, NEW r \in 0 .. d - 1
  PROVE  /\ q * d + r \in Nat
         /\ (q * d + r) \div d = q
         /\ (q * d + r) % d = r
  <1> DEFINE n == q * d + r
             p == n \div d
             s == n % d
  <1>1. n \in Nat
    BY MulType
  <1>2. p \in Nat /\ s \in 0 .. d - 1 /\ n = p * d + s
    BY <1>1, DivMod
  <1> HIDE DEF p, s
  <1>3. ASSUME p < q PROVE FALSE
    <2>1. (p + 1) * d <= q * d
      BY <1>2, <1>3, MulLeq
    <2>2. (p + 1) * d = p * d + d
      BY <1>2
    <2> QED
      BY <2>1, <2>2, <1>2, MulType
  <1>4. ASSUME q < p PROVE FALSE
    <2>1. (q + 1) * d <= p * d
      BY <1>2, <1>4, MulLeq
    <2>2. (q + 1) * d = q * d + d
      BY <1>2
    <2> QED
      BY <2>1, <2>2, <1>2, MulType
  <1>5. p = q
    BY <1>2, <1>3, <1>4
  <1>6. s = r
    BY <1>2, <1>5, MulType
  <1> QED
    BY <1>1, <1>5, <1>6 DEF p, s

-----------------------------------------------------------------------------
(* Sums *)

(* The sums of f's first elements, up to n of them.                         *)
Sums(f, g, n) ==
  g = [k \in 0 .. n |-> IF k = 0 THEN 0 ELSE g[k - 1] + f[k - 1]]

(* There are such sums for every f and n.                                   *)
LEMMA SumsExist ==
  ASSUME NEW f, NEW n \in Nat
  PROVE  \E g : Sums(f, g, n)
  <1> DEFINE S == {m \in Nat : \E g : Sums(f, g, m)}
  <1>1. 0 \in S
    <2> DEFINE g == [k \in 0 .. 0 |-> 0]
    <2>1. g = [k \in 0 .. 0 |-> IF k = 0 THEN 0 ELSE g[k - 1] + f[k - 1]]
      OBVIOUS
    <2>2. Sums(f, g, 0)
      BY ONLY <2>1 DEF Sums
    <2> QED
      BY <2>2
  <1>2. ASSUME NEW m \in Nat, m \in S
        PROVE  m + 1 \in S
    <2>1. PICK g : Sums(f, g, m)
      BY <1>2
    <2> DEFINE h == [k \in 0 .. m + 1 |-> IF k = m + 1 THEN g[m] + f[m] ELSE g[k]]
    <2>2. \A k \in 0 .. m : g[k] = IF k = 0 THEN 0 ELSE g[k - 1] + f[k - 1]
      BY ONLY <2>1, m \in Nat DEF Sums
    <2>3. \A k \in 0 .. m + 1 : h[k] = IF k = 0 THEN 0 ELSE h[k - 1] + f[k - 1]
      BY <2>2
    <2>4. h = [k \in 0 .. m + 1 |-> h[k]]
      OBVIOUS
    <2> HIDE DEF h
    <2>5. Sums(f, h, m + 1)
      BY <2>3, <2>4 DEF Sums
    <2> QED
      BY <2>5
  <1> HIDE DEF S
  <1>3. \A m \in Nat : m \in S
    BY <1>1, <1>2, Induction
  <1> QED
    BY <1>3 DEF S

(* And they do not depend on n.                                             *)
LEMMA SumsAgreeUpTo ==
  ASSUME NEW f, NEW g, NEW h, NEW n \in Nat, NEW m \in Nat,
         Sums(f, g, n), Sums(f, h, m), NEW k \in Nat, k <= n, k <= m
  PROVE  g[k] = h[k]
  <1> DEFINE S == {l \in Nat : l <= n /\ l <= m => g[l] = h[l]}
  <1>1. \A l \in 0 .. n : g[l] = IF l = 0 THEN 0 ELSE g[l - 1] + f[l - 1]
    BY DEF Sums
  <1>2. \A l \in 0 .. m : h[l] = IF l = 0 THEN 0 ELSE h[l - 1] + f[l - 1]
    BY DEF Sums
  <1>3. 0 \in S
    BY <1>1, <1>2
  <1>4. ASSUME NEW l \in Nat, l \in S
        PROVE  l + 1 \in S
    BY <1>1, <1>2, <1>4
  <1> HIDE DEF S
  <1>5. \A l \in Nat : l \in S
    BY <1>3, <1>4, Induction
  <1> QED
    BY <1>5 DEF S

(* What Sum computes, from its definition: that the recursion has a solution *)
(* is what takes the work.                                                  *)
LEMMA SumDef ==
  ASSUME NEW f
  PROVE  /\ Sum(f, 0) = 0
         /\ \A n \in Nat : Sum(f, n + 1) = Sum(f, n) + f[n]
  <1> DEFINE Upto(n) == CHOOSE g : Sums(f, g, n)
             F == [n \in Nat |-> Upto(n)[n]]
  <1>1. \A n \in Nat : Sums(f, Upto(n), n)
    BY SumsExist
  <1> HIDE DEF Upto
  <1>2. ASSUME NEW n \in Nat
        PROVE  F[n] = IF n = 0 THEN 0 ELSE F[n - 1] + f[n - 1]
    <2>1. Upto(n)[n] = IF n = 0 THEN 0 ELSE Upto(n)[n - 1] + f[n - 1]
      BY <1>1 DEF Sums
    <2>2. CASE n = 0
      BY <2>1, <2>2
    <2>3. CASE n # 0
      <3>1. n - 1 \in Nat /\ n - 1 <= n
        BY <2>3
      <3>2. Upto(n)[n - 1] = Upto(n - 1)[n - 1]
        BY <1>1, <3>1, SumsAgreeUpTo
      <3> QED
        BY <2>1, <2>3, <3>1, <3>2
    <2> QED
      BY <2>2, <2>3
  <1>3. F = [n \in Nat |-> F[n]]
    OBVIOUS
  <1> HIDE DEF F
  <1>4. F = [n \in Nat |-> IF n = 0 THEN 0 ELSE F[n - 1] + f[n - 1]]
    BY <1>2, <1>3
  <1> DEFINE sum == CHOOSE g : g = [n \in Nat |-> IF n = 0 THEN 0 ELSE g[n - 1] + f[n - 1]]
  <1>5. sum = [n \in Nat |-> IF n = 0 THEN 0 ELSE sum[n - 1] + f[n - 1]]
    BY <1>4
  <1>6. \A n : Sum(f, n) = sum[n]
    BY DEF Sum
  <1> HIDE DEF sum
  <1>7. sum[0] = 0 /\ \A n \in Nat : sum[n + 1] = sum[n] + f[n]
    BY <1>5
  <1> QED
    BY <1>6, <1>7

(* A sum of integers is an integer, and one of positive numbers is positive. *)
LEMMA SumType ==
  ASSUME NEW f, NEW n \in Nat, \A k \in 0 .. n - 1 : f[k] \in Int
  PROVE  Sum(f, n) \in Int
  <1> DEFINE S == {m \in Nat : m <= n => Sum(f, m) \in Int}
  <1>1. 0 \in S
    BY SumDef
  <1>2. ASSUME NEW m \in Nat, m \in S
        PROVE  m + 1 \in S
    BY <1>2, SumDef
  <1> HIDE DEF S
  <1>3. \A m \in Nat : m \in S
    BY <1>1, <1>2, Induction
  <1> QED
    BY <1>3 DEF S

LEMMA SumPositive ==
  ASSUME NEW f, NEW n \in Nat \ {0}, \A k \in 0 .. n - 1 : f[k] \in Nat \ {0}
  PROVE  Sum(f, n) \in Nat \ {0}
  <1> DEFINE S == {m \in Nat : m < n => Sum(f, m + 1) \in Nat \ {0}}
  <1>1. 0 \in S
    <2>1. Sum(f, 0 + 1) = Sum(f, 0) + f[0] /\ Sum(f, 0) = 0
      BY SumDef
    <2> QED
      BY <2>1
  <1>2. ASSUME NEW m \in Nat, m \in S
        PROVE  m + 1 \in S
    <2>1. Sum(f, (m + 1) + 1) = Sum(f, m + 1) + f[m + 1]
      BY SumDef
    <2> QED
      BY <1>2, <2>1
  <1> HIDE DEF S
  <1>3. \A m \in Nat : m \in S
    BY <1>1, <1>2, Induction
  <1>4. n - 1 \in Nat /\ (n - 1) + 1 = n
    OBVIOUS
  <1> QED
    BY <1>3, <1>4 DEF S

(* The sum depends on no more than the elements it adds.                    *)
LEMMA SumExt ==
  ASSUME NEW f, NEW g, NEW n \in Nat, \A k \in 0 .. n - 1 : f[k] = g[k]
  PROVE  Sum(f, n) = Sum(g, n)
  <1> DEFINE S == {m \in Nat : m <= n => Sum(f, m) = Sum(g, m)}
  <1>1. 0 \in S
    BY SumDef
  <1>2. ASSUME NEW m \in Nat, m \in S
        PROVE  m + 1 \in S
    BY <1>2, SumDef
  <1> HIDE DEF S
  <1>3. \A m \in Nat : m \in S
    BY <1>1, <1>2, Induction
  <1> QED
    BY <1>3 DEF S

(* Adding element by element adds the sums.                                 *)
LEMMA SumAdd ==
  ASSUME NEW n \in Nat, NEW f, NEW g, NEW h,
         \A k \in 0 .. n - 1 : f[k] \in Int /\ g[k] \in Int /\ h[k] = f[k] + g[k]
  PROVE  Sum(h, n) = Sum(f, n) + Sum(g, n)
  <1> DEFINE S == {m \in Nat : m <= n => /\ Sum(f, m) \in Int /\ Sum(g, m) \in Int
                                         /\ Sum(h, m) = Sum(f, m) + Sum(g, m)}
  <1>1. 0 \in S
    BY SumDef
  <1>2. ASSUME NEW m \in Nat, m \in S
        PROVE  m + 1 \in S
    BY <1>2, SumDef
  <1> HIDE DEF S
  <1>3. \A m \in Nat : m \in S
    BY <1>1, <1>2, Induction
  <1> QED
    BY <1>3 DEF S

(* The first m elements, and then d more.                                   *)
LEMMA SumSplit ==
  ASSUME NEW f, NEW m \in Nat, NEW d \in Nat, NEW g,
         \A k \in 0 .. (m + d) - 1 : f[k] \in Int,
         \A j \in 0 .. d - 1 : g[j] = f[m + j]
  PROVE  Sum(f, m + d) = Sum(f, m) + Sum(g, d)
  <1> DEFINE S == {e \in Nat : e <= d => /\ Sum(g, e) \in Int
                                         /\ Sum(f, m + e) = Sum(f, m) + Sum(g, e)}
  <1>1. Sum(f, m) \in Int
    BY SumType
  <1>2. 0 \in S
    BY <1>1, SumDef
  <1>3. ASSUME NEW e \in Nat, e \in S
        PROVE  e + 1 \in S
    <2>1. /\ Sum(g, e + 1) = Sum(g, e) + g[e]
          /\ Sum(f, (m + e) + 1) = Sum(f, m + e) + f[m + e]
      BY SumDef
    <2>2. m + (e + 1) = (m + e) + 1
      OBVIOUS
    <2> QED
      BY <1>1, <1>3, <2>1, <2>2
  <1> HIDE DEF S
  <1>4. \A e \in Nat : e \in S
    BY <1>2, <1>3, Induction
  <1> QED
    BY <1>4 DEF S

\* h[k] is the sum of the d elements of g[k], the k-th of n groups of f.
Grouped(f, g, h, n, d) ==
  /\ \A k \in 0 .. n * d - 1 : f[k] \in Int
  /\ \A k \in 0 .. n - 1, j \in 0 .. d - 1 : g[k][j] = f[k * d + j]
  /\ \A k \in 0 .. n - 1 : h[k] = Sum(g[k], d)

(* A sum of n * d elements is the sum of the sums of n groups of d.         *)
LEMMA SumGrouped ==
  ASSUME NEW n \in Nat, NEW d \in Nat, NEW f, NEW g, NEW h, Grouped(f, g, h, n, d)
  PROVE  Sum(f, n * d) = Sum(h, n)
  <1>0. /\ \A k \in 0 .. n * d - 1 : f[k] \in Int
        /\ \A k \in 0 .. n - 1, j \in 0 .. d - 1 : g[k][j] = f[k * d + j]
        /\ \A k \in 0 .. n - 1 : h[k] = Sum(g[k], d)
    BY DEF Grouped
  <1> DEFINE S == {m \in Nat : m <= n => Sum(f, m * d) = Sum(h, m)}
  <1>1. 0 \in S
    BY SumDef
  <1>2. ASSUME NEW m \in Nat, m \in S, m + 1 <= n
        PROVE  Sum(f, (m + 1) * d) = Sum(h, m + 1)
    <2>1. /\ m * d \in Nat /\ (m + 1) * d = m * d + d
          /\ (m + 1) * d <= n * d /\ n * d \in Nat
      BY <1>2, MulLeq, MulType
    <2>2. \A k \in 0 .. (m * d + d) - 1 : f[k] \in Int
      <3> SUFFICES ASSUME NEW k \in 0 .. (m * d + d) - 1
                   PROVE  f[k] \in Int
        OBVIOUS
      <3>1. k \in 0 .. n * d - 1
        BY <2>1
      <3> QED
        BY <1>0, <3>1
    <2>3. \A j \in 0 .. d - 1 : g[m][j] = f[m * d + j]
      BY <1>0, <1>2
    <2> DEFINE md == m * d
    <2> HIDE DEF md
    <2>4. Sum(f, md + d) = Sum(f, md) + Sum(g[m], d)
      <3>1. md \in Nat
        BY <2>1 DEF md
      <3>2. \A k \in 0 .. (md + d) - 1 : f[k] \in Int
        BY <2>2 DEF md
      <3>3. \A j \in 0 .. d - 1 : g[m][j] = f[md + j]
        BY <2>3 DEF md
      <3> QED
        BY ONLY <3>1, <3>2, <3>3, SumSplit, d \in Nat
    <2>5. Sum(h, m + 1) = Sum(h, m) + h[m] /\ h[m] = Sum(g[m], d)
      BY <1>0, <1>2, SumDef
    <2> QED
      BY <1>2, <2>1, <2>4, <2>5 DEF md
  <1>3. ASSUME NEW m \in Nat, m \in S
        PROVE  m + 1 \in S
    BY <1>2, <1>3
  <1> HIDE DEF S
  <1>4. \A m \in Nat : m \in S
    BY <1>1, <1>3, Induction
  <1> QED
    BY <1>4 DEF S

\* f[k] is the sum of the k-th row of g, and e[j] that of its j-th column.
Summed(f, e, g, h, n, d) ==
  /\ \A k \in 0 .. n - 1, j \in 0 .. d - 1 : g[k][j] \in Int /\ h[j][k] = g[k][j]
  /\ \A k \in 0 .. n - 1 : f[k] = Sum(g[k], d)
  /\ \A j \in 0 .. d - 1 : e[j] = Sum(h[j], n)

(* The order of two nested loops does not matter.                           *)
LEMMA SumSwap ==
  ASSUME NEW n \in Nat, NEW d \in Nat, NEW g, NEW h, NEW f, NEW e,
         Summed(f, e, g, h, n, d)
  PROVE  Sum(f, n) = Sum(e, d)
  <1>0. /\ \A k \in 0 .. n - 1, j \in 0 .. d - 1 : g[k][j] \in Int /\ h[j][k] = g[k][j]
        /\ \A k \in 0 .. n - 1 : f[k] = Sum(g[k], d)
        /\ \A j \in 0 .. d - 1 : e[j] = Sum(h[j], n)
    BY DEF Summed
  <1> DEFINE Part(m) == [j \in 0 .. d - 1 |-> Sum(h[j], m)]
             S == {m \in Nat : m <= n => Sum(f, m) = Sum(Part(m), d)}
  <1>1. 0 \in S
    <2>1. \A j \in 0 .. d - 1 : Part(0)[j] = 0
      BY SumDef
    <2> DEFINE Z == {m \in Nat : m <= d => Sum(Part(0), m) = 0}
    <2>2. 0 \in Z
      BY SumDef
    <2>3. ASSUME NEW m \in Nat, m \in Z
          PROVE  m + 1 \in Z
      <3>1. Sum(Part(0), m + 1) = Sum(Part(0), m) + Part(0)[m]
        BY SumDef
      <3> QED
        BY <2>1, <2>3, <3>1
    <2> HIDE DEF Z
    <2>4. d \in Z
      BY <2>2, <2>3, Induction
    <2>5. Sum(Part(0), d) = 0
      BY <2>4 DEF Z
    <2>6. Sum(f, 0) = 0
      BY SumDef
    <2> QED
      BY <2>5, <2>6
  <1>2. ASSUME NEW m \in Nat, m \in S, m + 1 <= n
        PROVE  Sum(f, m + 1) = Sum(Part(m + 1), d)
    <2>1. \A j \in 0 .. d - 1 : /\ Part(m)[j] \in Int
                                /\ g[m][j] \in Int
                                /\ Part(m + 1)[j] = Part(m)[j] + g[m][j]
      <3> SUFFICES ASSUME NEW j \in 0 .. d - 1
                   PROVE  /\ Part(m)[j] \in Int
                          /\ g[m][j] \in Int
                          /\ Part(m + 1)[j] = Part(m)[j] + g[m][j]
        OBVIOUS
      <3>1. Sum(h[j], m) \in Int
        <4>1. ASSUME NEW k \in 0 .. m - 1
              PROVE  h[j][k] \in Int
          <5>1. k \in 0 .. n - 1
            BY <1>2
          <5> QED
            BY <1>0, <5>1
        <4> QED
          BY <4>1, SumType
      <3>2. Sum(h[j], m + 1) = Sum(h[j], m) + h[j][m]
        BY SumDef
      <3> QED
        BY <1>0, <1>2, <3>1, <3>2
    <2> HIDE DEF Part
    <2>2. Sum(Part(m + 1), d) = Sum(Part(m), d) + Sum(g[m], d)
      BY ONLY <2>1, SumAdd, d \in Nat
    <2>3. Sum(f, m + 1) = Sum(f, m) + Sum(g[m], d)
      BY <1>0, <1>2, SumDef
    <2> QED
      BY <1>2, <2>2, <2>3
  <1>3. ASSUME NEW m \in Nat, m \in S
        PROVE  m + 1 \in S
    BY <1>2, <1>3
  <1> HIDE DEF S
  <1>4. n \in S
    BY <1>1, <1>3, Induction
  <1>5. Sum(f, n) = Sum(Part(n), d)
    BY <1>4 DEF S
  <1>6. \A j \in 0 .. d - 1 : Part(n)[j] = e[j]
    BY <1>0
  <1> HIDE DEF Part
  <1>7. Sum(Part(n), d) = Sum(e, d)
    BY <1>6, SumExt
  <1> QED
    BY <1>5, <1>7

-----------------------------------------------------------------------------
(* Indexes *)

Flat == 0 .. Size * Size - 1

\* Blocks in a row, and in a column.
Blocks == Size \div Dim

(* main()'s matrices: InputsAssumption says that these are considered.      *)
Squares == [width : {Size}, height : {Size}, data : [Flat -> Nat \ {0}]]

(* The sizes of a matrix, a block, and how many blocks there are.           *)
LEMMA Sizes ==
  /\ Dim \in Nat \ {0} /\ Size \in Nat \ {0} /\ Blocks \in Nat \ {0}
  /\ Size = Blocks * Dim
  /\ Area \in Nat \ {0} /\ Area = Dim * Dim
  /\ Size * Size \in Nat \ {0} /\ Size * Size = (Blocks * Blocks) * Area
  /\ Blocks * Blocks \in Nat \ {0}
  <1>1. Dim \in Nat \ {0} /\ Size \in Nat \ {0} /\ Size % Dim = 0
    BY DimAssumption
  <1>2. Blocks \in Nat /\ Size = Blocks * Dim
    <2>1. Size = (Size \div Dim) * Dim + (Size % Dim) /\ Size \div Dim \in Nat
      BY <1>1, DivMod
    <2> QED
      BY <1>1, <2>1, MulType DEF Blocks
  <1>3. Blocks # 0
    BY <1>1, <1>2
  <1>4. Area \in Nat \ {0} /\ Area = Dim * Dim
    BY <1>1 DEF Area
  <1>5. Size * Size \in Nat \ {0} /\ Blocks * Blocks \in Nat \ {0}
    BY <1>1, <1>2, <1>3
  <1>6. (Blocks * Dim) * (Blocks * Dim) = (Blocks * Blocks) * (Dim * Dim)
    BY <1>1, <1>2
  <1> QED
    BY <1>1, <1>2, <1>3, <1>4, <1>5, <1>6

(* Row by row: of h rows of w elements, the flat indexes are just those of  *)
(* a row and a column.                                                      *)
LEMMA RowMajor ==
  ASSUME NEW h \in Nat \ {0}, NEW w \in Nat \ {0},
         NEW row \in 0 .. h - 1, NEW col \in 0 .. w - 1
  PROVE  /\ row * w + col \in 0 .. h * w - 1
         /\ (row * w + col) \div w = row
         /\ (row * w + col) % w = col
  <1>1. (row + 1) * w <= h * w /\ (row + 1) * w = row * w + w
    BY MulLeq
  <1>2. row * w \in Nat /\ h * w \in Nat
    BY MulType
  <1>3. row * w + col \in 0 .. h * w - 1
    BY <1>1, <1>2
  <1> QED
    BY <1>3, DivUnique

(* Every index has them.                                                    *)
LEMMA RowAndColumn ==
  ASSUME NEW h \in Nat \ {0}, NEW w \in Nat \ {0}, NEW n \in 0 .. h * w - 1
  PROVE  /\ n \div w \in 0 .. h - 1 /\ n % w \in 0 .. w - 1
         /\ n = (n \div w) * w + (n % w)
  <1>1. h * w \in Nat /\ n \in Nat
    BY MulType
  <1>2. n \div w \in Nat /\ n % w \in 0 .. w - 1 /\ n = (n \div w) * w + (n % w)
    BY <1>1, DivMod
  <1>3. ASSUME h <= n \div w
        PROVE  FALSE
    <2>1. h * w <= (n \div w) * w
      BY <1>2, <1>3, MulLeq
    <2> QED
      BY <1>1, <1>2, <2>1, MulType
  <1> QED
    BY <1>2, <1>3

(* Squares are equal whose elements are.                                    *)
LEMMA SquaresEqual ==
  ASSUME NEW m \in Squares, NEW n \in Squares,
         \A row, col \in 0 .. Size - 1 : m.data[row * Size + col] = n.data[row * Size + col]
  PROVE  m = n
  <1>1. ASSUME NEW x \in Flat
        PROVE  m.data[x] = n.data[x]
    <2>1. /\ x \div Size \in 0 .. Size - 1 /\ x % Size \in 0 .. Size - 1
          /\ x = (x \div Size) * Size + (x % Size)
      BY Sizes, RowAndColumn DEF Flat
    <2> QED
      BY <2>1
  <1>2. m.data = n.data
    BY <1>1 DEF Squares
  <1> QED
    BY <1>2 DEF Squares

(* An element of a square.                                                  *)
LEMMA Element ==
  ASSUME NEW m \in Squares, NEW row \in 0 .. Size - 1, NEW col \in 0 .. Size - 1
  PROVE  /\ row * Size + col \in Flat
         /\ m.data[row * Size + col] \in Nat \ {0}
  <1>1. row * Size + col \in Flat
    BY Sizes, RowMajor DEF Flat
  <1> QED
    BY <1>1 DEF Squares

-----------------------------------------------------------------------------
(* Transposing *)

(* An element of the transpose.                                             *)
LEMMA TransposedElement ==
  ASSUME NEW m \in Squares
  PROVE  /\ Transposed(m) \in Squares
         /\ \A row, col \in 0 .. Size - 1 :
              Transposed(m).data[row * Size + col] = m.data[col * Size + row]
  <1>1. m.width = Size /\ m.height = Size
    BY DEF Squares
  <1>2. Transposed(m) = [width |-> Size, height |-> Size,
                         data |-> [n \in Flat |-> m.data[(n % Size) * Size + (n \div Size)]]]
    BY <1>1 DEF Transposed, Matrix, Flat
  <1>3. \A n \in Flat : n % Size \in 0 .. Size - 1 /\ n \div Size \in 0 .. Size - 1
    BY Sizes, RowAndColumn DEF Flat
  <1>4. \A n \in Flat : m.data[(n % Size) * Size + (n \div Size)] \in Nat \ {0}
    BY <1>3, Element
  <1>5. Transposed(m) \in Squares
    BY <1>2, <1>4 DEF Squares
  <1>6. ASSUME NEW row \in 0 .. Size - 1, NEW col \in 0 .. Size - 1
        PROVE  Transposed(m).data[row * Size + col] = m.data[col * Size + row]
    <2>1. /\ row * Size + col \in Flat
          /\ (row * Size + col) \div Size = row
          /\ (row * Size + col) % Size = col
      BY Sizes, RowMajor DEF Flat
    <2> QED
      BY <1>2, <2>1
  <1> QED
    BY <1>5, <1>6

(* Block by block comes to the same.                                        *)
LEMMA Transposed8x8IsTransposed ==
  ASSUME NEW m \in Squares
  PROVE  Transposed8x8(m) = Transposed(m)
  <1>1. m.width = Size /\ m.height = Size
    BY DEF Squares
  <1>2. \A n \in Flat : n % Size \in Nat /\ n \div Size \in Nat
    BY Sizes, RowAndColumn DEF Flat
  <1>3. \A x \in Nat : (x \div Dim) * Dim + (x % Dim) = x
    BY Sizes, DivMod
  <1>4. [n \in Flat |-> m.data[(((n % Size) \div Dim) * Dim + ((n % Size) % Dim)) * Size
                               + (((n \div Size) \div Dim) * Dim + ((n \div Size) % Dim))]]
        = [n \in Flat |-> m.data[(n % Size) * Size + (n \div Size)]]
    BY <1>2, <1>3
  <1> QED
    BY <1>1, <1>4 DEF Transposed, Transposed8x8, Matrix, Flat

(* Transposing twice gives the matrix back.                                 *)
LEMMA TransposedTwice ==
  ASSUME NEW m \in Squares
  PROVE  Transposed(Transposed(m)) = m
  <1>1. Transposed(m) \in Squares /\ Transposed(Transposed(m)) \in Squares
    BY TransposedElement
  <1>2. \A row, col \in 0 .. Size - 1 :
          Transposed(Transposed(m)).data[row * Size + col] = m.data[row * Size + col]
    BY <1>1, TransposedElement
  <1> QED
    BY <1>1, <1>2, SquaresEqual

-----------------------------------------------------------------------------
(* Products *)

(* A product of squares of positive elements is another.                    *)
LEMMA DotPositive ==
  ASSUME NEW m \in Squares, NEW n \in Squares,
         NEW row \in 0 .. Size - 1, NEW col \in 0 .. Size - 1
  PROVE  Dot(m, n, row, col) \in Nat \ {0}
  <1> DEFINE f == [k \in 0 .. Size - 1 |-> m.data[row * Size + k] * n.data[k * Size + col]]
  <1>1. m.width = Size /\ n.width = Size
    BY DEF Squares
  <1>2. ASSUME NEW k \in 0 .. Size - 1
        PROVE  f[k] \in Nat \ {0}
    <2>1. m.data[row * Size + k] \in Nat \ {0} /\ n.data[k * Size + col] \in Nat \ {0}
      BY Element
    <2> QED
      BY <2>1
  <1>3. Dot(m, n, row, col) = Sum(f, Size)
    BY <1>1 DEF Dot
  <1> QED
    BY <1>2, <1>3, SumPositive, Sizes

(* An element of the product.                                               *)
LEMMA SimpleMatMulElement ==
  ASSUME NEW m \in Squares, NEW n \in Squares
  PROVE  /\ SimpleMatMul(m, n) \in Squares
         /\ \A row, col \in 0 .. Size - 1 :
              SimpleMatMul(m, n).data[row * Size + col] = Dot(m, n, row, col)
  <1>1. m.height = Size /\ n.width = Size
    BY DEF Squares
  <1>2. SimpleMatMul(m, n) = [width |-> Size, height |-> Size,
                              data |-> [x \in Flat |-> Dot(m, n, x \div Size, x % Size)]]
    BY <1>1 DEF SimpleMatMul, Matrix, Flat
  <1>3. \A x \in Flat : x % Size \in 0 .. Size - 1 /\ x \div Size \in 0 .. Size - 1
    BY Sizes, RowAndColumn DEF Flat
  <1>4. \A x \in Flat : Dot(m, n, x \div Size, x % Size) \in Nat \ {0}
    BY <1>3, DotPositive
  <1>5. SimpleMatMul(m, n) \in Squares
    BY <1>2, <1>4 DEF Squares
  <1>6. ASSUME NEW row \in 0 .. Size - 1, NEW col \in 0 .. Size - 1
        PROVE  SimpleMatMul(m, n).data[row * Size + col] = Dot(m, n, row, col)
    <2>1. /\ row * Size + col \in Flat
          /\ (row * Size + col) \div Size = row
          /\ (row * Size + col) % Size = col
      BY Sizes, RowMajor DEF Flat
    <2> QED
      BY <1>2, <2>1
  <1> QED
    BY <1>5, <1>6

(* What TransposeMatMul leaves: not the product but its transpose.          *)
LEMMA TransposeMatMulTransposes ==
  ASSUME NEW m \in Squares, NEW n \in Squares
  PROVE  TransposeMatMul(m, n) = Transposed(SimpleMatMul(m, n))
  <1> DEFINE bb == Transposed8x8(n)
             f(row, col) == [k \in 0 .. Size - 1 |->
                               m.data[row * Size + k] * bb.data[col * Size + k]]
             cc == [width |-> Size, height |-> Size,
                    data |-> [x \in Flat |-> Sum(f(x \div Size, x % Size), Size)]]
  <1>1. m.width = Size /\ m.height = Size /\ n.width = Size /\ n.height = Size
    BY DEF Squares
  <1>2. bb = Transposed(n) /\ bb \in Squares /\ bb.width = Size
    BY Transposed8x8IsTransposed, TransposedElement DEF Squares
  <1>3. TransposeMatMul(m, n)
        = [width |-> Size, height |-> Size, data |-> Transposed8x8(cc).data]
    BY <1>1, <1>2 DEF TransposeMatMul, Matrix, Flat
  <1>4. ASSUME NEW row \in 0 .. Size - 1, NEW col \in 0 .. Size - 1
        PROVE  Sum(f(row, col), Size) = Dot(m, n, row, col)
    <2> DEFINE g == [k \in 0 .. Size - 1 |-> m.data[row * Size + k] * n.data[k * Size + col]]
    <2>1. \A k \in 0 .. Size - 1 : bb.data[col * Size + k] = n.data[k * Size + col]
      BY <1>2, TransposedElement
    <2>2. f(row, col) = g
      BY <2>1
    <2>3. Dot(m, n, row, col) = Sum(g, Size)
      BY <1>1 DEF Dot
    <2> QED
      BY <2>2, <2>3
  <1>5. cc = SimpleMatMul(m, n)
    <2>1. \A x \in Flat : x % Size \in 0 .. Size - 1 /\ x \div Size \in 0 .. Size - 1
      BY Sizes, RowAndColumn DEF Flat
    <2>2. \A x \in Flat :
            Sum(f(x \div Size, x % Size), Size) = Dot(m, n, x \div Size, x % Size)
      BY <1>4, <2>1
    <2> HIDE DEF f
    <2>3. cc.data = [x \in Flat |-> Dot(m, n, x \div Size, x % Size)]
      BY <2>2
    <2> QED
      BY <1>1, <2>3 DEF SimpleMatMul, Matrix, Flat
  <1> HIDE DEF cc, bb
  <1>6. cc \in Squares
    BY <1>5, SimpleMatMulElement
  <1>7. Transposed8x8(cc) = Transposed(cc) /\ Transposed(cc) \in Squares
    BY <1>6, Transposed8x8IsTransposed, TransposedElement
  <1>8. Transposed(cc) = [width |-> Size, height |-> Size, data |-> Transposed(cc).data]
    BY <1>7 DEF Squares
  <1> QED
    BY <1>3, <1>5, <1>7, <1>8

-----------------------------------------------------------------------------
(* Block-major order *)

\* Where block-major order has the element in row r and column s of a block.
BlockIndex(block_row, block_col, r, s) ==
  Area * (block_row * Blocks + block_col) + r * Dim + s

(* Block by block: the flat indexes are just those of a place in a block.   *)
LEMMA BlockMajor ==
  ASSUME NEW br \in 0 .. Blocks - 1, NEW bc \in 0 .. Blocks - 1,
         NEW r \in 0 .. Dim - 1, NEW s \in 0 .. Dim - 1,
         NEW x, x = BlockIndex(br, bc, r, s)
  PROVE  /\ x \in Flat
         /\ (x \div Area) \div Blocks = br /\ (x \div Area) % Blocks = bc
         /\ (x % Area) \div Dim = r /\ x % Dim = s
  <1> DEFINE q == br * Blocks + bc
             t == r * Dim + s
  <1>1. /\ Dim \in Nat \ {0} /\ Blocks \in Nat \ {0} /\ Area \in Nat \ {0}
        /\ Blocks * Blocks \in Nat \ {0} /\ Area = Dim * Dim
        /\ Size * Size = (Blocks * Blocks) * Area
    BY Sizes
  <1>2. /\ q \in 0 .. Blocks * Blocks - 1
        /\ q \div Blocks = br /\ q % Blocks = bc
    BY <1>1, RowMajor
  <1>3. t \in 0 .. Area - 1 /\ t \div Dim = r
    BY <1>1, RowMajor
  <1>4. x = (q * Dim + r) * Dim + s
    BY <1>1, <1>2 DEF BlockIndex
  <1>5. x = q * Area + t
    BY <1>1, <1>2 DEF BlockIndex
  <1> HIDE DEF q, t
  <1>6. x \in Flat /\ x \div Area = q /\ x % Area = t
    <2> DEFINE h == Blocks * Blocks
    <2>1. h \in Nat \ {0} /\ q \in 0 .. h - 1
      BY <1>1, <1>2
    <2> HIDE DEF h
    <2>2. /\ q * Area + t \in 0 .. h * Area - 1
          /\ (q * Area + t) \div Area = q /\ (q * Area + t) % Area = t
      BY ONLY <1>1, <1>3, <2>1, RowMajor
    <2> QED
      BY <1>1, <1>5, <2>2 DEF Flat, h
  <1>7. x % Dim = s
    <2>1. q * Dim + r \in Nat
      BY <1>1, <1>2, MulType
    <2> QED
      BY <1>1, <1>4, <2>1, DivUnique
  <1> QED
    BY <1>2, <1>3, <1>6, <1>7

(* Every index has them.                                                    *)
LEMMA BlockAndPlace ==
  ASSUME NEW x \in Flat
  PROVE  /\ (x \div Area) \div Blocks \in 0 .. Blocks - 1
         /\ (x \div Area) % Blocks \in 0 .. Blocks - 1
         /\ (x % Area) \div Dim \in 0 .. Dim - 1
         /\ x % Dim \in 0 .. Dim - 1
  <1>1. /\ Dim \in Nat \ {0} /\ Blocks \in Nat \ {0} /\ Area \in Nat \ {0}
        /\ Blocks * Blocks \in Nat \ {0} /\ Area = Dim * Dim
        /\ Size * Size = (Blocks * Blocks) * Area /\ Size * Size \in Nat
    BY Sizes
  <1>2. x \div Area \in 0 .. Blocks * Blocks - 1 /\ x % Area \in 0 .. Area - 1 /\ x \in Nat
    <2> DEFINE h == Blocks * Blocks
    <2>1. h \in Nat \ {0} /\ x \in 0 .. h * Area - 1
      BY <1>1 DEF Flat
    <2> HIDE DEF h
    <2>2. x \div Area \in 0 .. h - 1 /\ x % Area \in 0 .. Area - 1
      BY ONLY <1>1, <2>1, RowAndColumn
    <2> QED
      BY <1>1, <2>2 DEF Flat, h
  <1> QED
    BY <1>1, <1>2, RowAndColumn, DivMod

(* The rows, and the columns, of a square are those of its blocks.          *)
LEMMA RowsOfBlocks ==
  /\ \A row \in 0 .. Size - 1 :
       /\ row \div Dim \in 0 .. Blocks - 1 /\ row % Dim \in 0 .. Dim - 1
       /\ row = (row \div Dim) * Dim + (row % Dim)
  /\ \A br \in 0 .. Blocks - 1, r \in 0 .. Dim - 1 : br * Dim + r \in 0 .. Size - 1
  BY Sizes, RowMajor, RowAndColumn

(* An element of the remapped matrix, and of the unmapped one.              *)
LEMMA BlockRemapElement ==
  ASSUME NEW m \in Squares
  PROVE  /\ BlockRemap(m) \in Squares
         /\ \A br, bc \in 0 .. Blocks - 1, r, s \in 0 .. Dim - 1 :
              BlockRemap(m).data[BlockIndex(br, bc, r, s)]
              = m.data[(br * Dim + r) * Size + (bc * Dim + s)]
  <1> DEFINE at(x) == m.data[(((x \div Area) \div Blocks) * Dim + ((x % Area) \div Dim)) * Size
                             + (((x \div Area) % Blocks) * Dim + (x % Dim))]
  <1>1. m.width = Size /\ m.height = Size /\ DOMAIN m.data = Flat
    BY DEF Squares
  <1>2. BlockRemap(m) = [width |-> Size, height |-> Size, data |-> [x \in Flat |-> at(x)]]
    BY <1>1 DEF BlockRemap, Blocks
  <1>3. ASSUME NEW x \in Flat
        PROVE  at(x) \in Nat \ {0}
    <2> DEFINE row == ((x \div Area) \div Blocks) * Dim + ((x % Area) \div Dim)
               col == ((x \div Area) % Blocks) * Dim + (x % Dim)
    <2>1. row \in 0 .. Size - 1 /\ col \in 0 .. Size - 1
      BY BlockAndPlace, RowsOfBlocks
    <2> HIDE DEF row, col
    <2>2. m.data[row * Size + col] \in Nat \ {0}
      BY <2>1, Element
    <2> QED
      BY <2>2 DEF row, col
  <1>4. BlockRemap(m) \in Squares
    <2> HIDE DEF at
    <2> QED
      BY <1>2, <1>3 DEF Squares
  <1>5. ASSUME NEW br \in 0 .. Blocks - 1, NEW bc \in 0 .. Blocks - 1,
               NEW r \in 0 .. Dim - 1, NEW s \in 0 .. Dim - 1
        PROVE  BlockRemap(m).data[BlockIndex(br, bc, r, s)]
               = m.data[(br * Dim + r) * Size + (bc * Dim + s)]
    <2> DEFINE x == BlockIndex(br, bc, r, s)
    <2>1. /\ x \in Flat
          /\ (x \div Area) \div Blocks = br /\ (x \div Area) % Blocks = bc
          /\ (x % Area) \div Dim = r /\ x % Dim = s
      BY BlockMajor
    <2> HIDE DEF x
    <2>2. at(x) = m.data[(br * Dim + r) * Size + (bc * Dim + s)]
      BY <2>1
    <2> HIDE DEF at
    <2>3. BlockRemap(m).data[x] = at(x)
      BY <1>2, <2>1
    <2> QED
      BY <2>2, <2>3 DEF x
  <1> QED
    BY <1>4, <1>5

LEMMA BlockUnmapElement ==
  ASSUME NEW m \in Squares
  PROVE  /\ BlockUnmap(m) \in Squares
         /\ \A row, col \in 0 .. Size - 1 :
              BlockUnmap(m).data[row * Size + col]
              = m.data[BlockIndex(row \div Dim, col \div Dim, row % Dim, col % Dim)]
  <1> DEFINE at(row, col) ==
               m.data[BlockIndex(row \div Dim, col \div Dim, row % Dim, col % Dim)]
  <1>1. m.width = Size /\ m.height = Size
    BY DEF Squares
  <1>2. BlockUnmap(m) = [width |-> Size, height |-> Size,
                         data |-> [x \in Flat |-> at(x \div Size, x % Size)]]
    BY <1>1 DEF BlockUnmap, Matrix, Flat, Blocks, BlockIndex
  <1>3. ASSUME NEW row \in 0 .. Size - 1, NEW col \in 0 .. Size - 1
        PROVE  at(row, col) \in Nat \ {0}
    <2>1. BlockIndex(row \div Dim, col \div Dim, row % Dim, col % Dim) \in Flat
      BY RowsOfBlocks, BlockMajor
    <2> QED
      BY <2>1 DEF Squares
  <1> HIDE DEF at
  <1>4. \A x \in Flat : at(x \div Size, x % Size) \in Nat \ {0}
    BY <1>3, Sizes, RowAndColumn DEF Flat
  <1>5. BlockUnmap(m) \in Squares
    BY <1>2, <1>4 DEF Squares
  <1>6. ASSUME NEW row \in 0 .. Size - 1, NEW col \in 0 .. Size - 1
        PROVE  BlockUnmap(m).data[row * Size + col] = at(row, col)
    <2>1. /\ row * Size + col \in Flat
          /\ (row * Size + col) \div Size = row
          /\ (row * Size + col) % Size = col
      BY Sizes, RowMajor DEF Flat
    <2> QED
      BY <1>2, <2>1
  <1> QED
    BY <1>5, <1>6 DEF at

(* One block times another, and the sum of such products: the dot product,  *)
(* a block at a time.                                                       *)
LEMMA BlockSumIsDot ==
  ASSUME NEW m \in Squares, NEW n \in Squares,
         NEW br \in 0 .. Blocks - 1, NEW bc \in 0 .. Blocks - 1,
         NEW r \in 0 .. Dim - 1, NEW s \in 0 .. Dim - 1
  PROVE  BlockSum(BlockRemap(m), BlockRemap(n), Blocks, br, bc, r, s)
         = Dot(m, n, br * Dim + r, bc * Dim + s)
  <1> DEFINE row == br * Dim + r
             col == bc * Dim + s
             aa == BlockRemap(m)
             bb == BlockRemap(n)
             f == [k \in 0 .. Size - 1 |-> m.data[row * Size + k] * n.data[k * Size + col]]
             g == [k \in 0 .. Blocks - 1 |->
                     [j \in 0 .. Dim - 1 |->
                        aa.data[BlockIndex(br, k, r, j)] * bb.data[BlockIndex(k, bc, j, s)]]]
             h == [k \in 0 .. Blocks - 1 |-> Sum(g[k], Dim)]
  <1>1. row \in 0 .. Size - 1 /\ col \in 0 .. Size - 1
    BY RowsOfBlocks
  <1>2. Dot(m, n, row, col) = Sum(f, Size)
    BY DEF Dot, Squares
  <1>3. BlockSum(aa, bb, Blocks, br, bc, r, s) = Sum(h, Blocks)
    <2>1. ASSUME NEW k \in 0 .. Blocks - 1
          PROVE  BlockDot(aa, Area * (br * Blocks + k), bb, Area * (k * Blocks + bc), r, s)
                 = h[k]
      BY DEF BlockDot, BlockIndex
    <2> HIDE DEF h
    <2>2. [k \in 0 .. Blocks - 1 |->
             BlockDot(aa, Area * (br * Blocks + k), bb, Area * (k * Blocks + bc), r, s)]
          = [k \in 0 .. Blocks - 1 |-> h[k]]
      BY <2>1
    <2>3. h = [k \in 0 .. Blocks - 1 |-> h[k]]
      BY DEF h
    <2> QED
      BY <2>2, <2>3 DEF BlockSum
  <1>4. ASSUME NEW k \in 0 .. Blocks - 1, NEW j \in 0 .. Dim - 1
        PROVE  /\ k * Dim + j \in 0 .. Size - 1
               /\ g[k][j] = f[k * Dim + j]
    <2>1. k * Dim + j \in 0 .. Size - 1
      BY RowsOfBlocks
    <2>2. /\ aa.data[BlockIndex(br, k, r, j)] = m.data[row * Size + (k * Dim + j)]
          /\ bb.data[BlockIndex(k, bc, j, s)] = n.data[(k * Dim + j) * Size + col]
      BY BlockRemapElement
    <2> QED
      BY <2>1, <2>2
  <1>5. \A k \in 0 .. Size - 1 : f[k] \in Int
    <2> SUFFICES ASSUME NEW k \in 0 .. Size - 1
                 PROVE  f[k] \in Int
      OBVIOUS
    <2>1. m.data[row * Size + k] \in Nat \ {0} /\ n.data[k * Size + col] \in Nat \ {0}
      BY <1>1, Element
    <2> QED
      BY <2>1
  <1>6. \A k \in 0 .. Blocks - 1 : h[k] = Sum(g[k], Dim)
    OBVIOUS
  <1> HIDE DEF f, g, h, row, col, aa, bb
  <1>7. Sum(f, Blocks * Dim) = Sum(h, Blocks)
    <2>1. \A k \in 0 .. Blocks * Dim - 1 : f[k] \in Int
      BY <1>5, Sizes
    <2>2. \A k \in 0 .. Blocks - 1, j \in 0 .. Dim - 1 : g[k][j] = f[k * Dim + j]
      BY <1>4
    <2>3. Blocks \in Nat /\ Dim \in Nat
      BY Sizes
    <2>4. Grouped(f, g, h, Blocks, Dim)
      BY <1>6, <2>1, <2>2 DEF Grouped
    <2> QED
      BY <2>3, <2>4, SumGrouped
  <1> QED
    BY <1>2, <1>3, <1>7, Sizes DEF row, col, aa, bb

(* The conversions are each other's inverse.                                *)
LEMMA UnmapRemapped ==
  ASSUME NEW m \in Squares
  PROVE  BlockUnmap(BlockRemap(m)) = m
  <1> DEFINE aa == BlockRemap(m)
  <1>1. aa \in Squares /\ BlockUnmap(aa) \in Squares
    BY BlockRemapElement, BlockUnmapElement
  <1>2. ASSUME NEW row \in 0 .. Size - 1, NEW col \in 0 .. Size - 1
        PROVE  BlockUnmap(aa).data[row * Size + col] = m.data[row * Size + col]
    <2>1. BlockUnmap(aa).data[row * Size + col]
          = aa.data[BlockIndex(row \div Dim, col \div Dim, row % Dim, col % Dim)]
      BY <1>1, BlockUnmapElement
    <2>2. aa.data[BlockIndex(row \div Dim, col \div Dim, row % Dim, col % Dim)]
          = m.data[((row \div Dim) * Dim + (row % Dim)) * Size
                   + ((col \div Dim) * Dim + (col % Dim))]
      BY RowsOfBlocks, BlockRemapElement
    <2> QED
      BY <2>1, <2>2, RowsOfBlocks
  <1> QED
    BY <1>1, <1>2, SquaresEqual

(* Multiplying the remapped matrices block by block, and unmapping what     *)
(* comes of it, is multiplying.                                             *)
LEMMA BlockRemapMatMulIsProduct ==
  ASSUME NEW m \in Squares, NEW n \in Squares
  PROVE  BlockRemapMatMul(m, n) = SimpleMatMul(m, n)
  <1> DEFINE aa == BlockRemap(m)
             bb == BlockRemap(n)
             at(x) == BlockSum(aa, bb, Blocks, (x \div Area) \div Blocks,
                               (x \div Area) % Blocks, (x % Area) \div Dim, x % Dim)
             cc == [width |-> Size, height |-> Size, data |-> [x \in Flat |-> at(x)]]
  <1>1. m.width = Size /\ m.height = Size /\ n.width = Size /\ n.height = Size
    BY DEF Squares
  <1>2. BlockRemapMatMul(m, n)
        = [width |-> Size, height |-> Size, data |-> BlockUnmap(cc).data]
    BY <1>1 DEF BlockRemapMatMul, Blocks, Flat
  <1>3. ASSUME NEW br \in 0 .. Blocks - 1, NEW bc \in 0 .. Blocks - 1,
               NEW r \in 0 .. Dim - 1, NEW s \in 0 .. Dim - 1,
               NEW x, x = BlockIndex(br, bc, r, s)
        PROVE  x \in Flat /\ at(x) = Dot(m, n, br * Dim + r, bc * Dim + s)
    <2>1. /\ x \in Flat
          /\ (x \div Area) \div Blocks = br /\ (x \div Area) % Blocks = bc
          /\ (x % Area) \div Dim = r /\ x % Dim = s
      BY <1>3, BlockMajor
    <2> QED
      BY <2>1, BlockSumIsDot
  <1>4. ASSUME NEW x \in Flat
        PROVE  at(x) \in Nat \ {0}
    BY BlockAndPlace, BlockSumIsDot, RowsOfBlocks, DotPositive
  <1> HIDE DEF at
  <1>5. cc \in Squares
    BY <1>4 DEF Squares
  <1>6. \A x \in Flat : cc.data[x] = at(x)
    OBVIOUS
  <1> HIDE DEF cc
  <1>7. ASSUME NEW row \in 0 .. Size - 1, NEW col \in 0 .. Size - 1
        PROVE  BlockUnmap(cc).data[row * Size + col] = Dot(m, n, row, col)
    <2> DEFINE x == BlockIndex(row \div Dim, col \div Dim, row % Dim, col % Dim)
    <2>1. BlockUnmap(cc).data[row * Size + col] = cc.data[x]
      BY <1>5, BlockUnmapElement
    <2>2. /\ x \in Flat
          /\ at(x) = Dot(m, n, (row \div Dim) * Dim + (row % Dim),
                               (col \div Dim) * Dim + (col % Dim))
      BY <1>3, RowsOfBlocks
    <2> QED
      BY <1>6, <2>1, <2>2, RowsOfBlocks
  <1>8. BlockUnmap(cc) \in Squares /\ SimpleMatMul(m, n) \in Squares
    BY <1>5, BlockUnmapElement, SimpleMatMulElement
  <1>9. BlockUnmap(cc) = SimpleMatMul(m, n)
    BY <1>7, <1>8, SimpleMatMulElement, SquaresEqual
  <1>10. BlockUnmap(cc) = [width |-> Size, height |-> Size, data |-> BlockUnmap(cc).data]
    BY <1>8 DEF Squares
  <1> QED
    BY <1>2, <1>9, <1>10

-----------------------------------------------------------------------------
(* Checksums *)

(* A checksum is the sum of those of the rows.                              *)
LEMMA ChecksumByRows ==
  ASSUME NEW m \in Squares, NEW g, NEW h,
         \A row, col \in 0 .. Size - 1 : g[row][col] = m.data[row * Size + col],
         \A row \in 0 .. Size - 1 : h[row] = Sum(g[row], Size)
  PROVE  Checksum(m) = Sum(h, Size)
  <1> DEFINE f == m.data
  <1>1. Checksum(m) = Sum(f, Size * Size)
    BY DEF Checksum, Squares
  <1>2. ASSUME NEW n \in 0 .. Size * Size - 1
        PROVE  f[n] \in Int
    <2>1. f \in [Flat -> Nat \ {0}]
      BY DEF Squares
    <2>2. n \in Flat
      BY DEF Flat
    <2>3. f[n] \in Nat \ {0}
      BY <2>1, <2>2
    <2> QED
      BY <2>3
  <1>3. \A row \in 0 .. Size - 1, col \in 0 .. Size - 1 : g[row][col] = f[row * Size + col]
    OBVIOUS
  <1> HIDE DEF f
  <1>4. Grouped(f, g, h, Size, Size)
    BY <1>2, <1>3 DEF Grouped
  <1>5. Size \in Nat
    BY Sizes
  <1>6. Sum(f, Size * Size) = Sum(h, Size)
    BY ONLY <1>4, <1>5, SumGrouped
  <1> QED
    BY <1>1, <1>6

(* The transpose has the same checksum.                                     *)
LEMMA TransposedChecksum ==
  ASSUME NEW m \in Squares
  PROVE  Checksum(Transposed(m)) = Checksum(m)
  <1> DEFINE t == Transposed(m)
             g == [row \in 0 .. Size - 1 |->
                     [col \in 0 .. Size - 1 |-> m.data[row * Size + col]]]
             h == [row \in 0 .. Size - 1 |->
                     [col \in 0 .. Size - 1 |-> t.data[row * Size + col]]]
             f == [row \in 0 .. Size - 1 |-> Sum(g[row], Size)]
             e == [row \in 0 .. Size - 1 |-> Sum(h[row], Size)]
  <1>1. t \in Squares
    BY TransposedElement
  <1>2. \A row \in 0 .. Size - 1, col \in 0 .. Size - 1 :
          g[row][col] \in Int /\ h[col][row] = g[row][col]
    BY TransposedElement, Element
  <1>3. \A row, col \in 0 .. Size - 1 : g[row][col] = m.data[row * Size + col]
    OBVIOUS
  <1>4. \A row, col \in 0 .. Size - 1 : h[row][col] = t.data[row * Size + col]
    OBVIOUS
  <1> HIDE DEF t, g, h
  <1>5. /\ \A row \in 0 .. Size - 1 : f[row] = Sum(g[row], Size)
        /\ \A row \in 0 .. Size - 1 : e[row] = Sum(h[row], Size)
    OBVIOUS
  <1> HIDE DEF f, e
  <1>6. Checksum(m) = Sum(f, Size)
    BY <1>3, <1>5, ChecksumByRows
  <1>7. Checksum(t) = Sum(e, Size)
    BY <1>1, <1>4, <1>5, ChecksumByRows
  <1>8. Summed(f, e, g, h, Size, Size)
    BY <1>2, <1>5 DEF Summed
  <1>9. Sum(f, Size) = Sum(e, Size)
    BY <1>8, SumSwap, Sizes
  <1> QED
    BY <1>6, <1>7, <1>9 DEF t

-----------------------------------------------------------------------------
(* main() *)

(* The matrices keep their size, and every element stays positive: what the *)
(* assert() of RunJustBlockRemap stores is never zero.                      *)
TypeInv ==
  /\ a \in Squares /\ b \in Squares /\ c \in Squares /\ twice \in Squares
  /\ block \in 1 .. 9
  /\ ran \in {"none", "Simple", "SimpleColumnwise", "JustTranspose", "JustTranspose88",
              "JustTranspose88Flipped", "Transpose", "JustBlockRemap", "BlockRemap"}

\* What Transpose leaves is the transpose of the product.
TransposeTransposes == ran = "Transpose" => c = Transposed(SimpleMatMul(a, b))

\* What the others leave is the product, the same matrix whichever ran.
LeavesProduct ==
  ran \in {"Simple", "SimpleColumnwise", "BlockRemap"} => c = SimpleMatMul(a, b)

\* What the conversions of the blocks that only transpose give back.
GivesBack ==
  ran \in {"JustTranspose", "JustTranspose88", "JustTranspose88Flipped"} => twice = c

MatMulInv == TypeInv /\ TransposeTransposes /\ LeavesProduct /\ GivesBack

(* main() starts with squares of positive elements.                         *)
LEMMA InputsAreSquares ==
  Inputs \subseteq Squares
  BY InputsAssumption DEF Squares, Flat

(* The matrix it makes for transposing is another.                          *)
LEMMA MakeMatrixIsSquare ==
  MakeMatrix \in Squares
  <1>1. MakeMatrix
        = [width |-> Size, height |-> Size,
           data |-> [n \in Flat |-> Size * Size + (n \div Size) * Size + (n % Size)]]
    BY DEF MakeMatrix, Matrix, Flat
  <1>2. ASSUME NEW n \in Flat
        PROVE  Size * Size + (n \div Size) * Size + (n % Size) \in Nat \ {0}
    <2>1. Size \in Nat \ {0} /\ Size * Size \in Nat \ {0}
      BY Sizes
    <2>2. n \div Size \in Nat /\ n % Size \in Nat
      BY <2>1, RowAndColumn DEF Flat
    <2>3. (n \div Size) * Size \in Nat
      BY <2>1, <2>2, MulType
    <2> QED
      BY <2>1, <2>2, <2>3
  <1> QED
    BY <1>1, <1>2 DEF Squares

(* main() starts within the invariant, and each of its blocks keeps it.     *)
LEMMA InitMatMulInv ==
  Init => MatMulInv
  BY InputsAreSquares, MakeMatrixIsSquare
     DEF Init, MatMulInv, TypeInv, TransposeTransposes, LeavesProduct, GivesBack

LEMMA NextMatMulInv ==
  MatMulInv /\ [Next]_vars => MatMulInv'
  <1> SUFFICES ASSUME MatMulInv, [Next]_vars
               PROVE  MatMulInv'
    OBVIOUS
  <1> USE DEF MatMulInv, TypeInv, TransposeTransposes, LeavesProduct, GivesBack
  <1>1. CASE RunSimple \/ RunSimpleColumnwise
    <2>1. SimpleMatMul(a, b) \in Squares
      BY SimpleMatMulElement
    <2> QED
      BY <1>1, <2>1 DEF RunSimple, RunSimpleColumnwise, Run
  <1>2. CASE RunJustTranspose
    <2>1. Transposed(Transposed(c)) = c
      BY TransposedTwice
    <2> QED
      BY <1>2, <2>1 DEF RunJustTranspose, Run
  <1>3. CASE RunJustTranspose88 \/ RunJustTranspose88Flipped
    <2>1. Transposed8x8(Transposed8x8(c)) = c
      BY Transposed8x8IsTransposed, TransposedTwice, TransposedElement
    <2> QED
      BY <1>3, <2>1 DEF RunJustTranspose88, RunJustTranspose88Flipped, Run
  <1>4. CASE RunTranspose
    <2>1. /\ TransposeMatMul(a, b) = Transposed(SimpleMatMul(a, b))
          /\ TransposeMatMul(a, b) \in Squares
      BY TransposeMatMulTransposes, SimpleMatMulElement, TransposedElement
    <2> QED
      BY <1>4, <2>1 DEF RunTranspose, Run
  <1>5. CASE RunJustBlockRemap
    <2>1. BlockUnmap(c) \in Squares
      BY BlockUnmapElement
    <2>2. [c EXCEPT !.data = BlockUnmap(c).data] \in Squares
      BY <2>1 DEF Squares
    <2> QED
      BY <1>5, <2>1, <2>2 DEF RunJustBlockRemap, Run
  <1>6. CASE RunBlockRemap
    <2>1. BlockRemapMatMul(a, b) = SimpleMatMul(a, b) /\ SimpleMatMul(a, b) \in Squares
      BY BlockRemapMatMulIsProduct, SimpleMatMulElement
    <2> QED
      BY <1>6, <2>1 DEF RunBlockRemap, Run
  <1>7. CASE Skip
    BY <1>7 DEF Skip
  <1>8. CASE Returned \/ UNCHANGED vars
    BY <1>8 DEF Returned, vars
  <1> QED
    BY <1>1, <1>2, <1>3, <1>4, <1>5, <1>6, <1>7, <1>8 DEF Next

(* The invariant behind the properties: the matrices are squares of positive *)
(* elements, and what each block of main() leaves in c and in its copy.     *)
THEOREM MatricesCorrect == Spec => []MatMulInv
  BY InitMatMulInv, NextMatMulInv, PTL DEF Spec

(* BlockProduct: multiplying in block-major order leaves the product.       *)
THEOREM ProductInBlocks == Spec => []BlockProduct
  <1>1. MatMulInv => BlockProduct
    BY SimpleMatMulElement DEF MatMulInv, TypeInv, LeavesProduct, BlockProduct, IsProduct
  <1> QED
    BY <1>1, MatricesCorrect, PTL

(* SumsAgree: the four multiplications print the same checksum.             *)
THEOREM ChecksumsAgree == Spec => []SumsAgree
  <1>1. MatMulInv => SumsAgree
    BY SimpleMatMulElement, TransposedChecksum
       DEF MatMulInv, TypeInv, LeavesProduct, TransposeTransposes, SumsAgree
  <1> QED
    BY <1>1, MatricesCorrect, PTL

(* TransposesAgree: transposing block by block comes to the same as element *)
(* by element, and twice gives the matrix back.                             *)
THEOREM TransposingAgrees == Spec => []TransposesAgree
  <1>1. MatMulInv => TransposesAgree
    BY Transposed8x8IsTransposed DEF MatMulInv, TypeInv, GivesBack, TransposesAgree
  <1> QED
    BY <1>1, MatricesCorrect, PTL

(* What the assert() of RunJustBlockRemap was meant to check, and with c     *)
(* unmapped in place of the remapped copy does not: unmapping what was       *)
(* remapped gives every matrix back.                                        *)
THEOREM UnmappingUndoes ==
  \A m \in Squares : BlockUnmap(BlockRemap(m)) = m
  BY UnmapRemapped
=============================================================================
