------------------------------- MODULE MatMul -------------------------------
(***************************************************************************)
(* ch4-cpu-memory-interactions/interaction.cc: the ways it transposes and   *)
(* multiplies matrices, and main(), which runs on one set of matrices those *)
(* of its blocks that were compiled in (-DSIMPLE, -DTRANSPOSE, ..., -DALL), *)
(* one after the other.                                                     *)
(*                                                                          *)
(* `data' is a function from flat indexes, the order of the loops is left   *)
(* out, and elements are integers: that sums of doubles depend on the order *)
(* of the terms is not modelled. The block routines size their results by   *)
(* swapping width and height and so are only right for square matrices,     *)
(* which is all main() has.                                                 *)
(***************************************************************************)
EXTENDS Integers

CONSTANTS
  Size,     \* width and height of main's matrices (1024)
  Dim,      \* kBlockDim, and the 8 of Transposed8x8 (8)
  Inputs    \* the matrices considered

ASSUME DimAssumption == Dim \in Nat \ {0} /\ Size \in Nat \ {0} /\ Size % Dim = 0

\* Elements are positive, as those of MakeMatrix are.
ASSUME InputsAssumption ==
  \A m \in Inputs :
    m \in [width : {Size}, height : {Size}, data : [0 .. Size * Size - 1 -> Nat \ {0}]]

VARIABLES
  a, b, c,   \* the matrices of main()
  block,     \* the #if block main() has come to, from 1
  ran,       \* the last block that ran, or "none"
  twice      \* the last matrix a Just... block got by its two conversions

vars == <<a, b, c, block, ran, twice>>

Area == Dim * Dim

\* A matrix of `width' columns, its data row after row.
Matrix(width, height, at(_, _)) ==
  [width |-> width, height |-> height,
   data |-> [n \in 0 .. width * height - 1 |-> at(n \div width, n % width)]]

\* MakeMatrix, its elements times 1024 * 1024.
MakeMatrix == Matrix(Size, Size, LAMBDA row, col : Size * Size + row * Size + col)

\* What a loop that adds up f[0], f[1], ... has come to after n of them.
Sum(f, n) ==
  LET sum[k \in Nat] == IF k = 0 THEN 0 ELSE sum[k - 1] + f[k - 1]
  IN  sum[n]

Checksum(m) == Sum(m.data, m.width * m.height)

-----------------------------------------------------------------------------
(* Transposing and multiplying *)

\* ret.data[x * a.height + y] = a.data[y * a.width + x]
Transposed(m) ==
  Matrix(m.height, m.width, LAMBDA x, y : m.data[y * m.width + x])

\* Mutant of Transposed8x8: only the elements of a block are exchanged, the
\* blocks stay where they are.
Transposed8x8InPlace(m) ==
  Matrix(m.height, m.width, LAMBDA ret_y, ret_x :
    LET a_x == (ret_x \div Dim) * Dim + (ret_y % Dim)
        a_y == (ret_y \div Dim) * Dim + (ret_x % Dim)
    IN  m.data[a_y * m.width + a_x])

\* Block by block; Transposed8x8Flipped differs in the order of the inner loops.
Transposed8x8(m) ==
  Matrix(m.height, m.width, LAMBDA ret_y, ret_x :
    LET a_x == (ret_y \div Dim) * Dim + (ret_y % Dim)
        a_y == (ret_x \div Dim) * Dim + (ret_x % Dim)
    IN  m.data[a_y * m.width + a_x])

\* The inner loop over k: one element of the product.
Dot(m, n, row, col) ==
  Sum([k \in 0 .. m.width - 1 |-> m.data[row * m.width + k] * n.data[k * n.width + col]],
      m.width)

\* SimpleMatMul and, in another order, SimpleMatMulColumnwise.
SimpleMatMul(m, n) ==
  Matrix(n.width, m.height, LAMBDA row, col : Dot(m, n, row, col))

\* Mutant of TransposeMatMul: b is read along its rows without being transposed.
TransposeMatMulUntransposed(m, n) ==
  LET cc == Matrix(m.height, n.width, LAMBDA row, col :
              Sum([k \in 0 .. m.width - 1 |->
                     m.data[row * m.width + k] * n.data[col * n.width + k]], m.width))
  IN  [width |-> n.width, height |-> m.height, data |-> Transposed8x8(cc).data]

\* TransposeMatMul: b is transposed to be read along its rows, and the product,
\* already in place, is transposed as well. c keeps its own width and height.
TransposeMatMul(m, n) ==
  LET bb == Transposed8x8(n)
      cc == Matrix(m.height, n.width, LAMBDA row, col :
              Sum([k \in 0 .. m.width - 1 |->
                     m.data[row * m.width + k] * bb.data[col * bb.width + k]], m.width))
  IN  [width |-> n.width, height |-> m.height, data |-> Transposed8x8(cc).data]

-----------------------------------------------------------------------------
(* Block-major order *)

\* BlockRemap: each Dim by Dim block contiguous, the blocks row after row.
BlockRemap(m) ==
  LET block_w == m.width \div Dim
      at(n) == LET ret_block == n \div Area
                   a_y == (ret_block \div block_w) * Dim + ((n % Area) \div Dim)
                   a_x == (ret_block % block_w) * Dim + (n % Dim)
               IN  m.data[a_y * m.width + a_x]
  IN  [width |-> m.height, height |-> m.width, data |-> [n \in DOMAIN m.data |-> at(n)]]

\* BlockUnmap: back to row-major.
BlockUnmap(m) ==
  LET block_w == m.width \div Dim
  IN  Matrix(m.height, m.width, LAMBDA ret_y, ret_x :
        m.data[Area * ((ret_y \div Dim) * block_w + (ret_x \div Dim))
               + (ret_y % Dim) * Dim + (ret_x % Dim)])

\* One element of the product of two blocks that start at `s' and `t'.
BlockDot(m, s, n, t, row, col) ==
  Sum([j \in 0 .. Dim - 1 |-> m.data[s + row * Dim + j] * n.data[t + j * Dim + col]], Dim)

\* Mutant of BlockSum: the block of b is taken from the same block row as a's.
BlockSumSameRow(aa, bb, c_block_w, block_row, block_col, row, col) ==
  Sum([k \in 0 .. c_block_w - 1 |->
         BlockDot(aa, Area * (block_row * c_block_w + k),
                  bb, Area * (block_row * c_block_w + block_col), row, col)], c_block_w)

\* The loop over k: cc_block, cleared first, is the sum of products of blocks.
BlockSum(aa, bb, c_block_w, block_row, block_col, row, col) ==
  Sum([k \in 0 .. c_block_w - 1 |->
         BlockDot(aa, Area * (block_row * c_block_w + k),
                  bb, Area * (k * c_block_w + block_col), row, col)], c_block_w)

BlockRemapMatMul(m, n) ==
  LET c_block_w == m.height \div Dim
      aa == BlockRemap(m)
      bb == BlockRemap(n)
      at(x) == LET cc_block == x \div Area
               IN  BlockSum(aa, bb, c_block_w,
                            cc_block \div c_block_w, cc_block % c_block_w,
                            (x % Area) \div Dim, x % Dim)
      cc == [width |-> m.height, height |-> n.width,
             data |-> [x \in 0 .. m.height * n.width - 1 |-> at(x)]]
  IN  [width |-> n.width, height |-> m.height, data |-> BlockUnmap(cc).data]

-----------------------------------------------------------------------------
(* main() *)

Init ==
  /\ a \in Inputs /\ b \in Inputs
  /\ c = MakeMatrix
  /\ block = 1
  /\ ran = "none"
  /\ twice = MakeMatrix

\* The n-th block is compiled in and runs.
Run(n, name) == block = n /\ block' = n + 1 /\ ran' = name /\ UNCHANGED <<a, b>>

\* The next block is not compiled in.
Skip == block \in 1 .. 8 /\ block' = block + 1 /\ UNCHANGED <<a, b, c, ran, twice>>

RunSimple ==
  Run(1, "Simple") /\ c' = SimpleMatMul(a, b) /\ UNCHANGED twice
RunSimpleColumnwise ==
  Run(2, "SimpleColumnwise") /\ c' = SimpleMatMul(a, b) /\ UNCHANGED twice
RunJustTranspose ==
  Run(3, "JustTranspose") /\ twice' = Transposed(Transposed(c)) /\ UNCHANGED c
RunJustTranspose88 ==
  Run(4, "JustTranspose88") /\ twice' = Transposed8x8(Transposed8x8(c)) /\ UNCHANGED c
RunJustTranspose88Flipped ==
  Run(5, "JustTranspose88Flipped") /\ twice' = Transposed8x8(Transposed8x8(c)) /\ UNCHANGED c
RunTranspose ==
  Run(6, "Transpose") /\ c' = TransposeMatMul(a, b) /\ UNCHANGED twice

\* It unmaps c, not the remapped copy, and its assert() stores every element
\* into c; no element being zero, none of them fails.
RunJustBlockRemap ==
  /\ Run(7, "JustBlockRemap")
  /\ twice' = BlockUnmap(c)
  /\ c' = [c EXCEPT !.data = BlockUnmap(c).data]

RunBlockRemap ==
  Run(8, "BlockRemap") /\ c' = BlockRemapMatMul(a, b) /\ UNCHANGED twice

Returned == block = 9 /\ UNCHANGED vars

Next ==
  \/ RunSimple \/ RunSimpleColumnwise
  \/ RunJustTranspose \/ RunJustTranspose88 \/ RunJustTranspose88Flipped
  \/ RunTranspose \/ RunJustBlockRemap \/ RunBlockRemap
  \/ Skip \/ Returned

Spec == Init /\ [][Next]_vars

-----------------------------------------------------------------------------
(* Properties *)

\* The product by its definition, row by column.
IsProduct(m) ==
  \A row, col \in 0 .. Size - 1 :
    m.data[row * Size + col] = Dot(a, b, row, col)

\* interaction.cc: "c = a*b" of BlockRemapMatMul: the multiplication in block-major
\* order, remapped before and unmapped after, leaves the product in c, whatever
\* earlier blocks of main() left there.
BlockProduct == ran = "BlockRemap" => IsProduct(c)

\* The checksums main() prints for the four multiplications are the same, and so
\* cannot tell a product from its transpose.
SumsAgree ==
  ran \in {"Simple", "SimpleColumnwise", "Transpose", "BlockRemap"}
    => Checksum(c) = Checksum(SimpleMatMul(a, b))

\* Whatever is in c, the transposing routines agree on its transpose, and
\* transposing twice gives it back.
TransposesAgree ==
  /\ Transposed(c) = Transposed8x8(c)
  /\ ran \in {"JustTranspose", "JustTranspose88", "JustTranspose88Flipped"} => twice = c

\* interaction.cc: "c = a*b" of TransposeMatMul.
TransposeProduct == ran = "Transpose" => IsProduct(c)
=============================================================================
