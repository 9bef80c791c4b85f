------------------------------ MODULE MCMatMul ------------------------------
(* A small instance of MatMul for TLC. *)
EXTENDS MatMul

\* The matrix of main(), and the same with any one element changed. As a product
\* is linear in each factor, a formula for it that holds for these factors holds
\* for all: they span the matrices of this size.
SomeMatrices ==
  {MakeMatrix} \cup {[MakeMatrix EXCEPT !.data[n] = @ + 1] : n \in 0 .. Size * Size - 1}

\* Main's own.
MainMatrices == {MakeMatrix}
=============================================================================
