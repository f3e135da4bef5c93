--------------------------- MODULE MCTransactions ---------------------------
(***************************************************************************)
(* Model-checking instances of Transactions.                               *)
(***************************************************************************)
EXTENDS Transactions, TLC

CONSTANTS x1, x2, x3, x4, a, b, empty, none, g, h, u, v, w

\* Blocks are interchangeable, and so are constants, and variables of a kind.
HeapSymmetry == Permutations(Id) \cup Permutations(Atom) \cup Permutations(Glob) \cup Permutations(Loc)
=============================================================================
