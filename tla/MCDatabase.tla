----------------------------- MODULE MCDatabase -----------------------------
(***************************************************************************)
(* Model-checking instances of Database.                                   *)
(***************************************************************************)
EXTENDS Database

CONSTANTS a, b, c, u, m, n

\* All values share a bucket.
MCHash == [value \in Value |-> 3]

OnlyUnary == (u :> "unary")
UnaryAndBinary == (u :> "unary") @@ (m :> "binary_0_1")
ValueSymmetry == Permutations(Value)
=============================================================================
