------------------------------- MODULE Powers -------------------------------
(***************************************************************************)
(* Powers of two, as a function: capacities that are doubled, and sizes    *)
(* that are shifted.                                                       *)
(***************************************************************************)
EXTENDS Naturals

pow2[k \in Nat] == IF k = 0 THEN 1 ELSE 2 * pow2[k - 1]
=============================================================================
