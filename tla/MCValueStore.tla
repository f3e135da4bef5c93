---------------------------- MODULE MCValueStore ----------------------------
(***************************************************************************)
(* Model-checking instances of ValueStore.                                 *)
(***************************************************************************)
EXTENDS ValueStore, TLC

CONSTANTS a, b, c

\* Two values have the same hash code, and the third one shares their bucket
\* while the table has a single bucket or an even number of them.
MCHash == a :> 1 @@ b :> 1 @@ c :> 3
=============================================================================
