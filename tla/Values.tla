------------------------------- MODULE Values -------------------------------
(***************************************************************************)
(* What the object heap promises a Cell program: variables that hold       *)
(* immutable values, with no addresses, counts, slices or copies.  A       *)
(* transaction has variables of its own that vanish when it ends, whether  *)
(* it fails or not; what it keeps is what it stored in a global.           *)
(***************************************************************************)
EXTENDS Naturals, Sequences

CONSTANTS
  Glob,       \* the variables that outlive a transaction
  Loc,        \* the variables of the evaluation in progress
  Atom,
  UNSET,      \* no value
  MAX_LENGTH  \* bound: the length of a sequence

VARIABLES
  val,        \* the value of each variable
  phase       \* "normal", "try" or "copying"

vars == <<val, phase>>

Var == Glob \cup Loc
SeqOf(elems) == [kind |-> "seq", elems |-> elems]
IsSeq(v) == v \notin Atom \cup {UNSET} /\ v.kind = "seq"

\* An element of a new object: a constant, or the value of a local.
Operand == Atom \cup Loc
Args == {<<arg>> : arg \in Operand} \cup (Operand \X Operand)
Operands(args) == [i \in DOMAIN args |-> IF args[i] \in Atom THEN args[i] ELSE val[args[i]]]
Known(args) == \A i \in DOMAIN args : args[i] \in Atom \/ val[args[i]] # UNSET

Without(f, V) == [x \in Var |-> IF x \in V THEN UNSET ELSE f[x]]
Evaluating == phase \in {"normal", "try"}

Init == val = [x \in Var |-> UNSET] /\ phase = "normal"

\* What evaluating an expression can yield.
Build(args, result) ==
  /\ Known(args)
  /\ result.kind \in {"seq", "node", "tern"}
  /\ result = [kind |-> result.kind, elems |-> Operands(args)]

Slice(y, first, len, result) ==
  /\ IsSeq(val[y])
  /\ first + len <= Len(val[y].elems)
  /\ result = SeqOf(SubSeq(val[y].elems, first + 1, first + len))

Concat(y, z, result) == IsSeq(val[y]) /\ IsSeq(val[z]) /\ result = SeqOf(val[y].elems \o val[z].elems)

Update(y, i, arg, result) ==
  /\ IsSeq(val[y])
  /\ i \in DOMAIN val[y].elems
  /\ Known(<<arg>>)
  /\ result = SeqOf([val[y].elems EXCEPT ![i] = Operands(<<arg>>)[1]])

At(y, i, result) ==
  /\ val[y] \notin Atom \cup {UNSET}
  /\ i \in DOMAIN val[y].elems
  /\ result = val[y].elems[i]

Alias(y, result) == val[y] # UNSET /\ result = val[y]

Yields(result) ==
  \/ result \notin Atom /\ \E args \in Args : Build(args, result)
  \/ \E y \in Var :
       \/ \E first, len \in 0 .. MAX_LENGTH : Slice(y, first, len, result)
       \/ \E z \in Var : Concat(y, z, result)
       \/ \E i \in 1 .. MAX_LENGTH, arg \in Operand : Update(y, i, arg, result)
       \/ \E i \in 1 .. MAX_LENGTH : At(y, i, result)
       \/ Alias(y, result)

\* No step has an effect on any other variable than the one it is about.
Evaluate(x) ==
  /\ Evaluating
  /\ val[x] = UNSET
  /\ val'[x] # UNSET
  /\ Yields(val'[x])
  /\ val' = [val EXCEPT ![x] = val'[x]]
  /\ UNCHANGED phase

\* Replaces a sequence by a longer one.
AppendTo(x, arg) ==
  /\ Evaluating
  /\ IsSeq(val[x])
  /\ Known(<<arg>>)
  /\ val' = [val EXCEPT ![x] = SeqOf(val[x].elems \o Operands(<<arg>>))]
  /\ UNCHANGED phase

\* Variables lose their values.
Drop ==
  /\ \A x \in Var : val'[x] \in {val[x], UNSET}
  /\ val' = [x \in Var |-> val'[x]]
  /\ UNCHANGED phase

\* A value moves to a global, outside of transactions or when one succeeds.
Store(g, x) ==
  /\ phase \in {"normal", "copying"}
  /\ val[x] # UNSET
  /\ val[g] = UNSET
  /\ \E rest \in {val, Without(val, {x})} : val' = [rest EXCEPT ![g] = val[x]]
  /\ UNCHANGED phase

EnterTry == phase = "normal" /\ phase' = "try" /\ UNCHANGED val
EnterCopy == phase = "try" /\ phase' = "copying" /\ UNCHANGED val
RestoreTry == phase = "copying" /\ phase' = "try" /\ UNCHANGED val
Leave == phase \in {"try", "copying"} /\ phase' = "normal" /\ val' = Without(val, Loc)

Next ==
  \/ EnterTry \/ EnterCopy \/ RestoreTry \/ Leave \/ Drop
  \/ \E x \in Loc : Evaluate(x) \/ (\E g \in Glob : Store(g, x)) \/ (\E arg \in Operand : AppendTo(x, arg))

Spec == Init /\ [][Next]_vars
=============================================================================
