---------------------------- MODULE Transactions ----------------------------
(***************************************************************************)
(* A program on the object heap: it evaluates expressions, outside of a    *)
(* transaction or in one, and a transaction either fails, which forgets    *)
(* all it allocated, or copies what it wants to keep to standard memory.   *)
(*                                                                         *)
(* The program is generated by the Cell compiler and is not in the         *)
(* repository. Here it is a set of variables, which own the reference they *)
(* hold, and the operations are calls of the runtime's functions with the  *)
(* counting the comments in instrs.cpp ask of their callers.               *)
(***************************************************************************)
EXTENDS ObjHeap

CONSTANTS
  MAX_ELEMENTS,     \* bound: the elements of all objects, when the program makes another
  Glob,             \* the variables that outlive transactions: slots of value stores, cached objects
  Loc,              \* the local variables of the evaluation in progress
  BuiltKinds,       \* the kinds of objects the program makes
  TRY_EXTENDS_STD,  \* whether a transaction may append objects to a standard sequence
  NESTED_APPEND     \* whether a sequence may be extended with a value it is a part of

ASSUME ProgramAssumption ==
  /\ MAX_ELEMENTS \in Nat
  /\ IsFiniteSet(Glob) /\ IsFiniteSet(Loc)
  /\ Glob \cap Loc = {} /\ Atom \cap Loc = {}
  /\ BuiltKinds \subseteq Kinds
  /\ TRY_EXTENDS_STD \in BOOLEAN
  /\ NESTED_APPEND \in BOOLEAN

VARIABLES
  mode,     \* curr_mem_alloc_state: "normal", "try" or "copying"; "failed" after internal_fail
  heap,     \* the blocks
  var,      \* the reference each variable holds, or NONE
  stray     \* history: a reference to a free block was counted or released

vars == <<mode, heap, var, stray>>

Var == Glob \cup Loc
Evaluating == mode \in {"normal", "try"}
Free == Id \ Live(heap)

Operand == Atom \cup Loc
Args == {<<arg>> : arg \in Operand} \cup (Operand \X Operand)
Known(args) == \A i \in DOMAIN args : args[i] \in Loc => var[args[i]] # NONE
Operands(args) == [i \in DOMAIN args |-> IF args[i] \in Loc THEN var[args[i]] ELSE args[i]]

\* The program reads a sequence.
HoldsSequence(v) == Evaluating /\ var[v] # NONE /\ is_seq(heap, var[v])

\* The reference made names a block that is free.
IsStray(made) == made.ref \notin Inline /\ made.heap[made.ref.obj] = FREE

Init ==
  /\ mode = "normal"
  /\ heap = [x \in Id |-> FREE]
  /\ var = [x \in Var |-> NONE]
  /\ stray = FALSE

InBounds(h) == Cardinality({p \in Live(h) \X Slot : p[2] \in DOMAIN h[p[1]].elems}) <= MAX_ELEMENTS

\* A function returns made.ref, to be held by the variable v.
Assign(v, made) ==
  /\ Evaluating
  /\ var[v] = NONE
  /\ InBounds(made.heap)
  /\ heap' = made.heap
  /\ var' = [var EXCEPT ![v] = made.ref]
  /\ stray' = (stray \/ IsStray(made))
  /\ UNCHANGED mode

\* build_seq, build_set and the constructors of relations and tagged objects.
Build(v, kind, args) ==
  /\ Known(args)
  /\ \E x \in Free : Assign(v, build(heap, mode, kind, Operands(args), x))

Slice(v, w, first, len) ==
  /\ HoldsSequence(w)
  /\ first + len <= get_seq_length(var[w])
  /\ Assign(v, get_seq_slice(heap, mode, var[w], first, len))

\* What the program is assumed not to do, unless the constants say that it may.
Extends(ref, new) ==
  /\ get_seq_length(ref) + Len(new) <= MAX_LENGTH
  /\ can_be_extended(heap, ref, Len(new)) =>
       /\ TRY_EXTENDS_STD \/ ~(mode = "try" /\ ref.mem = "std" /\ \E i \in DOMAIN new : new[i] \notin Inline)
       /\ NESTED_APPEND \/ \A i \in DOMAIN new : ref.obj \notin PointedTo(heap, new[i])

\* The block that extending takes, if it takes one.
BlockFor(ref, n) == IF ref # EMPTY_SEQ /\ can_be_extended(heap, ref, n) THEN {NONE} ELSE Free

Concat(v, w, u) ==
  /\ HoldsSequence(w)
  /\ HoldsSequence(u)
  /\ IF var[u] = EMPTY_SEQ THEN Assign(v, [heap |-> add_ref(heap, mode, var[w]), ref |-> var[w]])
     ELSE IF var[w] = EMPTY_SEQ THEN Assign(v, [heap |-> add_ref(heap, mode, var[u]), ref |-> var[u]])
     ELSE /\ Extends(var[w], SeqElems(heap, var[u]))
          /\ \E x \in BlockFor(var[w], get_seq_length(var[u])) :
               Assign(v, extend_sequence(heap, mode, var[w], SeqElems(heap, var[u]), x))

\* append_to_seq, which releases its arguments when it has made its result; of
\* the element, that leaves the caller's own reference.
AppendTo(v, arg) ==
  /\ Evaluating
  /\ HoldsSequence(v)
  /\ Known(<<arg>>)
  /\ \E x \in BlockFor(var[v], 1) :
       LET new == Operands(<<arg>>)
           made == extend_sequence(heap, mode, var[v], new, x)
       IN  IF var[v] = EMPTY_SEQ
           THEN LET one == build(heap, mode, "seq", new, x)
                IN  /\ InBounds(one.heap)
                    /\ heap' = one.heap
                    /\ var' = [var EXCEPT ![v] = one.ref]
                    /\ UNCHANGED stray
           ELSE /\ Extends(var[v], new)
                /\ InBounds(made.heap)
                /\ heap' = release(made.heap, mode, var[v])
                /\ var' = [var EXCEPT ![v] = made.ref]
                /\ stray' = (stray \/ ReachesFree(made.heap, mode, var[v]))
  /\ UNCHANGED mode

\* update_seq_at
Update(v, w, i, arg) ==
  /\ HoldsSequence(w)
  /\ i \in 1 .. get_seq_length(var[w])
  /\ Known(<<arg>>)
  /\ \E x \in Free :
       Assign(v, build(heap, mode, "seq", [SeqElems(heap, var[w]) EXCEPT ![i] = Operands(<<arg>>)[1]], x))

\* The elements of an object, as the program reads them.
Elements(ref) == IF ref \in Inline \cup {NONE} THEN <<>>
                 ELSE IF is_seq(heap, ref) THEN SeqElems(heap, ref) ELSE heap[ref.obj].elems

\* Keeping an element that was read, or another copy of a reference.
At(v, w, i) ==
  /\ Evaluating
  /\ i \in DOMAIN Elements(var[w])
  /\ LET ref == Elements(var[w])[i] IN Assign(v, [heap |-> add_ref(heap, mode, ref), ref |-> ref])

Alias(v, w) ==
  /\ var[w] # NONE
  /\ Assign(v, [heap |-> add_ref(heap, mode, var[w]), ref |-> var[w]])

Drop(v) ==
  /\ Evaluating
  /\ var[v] # NONE
  /\ heap' = release(heap, mode, var[v])
  /\ stray' = (stray \/ ReachesFree(heap, mode, var[v]))
  /\ var' = [var EXCEPT ![v] = NONE]
  /\ UNCHANGED mode

-----------------------------------------------------------------------------
\* A global is assigned outside of a transaction.
Store(g, v) ==
  /\ mode = "normal"
  /\ var[v] # NONE
  /\ var[g] = NONE
  /\ var' = [var EXCEPT ![g] = var[v], ![v] = NONE]
  /\ UNCHANGED <<mode, heap, stray>>

\* A global is released, after the last use of the locals: the deletes of an
\* update are finished when all its values are copied.
Release(g) ==
  /\ mode \in {"normal", "copying"}
  /\ var[g] # NONE
  /\ heap' = release(heap, mode, var[g])
  /\ stray' = (stray \/ ReachesFree(heap, mode, var[g]))
  /\ var' = [w \in Var |-> IF w = g \/ (w \in Loc /\ mode = "copying") THEN NONE ELSE var[w]]
  /\ UNCHANGED mode

\* A transaction is not entered from the middle of an expression.
EnterTry ==
  /\ mode = "normal"
  /\ \A v \in Loc : var[v] = NONE
  /\ mode' = "try"
  /\ UNCHANGED <<heap, var, stray>>

EnterCopy ==
  /\ mode = "try"
  /\ mode' = "copying"
  /\ UNCHANGED <<heap, var, stray>>

\* Evaluation goes on where it was, and only if nothing was copied: copied
\* objects are overwritten.
RestoreTry ==
  /\ mode = "copying"
  /\ \E v \in Loc : var[v] # NONE
  /\ \A x \in Live(heap) : heap[x].copy = NONE
  /\ mode' = "try"
  /\ UNCHANGED <<heap, var, stray>>

\* value_store_apply copies a staged value to its slot.
CopyOut(g, v) ==
  /\ mode = "copying"
  /\ var[v] # NONE
  /\ var[g] = NONE
  /\ LET S == ToCopy(heap, var[v])
     IN  IF \E x \in S : heap[x].kind = "tern"
         THEN mode' = "failed" /\ UNCHANGED <<heap, var, stray>>
         ELSE \E at \in [S -> Free] :
                LET made == copy_obj(heap, var[v], at)
                IN  /\ \A x, y \in S : at[x] = at[y] => x = y
                    /\ heap' = made.heap
                    /\ var' = [var EXCEPT ![g] = made.ref]
                    /\ stray' = (stray \/ IsStray(made))
                    /\ UNCHANGED mode

\* release_all_try_state_memory; the locals are gone with the evaluation.
LeaveTransaction ==
  /\ mode' = "normal"
  /\ heap' = [x \in Id |-> IF heap[x].mem = "try" THEN FREE ELSE heap[x]]
  /\ var' = [w \in Var |-> IF w \in Loc THEN NONE ELSE var[w]]
  /\ UNCHANGED stray

ReturnToNormal == mode = "copying" /\ LeaveTransaction
\* soft_fail throws, and whoever catches aborts the transaction.
SoftFail == mode = "try" /\ LeaveTransaction

Next ==
  \/ \E v \in Loc :
       \/ \E kind \in BuiltKinds, args \in Args : Build(v, kind, args)
       \/ \E w \in Var :
            \/ \E first, len \in 0 .. MAX_LENGTH : Slice(v, w, first, len)
            \/ \E u \in Var : Concat(v, w, u)
            \/ \E i \in 1 .. MAX_LENGTH, arg \in Operand : Update(v, w, i, arg)
            \/ \E i \in 1 .. MAX_LENGTH : At(v, w, i)
            \/ Alias(v, w)
       \/ \E arg \in Operand : AppendTo(v, arg)
       \/ Drop(v)
       \/ \E g \in Glob : Store(g, v) \/ CopyOut(g, v)
  \/ \E g \in Glob : Release(g)
  \/ EnterTry \/ EnterCopy \/ RestoreTry \/ ReturnToNormal \/ SoftFail

Spec == Init /\ [][Next]_vars

-----------------------------------------------------------------------------
TypeOK ==
  /\ mode \in {"normal", "try", "copying", "failed"}
  /\ heap \in [Id -> Object \cup {FREE}]
  /\ \A x \in Id : heap[x].kind = "seq" /\ heap[x].copy = NONE => Len(heap[x].elems) <= heap[x].capacity
  /\ var \in [Var -> OBJ \cup {NONE}]
  /\ stray \in BOOLEAN

-----------------------------------------------------------------------------
(* Safety *)

Held(V) == UNION {Target(var[v]) : v \in {w \in V : var[w] # NONE}}
LiveIn(m) == {x \in Live(heap) : heap[x].mem = m}

\* The references to x that the variables in V and the live objects in memory m hold.
References(V, m, x) ==
  Cardinality({v \in V : var[v] \notin Inline \cup {NONE} /\ var[v].obj = x})
  + Cardinality({p \in LiveIn(m) \X Slot :
      p[2] \in DOMAIN heap[p[1]].elems /\ x \in Target(heap[p[1]].elems[p[2]])})

\* A standard object has one count for each reference that outlives a
\* transaction, and a temporary one for each that its transaction can use:
\* slices, shared blocks and whatever lies in the hidden part of a block
\* included. A count too low frees an object in use, one too high leaks it.
CountsExact ==
  /\ \A x \in LiveIn("std") :
       heap[x].count = References(IF mode = "normal" THEN Var ELSE Glob, "std", x)
  /\ mode = "try" => \A x \in LiveIn("try") : heap[x].count = References(Loc, "try", x)

\* The reference says where its block is, and the block has what it shows.
Sound(ref) ==
  ref \in Inline \/ /\ heap[ref.obj] # FREE
                    /\ ref.mem = heap[ref.obj].mem
                    /\ heap[ref.obj].copy = NONE => ref.off + ref.len <= Len(heap[ref.obj].elems)

\* No variable reaches a free block, or takes one of the two memories for the
\* other; nothing that outlives a transaction points into its memory, which is
\* released without looking at the references to it.
RefsSound ==
  /\ \A v \in Var : var[v] # NONE => Sound(var[v])
  /\ \A x \in ReachedFrom(heap, Held(Var)) :
       \A i \in DOMAIN heap[x].elems : Sound(heap[x].elems[i])
  /\ \A x \in ReachedFrom(heap, Held(Glob)) : heap[x].mem = "std"

\* Whatever is allocated can be reached from a variable: counting misses no
\* garbage, and an aborted transaction leaves none.
NoLeak ==
  /\ LiveIn("std") \subseteq ReachedFrom(heap, Held(IF mode = "normal" THEN Var ELSE Glob))
  /\ mode = "try" => LiveIn("try") \subseteq ReachedFrom(heap, Held(Loc))

\* assert(ref_count > 0) and assert(is_alive(ptr)): no reference to a block
\* that is free already is counted or released.
ReleasesAlive == ~stray

\* copy_obj meets no object that it is in the middle of copying: one that is
\* not marked yet and contains itself.
CopyEnds ==
  mode = "copying" =>
    \A x \in Live(heap) : heap[x].copy = NONE => x \notin ReachedFrom(heap, Targets(heap, x))

\* copy_obj has a case for every type of object.
NoInternalFailure == mode # "failed"

-----------------------------------------------------------------------------
(* Refinement: the objects are values *)

\* The value a reference stands for, unfolded through the blocks it reaches; in
\* the place of a copied object, its copy.
value(h, ref) ==
  LET Home(x) == IF h[x].copy = NONE THEN x ELSE h[x].copy
      Shown(r) == IF h[Home(r.obj)].kind # "seq" THEN h[Home(r.obj)].elems
                  ELSE SubSeq(h[Home(r.obj)].elems, r.off + 1, r.off + r.len)
      level[n \in 0 .. Cardinality(Id) + 1] == [r \in OBJ |->
        IF r \in Atom THEN r
        ELSE IF r = EMPTY_SEQ THEN [kind |-> "seq", elems |-> <<>>]
        ELSE [kind |-> h[Home(r.obj)].kind,
              elems |-> IF n = 0 THEN <<>> ELSE [i \in DOMAIN Shown(r) |-> level[n - 1][Shown(r)[i]]]]]
  IN  level[Cardinality(Id) + 1][ref]

V == INSTANCE Values WITH
  UNSET <- NONE,
  val <- [v \in Var |-> IF var[v] = NONE THEN NONE ELSE value(heap, var[v])],
  phase <- IF mode = "failed" THEN "copying" ELSE mode

\* What a program computes with references it could compute with values:
\* nobody sees a block being extended by another, a part of it being shared or
\* the reference counts; a transaction that fails changes no global, and what
\* is copied out of one is what it computed.
ImplementsValues == V!Spec
=============================================================================
