------------------------------ MODULE ObjHeap ------------------------------
(***************************************************************************)
(* Reference-counted objects: the blocks that OBJ values point to, in      *)
(* standard memory or in the temporary memory of a transaction.            *)
(*                                                                         *)
(* A reference (an OBJ that is not inline) is a record that names the      *)
(* block, the memory it says the block is in (its MEM_LAYOUT) and, for a   *)
(* sequence, the part of the block it stands for.  An object has one of    *)
(* the kinds                                                               *)
(*   "seq"    a SEQ_OBJ, the only kind that references can share in part   *)
(*   "node"   a SET_OBJ, BIN_REL_OBJ or TAG_OBJ, which differ here only in *)
(*            how they mark that they were copied                          *)
(*   "tern"   a TERN_REL_OBJ                                               *)
(***************************************************************************)
EXTENDS Powers, Sequences, FiniteSets

CONSTANTS
  Id,          \* the addresses of blocks
  Atom,        \* the values that are inline, but the empty sequence
  EMPTY_SEQ,   \* the empty sequence, inline as well
  NONE,        \* no address
  SMALLEST,    \* the OBJs that fit in the smallest block, its header included
  MAX_LENGTH   \* bound: the length of a sequence

ASSUME BlocksAssumption == IsFiniteSet(Id)
ASSUME SizesAssumption == SMALLEST \in Nat \ {0, 1} /\ MAX_LENGTH \in Nat \ {0, 1}

Inline == Atom \cup {EMPTY_SEQ}
Kinds == {"seq", "node", "tern"}
Memory == {"std", "try"}

Ref == [obj : Id, mem : Memory, off : Nat, len : Nat]
OBJ == Inline \cup Ref

ASSUME InlineAssumption ==
  EMPTY_SEQ \notin Atom /\ NONE \notin Id \cup Inline /\ \A x \in Inline \cup {NONE} : x \notin Ref

\* After an object is copied, copy is where its copy is; the code writes it over the contents.
Object == [kind : Kinds, mem : Memory, count : Nat \ {0}, capacity : Nat, elems : Seq(OBJ), copy : Id \cup {NONE}]
FREE == [kind |-> "free", mem |-> "std", count |-> 0, capacity |-> 0, elems |-> <<>>, copy |-> NONE]

Live(h) == {x \in Id : h[x] # FREE}

\* What a set of blocks grows to when the function F is applied again and again.
Fixpoint(F, S) ==
  LET stage[n \in 0 .. Cardinality(Id)] == IF n = 0 THEN S ELSE F[stage[n - 1]]
  IN  stage[Cardinality(Id)]

\* The blocks that can be reached from those in S, by going from x to next[x].
Closure(next, S) == Fixpoint([R \in SUBSET Id |-> R \cup UNION {next[x] : x \in R}], S)

Target(ref) == IF ref \in Inline THEN {} ELSE {ref.obj}
Targets(h, x) == UNION {Target(h[x].elems[i]) : i \in DOMAIN h[x].elems}
ReachedFrom(h, S) == Closure([x \in Id |-> Targets(h, x)], S)
PointedTo(h, ref) == ReachedFrom(h, Target(ref))

\* Where new_obj takes blocks from, and which references are counted: those that
\* point there. A transaction neither counts nor releases references to standard objects.
CurrMemory(mode) == IF mode = "try" THEN "try" ELSE "std"
is_gc_obj(mode, ref) == ref \notin Inline /\ ref.mem = CurrMemory(mode)

\* The references among refs to the block x that are counted.
Counted(mode, refs, x) == Cardinality({i \in DOMAIN refs : is_gc_obj(mode, refs[i]) /\ refs[i].obj = x})

-----------------------------------------------------------------------------
(* Counting: mem.cpp *)

\* Blocks double in size; a header takes the room of one element.
seq_capacity(length) ==
  LET k == CHOOSE n \in 0 .. length : /\ SMALLEST * pow2[n] > length
                                      /\ \A m \in 0 .. n - 1 : SMALLEST * pow2[m] <= length
  IN  SMALLEST * pow2[k] - 1

\* Where an object can have an element.
Slot == 1 .. seq_capacity(MAX_LENGTH)

vec_add_ref(h, mode, refs) ==
  [x \in Id |-> IF h[x] = FREE THEN FREE ELSE [h[x] EXCEPT !.count = @ + Counted(mode, refs, x)]]
add_ref(h, mode, ref) == vec_add_ref(h, mode, <<ref>>)

\* The counted references to x among the elements of the objects in D.
CountedFrom(h, mode, D, x) ==
  Cardinality({p \in D \X Slot :
    p[2] \in DOMAIN h[p[1]].elems /\ Counted(mode, <<h[p[1]].elems[p[2]]>>, x) = 1})

\* The objects that die when the reference goes: the object it points to if
\* that is its last reference, then those whose every reference is in a dead
\* object, whatever part of that object was visible.
Dying(h, mode, ref) ==
  LET Lost(D, x) == Counted(mode, <<ref>>, x) + CountedFrom(h, mode, D, x)
  IN  Fixpoint([D \in SUBSET Id |-> {x \in Live(h) : Lost(D, x) > 0 /\ h[x].count <= Lost(D, x)}], {})

\* Mutant: an object is freed and what it holds is forgotten.
release_shallow(h, mode, ref) ==
  [x \in Id |-> IF Counted(mode, <<ref>>, x) = 0 THEN h[x]
                ELSE IF h[x].count <= 1 THEN FREE ELSE [h[x] EXCEPT !.count = @ - 1]]

\* The elements of dead objects are released in the order of a bounded queue:
\* here, all at once.
release(h, mode, ref) ==
  LET D == Dying(h, mode, ref)
  IN  [x \in Id |-> IF x \in D \/ h[x] = FREE THEN FREE
                    ELSE [h[x] EXCEPT !.count = @ - Counted(mode, <<ref>>, x) - CountedFrom(h, mode, D, x)]]

\* The release reaches a block that is free already.
ReachesFree(h, mode, ref) ==
  LET D == Dying(h, mode, ref)
  IN  \E x \in Id : h[x] = FREE /\ Counted(mode, <<ref>>, x) + CountedFrom(h, mode, D, x) > 0

-----------------------------------------------------------------------------
(* Making objects and references: mem.cpp, mem-utils.cpp, instrs.cpp *)

NewObject(mode, kind, elems) ==
  [kind |-> kind, mem |-> CurrMemory(mode), count |-> 1,
   capacity |-> IF kind = "seq" THEN seq_capacity(Len(elems)) ELSE 0, elems |-> elems, copy |-> NONE]

make_slice(x, mem, off, len) == [obj |-> x, mem |-> mem, off |-> off, len |-> len]
make_ref(mode, kind, x, elems) == make_slice(x, CurrMemory(mode), 0, IF kind = "seq" THEN Len(elems) ELSE 0)

\* The constructors take over the references they are given: the caller has
\* counted them.
build(h, mode, kind, elems, x) ==
  [heap |-> [vec_add_ref(h, mode, elems) EXCEPT ![x] = NewObject(mode, kind, elems)],
   ref |-> make_ref(mode, kind, x, elems)]

is_ne_seq(h, ref) == ref \notin Inline /\ h[ref.obj].kind = "seq"
is_seq(h, ref) == ref = EMPTY_SEQ \/ is_ne_seq(h, ref)
get_seq_length(ref) == IF ref = EMPTY_SEQ THEN 0 ELSE ref.len
SeqElems(h, ref) == IF ref = EMPTY_SEQ THEN <<>> ELSE SubSeq(h[ref.obj].elems, ref.off + 1, ref.off + ref.len)

\* Mutant: the reference takes its memory from the mode, not from the sequence.
get_seq_slice_of_mode(h, mode, ref, first, len) ==
  IF len = 0 THEN [heap |-> h, ref |-> EMPTY_SEQ]
  ELSE [heap |-> add_ref(h, mode, ref), ref |-> make_slice(ref.obj, CurrMemory(mode), ref.off + first, len)]

\* The callers' check of the bounds fails softly: see SoftFail in Transactions.
get_seq_slice(h, mode, ref, first, len) ==
  IF len = 0 THEN [heap |-> h, ref |-> EMPTY_SEQ]
  ELSE [heap |-> add_ref(h, mode, ref), ref |-> make_slice(ref.obj, ref.mem, ref.off + first, len)]

\* Mutant: room is all that is asked for.
can_be_extended_anywhere(h, ref, n) == Len(h[ref.obj].elems) + n <= h[ref.obj].capacity

\* Mutant: nobody looks for room.
can_be_extended_without_room(h, ref, n) == ref.off + ref.len = Len(h[ref.obj].elems)

\* The reference ends where the contents of the block end, and there is room.
can_be_extended(h, ref, n) ==
  LET size == Len(h[ref.obj].elems)
  IN  ref.off + ref.len = size /\ size + n <= h[ref.obj].capacity

\* Mutant: the result shares the block without a count of its own.
extend_sequence_uncounted(h, mode, ref, new, x) ==
  IF can_be_extended(h, ref, Len(new))
  THEN [heap |-> vec_add_ref([h EXCEPT ![ref.obj].elems = @ \o new], mode, new),
        ref |-> make_slice(ref.obj, ref.mem, ref.off, ref.len + Len(new))]
  ELSE build(h, mode, "seq", SeqElems(h, ref) \o new, x)

\* Mutant: of the elements of a new block only those appended are counted.
extend_sequence_moving(h, mode, ref, new, x) ==
  IF can_be_extended(h, ref, Len(new))
  THEN [heap |-> vec_add_ref([h EXCEPT ![ref.obj].elems = @ \o new], mode, Append(new, ref)),
        ref |-> make_slice(ref.obj, ref.mem, ref.off, ref.len + Len(new))]
  ELSE [heap |-> [vec_add_ref(h, mode, new) EXCEPT ![x] = NewObject(mode, "seq", SeqElems(h, ref) \o new)],
        ref |-> make_ref(mode, "seq", x, SeqElems(h, ref) \o new)]

\* x is the block to use when the sequence cannot be extended in place.
extend_sequence(h, mode, ref, new, x) ==
  IF can_be_extended(h, ref, Len(new))
  THEN [heap |-> vec_add_ref([h EXCEPT ![ref.obj].elems = @ \o new], mode, Append(new, ref)),
        ref |-> make_slice(ref.obj, ref.mem, ref.off, ref.len + Len(new))]
  ELSE build(h, mode, "seq", SeqElems(h, ref) \o new, x)

-----------------------------------------------------------------------------
(* Copying out of a transaction: mem-copying.cpp *)

\* Mutant: a set is never marked.
IsCopied_sequences_only(o) == o.kind = "seq" /\ o.capacity = 0

\* The mark of a copied object is in fields that mean something else.
IsCopied(o) == IF o.kind = "seq" THEN o.capacity = 0 ELSE o.elems = <<>>

\* The temporary objects that copying the reference has to copy.
ToCopy(h, ref) ==
  LET Visit(r) == IF r \notin Inline /\ r.mem = "try" /\ ~IsCopied(h[r.obj]) THEN {r.obj} ELSE {}
  IN  Closure([x \in Id |-> UNION {Visit(h[x].elems[i]) : i \in DOMAIN h[x].elems}], Visit(ref))

\* The reference to the copy: of an object copied now, to the block "at" says,
\* or of one copied before. Other references stay as they are.
repoint_to_std_mem_copy(h, at, ref) ==
  IF ref \in Inline \/ ref.mem = "std" THEN ref
  ELSE [ref EXCEPT !.mem = "std", !.obj = IF IsCopied(h[ref.obj]) THEN h[ref.obj].copy ELSE at[ref.obj]]

\* The references to y that copying makes: the result, and elements of copies.
MadeTo(h, ref, at, y) ==
  LET Made(r) == Counted("copying", <<repoint_to_std_mem_copy(h, at, r)>>, y)
  IN  Made(ref) + Cardinality({p \in (DOMAIN at) \X Slot :
                    p[2] \in DOMAIN h[p[1]].elems /\ Made(h[p[1]].elems[p[2]]) = 1})

\* Mutant: the pointer to an existing copy is returned without counting it.
CountsMade_once(h, ref, at, y) == IF \E x \in DOMAIN at : at[x] = y THEN 1 ELSE 0

\* Every one of them counts: an existing copy gets a reference more, and the
\* first reference to a new one is the count it is made with.
CountsMade(h, ref, at, y) == MadeTo(h, ref, at, y)

\* A copied object is overwritten: it loses its size, a sequence its capacity.
copy_obj(h, ref, at) ==
  LET Copied(x) == [i \in DOMAIN h[x].elems |-> repoint_to_std_mem_copy(h, at, h[x].elems[i])]
      Original(y) == CHOOSE x \in DOMAIN at : at[x] = y
      made == [y \in Id |->
        IF \E x \in DOMAIN at : at[x] = y
        THEN [NewObject("copying", h[Original(y)].kind, Copied(Original(y))) EXCEPT !.count = CountsMade(h, ref, at, y)]
        ELSE IF y \in DOMAIN at THEN [h[y] EXCEPT !.capacity = 0, !.elems = <<>>, !.copy = at[y]]
        ELSE IF h[y] = FREE THEN FREE
        ELSE [h[y] EXCEPT !.count = @ + CountsMade(h, ref, at, y)]]
  IN  [heap |-> made, ref |-> repoint_to_std_mem_copy(h, at, ref)]
=============================================================================
