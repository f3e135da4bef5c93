---------------------------- MODULE DeleteQueue ----------------------------
(***************************************************************************)
(* Deleting an object: the loops of mem.cpp, one step of a loop at a time. *)
(*                                                                         *)
(* The objects that the deleted one was the last to refer to go into a     *)
(* ring of fixed size. When it is full the oldest of them makes room and   *)
(* is deleted at once, by a call from within the loop that has a ring of   *)
(* its own: the rings of the calls under way are a stack of frames.        *)
(***************************************************************************)
EXTENDS Allocator

CONSTANTS
  MAX_QUEUE_SIZE,   \* the size of the ring
  NULL              \* no object

ASSUME QueueAssumption == MAX_QUEUE_SIZE \in Nat \ {0} /\ NULL \notin Block

\* An object has the references among its elements, in order; size counts
\* those that are inline as well, in rows.
Kinds == {"seq", "set", "map", "tern", "tag"}
Object == [kind : Kinds, mem : Memory, ref_count : Nat \ {0}, size : Nat \ {0}, capacity : Nat, refs : Seq(Block)]
Frame == [queue : [0 .. MAX_QUEUE_SIZE - 1 -> Block \cup {NULL}], queue_start : 0 .. MAX_QUEUE_SIZE - 1,
          queue_size : 0 .. MAX_QUEUE_SIZE, obj : Block \cup {NULL}, i : Nat]

\* The bytes of an object. OBJ has 16, the header of a sequence 16, that of
\* another object 8, and an index 4.
mem_size(kind, size) ==
  CASE kind = "seq"  -> 16 + 16 * size
    [] kind = "set"  -> 8 + 16 * size
    [] kind = "map"  -> 8 + 32 * size + 4 * size
    [] kind = "tern" -> 8 + 48 * size + 8 * size
    [] kind = "tag"  -> 24

\* Every sequence takes the whole of its block.
seq_capacity(bytes) == (bytes - 32) \div 16 + 1

\* Mutant: the size of a sequence says which block it is in.
obj_mem_size_filled(o) == mem_size(o.kind, o.size)

\* The size free_obj is called with.
obj_mem_size(o) == mem_size(o.kind, IF o.kind = "seq" THEN o.capacity ELSE o.size)

is_gc_obj(m, o) == o.mem = (IF m.state = "try" THEN "try" ELSE "std")

\* The ring of a call of delete_obj.
NewFrame(x) ==
  [queue |-> [k \in 0 .. MAX_QUEUE_SIZE - 1 |-> IF k = 0 THEN x ELSE NULL],
   queue_start |-> 0, queue_size |-> 1, obj |-> NULL, i |-> 0]

\* What a step of a loop leads to.
To(m, heap, stack) == [m |-> m, heap |-> heap, stack |-> stack]

Push(stack, frame) == <<frame>> \o stack
Top(stack, frame) == <<frame>> \o Tail(stack)

\* The elements of the frame's object that its loop has not come to yet.
Unreleased(heap, frame) == SubSeq(heap[frame.obj].refs, frame.i + 1, Len(heap[frame.obj].refs))

\* delete_obj(OBJ): the oldest of the ring is next. Its place, which is not read
\* again before it is written, is cleared here to have fewer states.
NextObj(m, heap, stack) ==
  LET f == Head(stack)
  IN  To(m, heap, Top(stack, [f EXCEPT !.obj = f.queue[f.queue_start], !.queue[f.queue_start] = NULL,
                                       !.queue_size = @ - 1, !.queue_start = (@ + 1) % MAX_QUEUE_SIZE]))

\* Mutant: the new object takes the place after the last, full ring or not.
Replaced_last(f, x) == [f EXCEPT !.queue[(f.queue_start + f.queue_size - 1) % MAX_QUEUE_SIZE] = x,
                                 !.queue_start = (@ + 1) % MAX_QUEUE_SIZE]

\* The ring is full: the new object takes the place of the oldest.
Replaced(f, x) == [f EXCEPT !.queue[f.queue_start] = x, !.queue_start = (@ + 1) % MAX_QUEUE_SIZE]

Queued(f, x) == [f EXCEPT !.queue[(f.queue_start + f.queue_size) % MAX_QUEUE_SIZE] = x, !.queue_size = @ + 1]

\* Mutant: the count goes down although the object is only queued.
Decremented_always(heap, x) == heap[x].ref_count - 1

\* An object that is queued keeps its count of 1.
Decremented(heap, x) == IF heap[x].ref_count = 1 THEN 1 ELSE heap[x].ref_count - 1

\* Mutant: a full ring is waited for.
ReleaseElem_waiting(m, heap, stack) ==
  LET f == Head(stack)
      x == Head(Unreleased(heap, f))
      next == [f EXCEPT !.i = @ + 1]
  IN  IF ~is_gc_obj(m, heap[x]) THEN To(m, heap, Top(stack, next))
      ELSE IF heap[x].ref_count > 1
      THEN To(m, [heap EXCEPT ![x].ref_count = Decremented(heap, x)], Top(stack, next))
      ELSE IF f.queue_size = MAX_QUEUE_SIZE THEN To(m, heap, stack)
      ELSE To(m, [heap EXCEPT ![x].ref_count = Decremented(heap, x)], Top(stack, Queued(next, x)))

\* release(objs, count, queue, ...): one turn of the loop over the elements.
ReleaseElem(m, heap, stack) ==
  LET f == Head(stack)
      x == Head(Unreleased(heap, f))
      next == [f EXCEPT !.i = @ + 1]
  IN  IF ~is_gc_obj(m, heap[x]) THEN To(m, heap, Top(stack, next))
      ELSE To(m, [heap EXCEPT ![x].ref_count = Decremented(heap, x)],
              IF heap[x].ref_count > 1 THEN Top(stack, next)
              ELSE IF f.queue_size = MAX_QUEUE_SIZE
              THEN Push(Top(stack, Replaced(next, x)), NewFrame(f.queue[f.queue_start]))
              ELSE Top(stack, Queued(next, x)))

\* delete_obj(OBJ, queue, ...): the elements are released, now the block is.
FreeObj(m, heap, stack) ==
  LET f == Head(stack)
  IN  To(free_obj(m, f.obj, obj_mem_size(heap[f.obj])), [x \in DOMAIN heap \ {f.obj} |-> heap[x]],
         Top(stack, [f EXCEPT !.obj = NULL, !.i = 0]))

\* The step the code takes next.
delete_obj(m, heap, stack) ==
  LET f == Head(stack)
  IN  CASE f.obj = NULL /\ f.queue_size > 0                  -> NextObj(m, heap, stack)
        [] f.obj # NULL /\ f.i < Len(heap[f.obj].refs)       -> ReleaseElem(m, heap, stack)
        [] f.obj # NULL /\ f.i = Len(heap[f.obj].refs)       -> FreeObj(m, heap, stack)
        [] f.obj = NULL /\ f.queue_size = 0                  -> To(m, heap, Tail(stack))
=============================================================================
