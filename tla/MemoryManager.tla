--------------------------- MODULE MemoryManager ---------------------------
(***************************************************************************)
(* The allocator and the deletion of objects under a program that makes    *)
(* objects and buffers, in and out of transactions.                        *)
(*                                                                         *)
(* Transactions has the same program with what the objects mean, and       *)
(* deletes an object in one step; here an object is the size and the       *)
(* references it has, and deleting it takes the steps the code takes.      *)
(***************************************************************************)
EXTENDS DeleteQueue, FiniteSetsExt, Functions

CONSTANTS
  Shape,          \* the kinds and sizes of the objects the program makes
  BufferSize,     \* the sizes of its buffers, in bytes
  MAX_OBJECTS,    \* bound: objects and buffers at a time
  MAX_TRY_OBJECTS,  \* bound: those of a transaction
  MAX_ROOTS,      \* bound: references the program owns
  MAX_REFS        \* bound: references in an object

ASSUME ProgramAssumption ==
  /\ Shape \subseteq Kinds \X (Nat \ {0})
  /\ BufferSize \subseteq Nat \ {0}
  /\ {MAX_OBJECTS, MAX_ROOTS, MAX_REFS} \subseteq Nat

\* No program asks for more than the largest block.
ASSUME LargestAssumption ==
  /\ \A s \in Shape : Fits(mem_size(s[1], s[2]))
  /\ \A bytes \in BufferSize : Fits(bytes)

VARIABLES
  m,        \* the allocator
  heap,     \* the object in each block that holds one
  roots,    \* how many references to each object the program owns
  buffers,  \* the blocks that are buffers: the bytes asked for and their memory
  stack     \* the calls of delete_obj under way, the innermost first

vars == <<m, heap, roots, buffers, stack>>

Running == stack = <<>>
CurrMemory == IF m.state = "try" THEN "try" ELSE "std"
InMemory(objs, mem) == {x \in DOMAIN objs : objs[x].mem = mem}
InUse == Cardinality(DOMAIN heap \cup DOMAIN buffers)

Times(refs, x) == Cardinality({k \in DOMAIN refs : refs[k] = x})
Owned(r) == LET Value(x) == r[x] IN MapThenSumSet(Value, DOMAIN r)

Init ==
  /\ m = NoMemory
  /\ heap = <<>>
  /\ roots = <<>>
  /\ buffers = <<>>
  /\ stack = <<>>

\* An object is made of references the program owns and gives up. In a
\* transaction those to objects from outside of it are not counted.
Build(kind, size, refs) ==
  LET asked == mem_size(kind, size)
      given == IF kind = "seq" THEN size_code_size(min_size_code(asked)) ELSE asked
      made == new_obj(m, asked, given)
      obj == [kind |-> kind, mem |-> CurrMemory, ref_count |-> 1, size |-> size,
              capacity |-> IF kind = "seq" THEN seq_capacity(given) ELSE 0, refs |-> refs]
      Left(x) == IF is_gc_obj(m, heap[x]) THEN roots[x] - Times(refs, x) ELSE roots[x]
  IN  /\ Running
      /\ InUse < MAX_OBJECTS
      /\ CanAlloc(m, asked)
      /\ m.state = "try" => Cardinality(InMemory(heap, "try")) < MAX_TRY_OBJECTS
      /\ \A k \in DOMAIN refs : roots[refs[k]] > 0
      /\ \A x \in DOMAIN heap : Left(x) >= 0
      /\ m' = made.m
      /\ heap' = [x \in DOMAIN heap \cup {made.block} |-> IF x = made.block THEN obj ELSE heap[x]]
      /\ roots' = [x \in DOMAIN heap' |-> IF x = made.block THEN 1 ELSE Left(x)]
      /\ Owned(roots') <= MAX_ROOTS
      /\ UNCHANGED <<buffers, stack>>

AddRef(x) ==
  /\ Running
  /\ is_gc_obj(m, heap[x])
  /\ roots[x] > 0
  /\ Owned(roots) < MAX_ROOTS
  /\ heap' = [heap EXCEPT ![x].ref_count = @ + 1]
  /\ roots' = [roots EXCEPT ![x] = @ + 1]
  /\ UNCHANGED <<m, buffers, stack>>

\* A sequence with room takes one more element in place.
Append1(x, y) ==
  /\ Running
  /\ m.state # "copying"
  /\ x # y
  /\ heap[x].kind = "seq" /\ heap[x].size < heap[x].capacity
  /\ roots[x] > 0 /\ roots[y] > 0
  /\ heap[y].refs = <<>>
  /\ is_gc_obj(m, heap[x]) /\ is_gc_obj(m, heap[y])
  /\ Len(heap[x].refs) < MAX_REFS
  /\ heap' = [heap EXCEPT ![x].size = @ + 1, ![x].refs = Append(@, y)]
  /\ roots' = [roots EXCEPT ![y] = @ - 1]
  /\ UNCHANGED <<m, buffers, stack>>

\* release(OBJ): the last reference to an object deletes it. When values have
\* been copied old ones are released, those no temporary object refers to.
TryRefersTo(mem) == \E y \in InMemory(heap, "try") : \E k \in DOMAIN heap[y].refs : heap[heap[y].refs[k]].mem = mem
Drop(x) ==
  /\ Running
  /\ m.state = "copying" => ~TryRefersTo("std")
  /\ is_gc_obj(m, heap[x])
  /\ roots[x] > 0
  /\ roots' = [roots EXCEPT ![x] = @ - 1]
  /\ IF heap[x].ref_count = 1
     THEN /\ stack' = <<NewFrame(x)>>
          /\ UNCHANGED heap
     ELSE /\ heap' = [heap EXCEPT ![x].ref_count = @ - 1]
          /\ UNCHANGED stack
  /\ UNCHANGED <<m, buffers>>

DeleteStep ==
  /\ ~Running
  /\ LET next == delete_obj(m, heap, stack)
     IN  /\ m' = next.m
         /\ heap' = next.heap
         /\ roots' = Restrict(roots, DOMAIN next.heap)
         /\ stack' = next.stack
  /\ UNCHANGED buffers

\* The arrays of mem.cpp. A function gives back what it took in the same state.
NewBuffer(bytes) ==
  LET made == new_obj(m, bytes, bytes)
  IN  /\ Running
      /\ DOMAIN buffers = {}
      /\ InUse < MAX_OBJECTS
      /\ m.state # "copying"
      /\ CanAlloc(m, bytes)
      /\ m' = made.m
      /\ buffers' = [b \in {made.block} |-> [bytes |-> bytes, mem |-> CurrMemory]]
      /\ UNCHANGED <<heap, roots, stack>>

ResizeBuffer(b, bytes) ==
  LET made == resize_obj(m, b, buffers[b].bytes, bytes)
  IN  /\ Running
      /\ buffers[b].mem = CurrMemory
      /\ bytes > buffers[b].bytes
      /\ CanAlloc(m, bytes)
      /\ m' = made.m
      /\ buffers' = [c \in {made.block} |-> [bytes |-> bytes, mem |-> CurrMemory]]
      /\ UNCHANGED <<heap, roots, stack>>

DeleteBuffer(b) ==
  /\ Running
  /\ buffers[b].mem = CurrMemory
  /\ m' = free_obj(m, b, buffers[b].bytes)
  /\ buffers' = <<>>
  /\ UNCHANGED <<heap, roots, stack>>

EnterTry ==
  /\ Running
  /\ m.state = "normal"
  /\ m' = enter_try_state(m)
  /\ UNCHANGED <<heap, roots, buffers, stack>>

\* The objects made in this state are the copies.
EnterCopy ==
  /\ Running
  /\ m.state = "try"
  /\ m' = enter_copy_state(m)
  /\ UNCHANGED <<heap, roots, buffers, stack>>

RestoreTry ==
  /\ Running
  /\ m.state = "copying"
  /\ m' = restore_try_state(m)
  /\ UNCHANGED <<heap, roots, buffers, stack>>

\* The program forgets what it had in the transaction.
Forget ==
  /\ heap' = Restrict(heap, InMemory(heap, "std"))
  /\ roots' = Restrict(roots, InMemory(heap, "std"))
  /\ buffers' = Restrict(buffers, InMemory(buffers, "std"))
  /\ UNCHANGED stack

ReturnToNormal ==
  /\ Running
  /\ m.state = "copying"
  /\ m' = return_to_normal_state(m)
  /\ Forget

AbortTry ==
  /\ Running
  /\ m.state = "try"
  /\ m' = abort_try_state(m)
  /\ Forget

\* The references an object is made of are to objects that may be in it: no
\* reference from standard memory into a transaction's.
Given == {x \in DOMAIN heap : roots[x] > 0 /\ (heap[x].mem = "try" => m.state = "try")}
References == UNION {[1 .. n -> Given] : n \in 0 .. MAX_REFS}
Holds(kind, size) == size * (CASE kind = "map" -> 2 [] kind = "tern" -> 3 [] OTHER -> 1)

Next ==
  \/ \E s \in Shape, refs \in References : Len(refs) <= Holds(s[1], s[2]) /\ Build(s[1], s[2], refs)
  \/ \E x \in DOMAIN heap : AddRef(x)
  \/ \E x, y \in DOMAIN heap : Append1(x, y)
  \/ \E x \in DOMAIN heap : Drop(x)
  \/ DeleteStep
  \/ \E bytes \in BufferSize : NewBuffer(bytes)
  \/ \E b \in DOMAIN buffers, bytes \in BufferSize : ResizeBuffer(b, bytes)
  \/ \E b \in DOMAIN buffers : DeleteBuffer(b)
  \/ EnterTry \/ EnterCopy \/ RestoreTry
  \/ ReturnToNormal
  \/ AbortTry

\* A call of delete_obj that has begun goes on: the thread is the program's.
Spec == Init /\ [][Next]_vars /\ WF_vars(DeleteStep)

-----------------------------------------------------------------------------
(* Types. All state keeps its shape, a queue its limit, and no count is zero. *)
TypeOK ==
  /\ m \in Allocator
  /\ DOMAIN heap \subseteq Block /\ \A x \in DOMAIN heap : heap[x] \in Object
  /\ DOMAIN roots = DOMAIN heap /\ \A x \in DOMAIN roots : roots[x] \in Nat
  /\ stack \in Seq(Frame)
  /\ DOMAIN buffers \subseteq Block /\ \A b \in DOMAIN buffers : buffers[b] \in [bytes : BufferSize, mem : Memory]

(* The space of every block in use, and of every block in a pool, is its    *)
(* own: no two overlap, and all are inside an area that is not malloc's.    *)
PoolPlaces == UNION {{<<mem, code, i>> : i \in DOMAIN m.pool[mem][code]} : mem \in Memory, code \in PooledCode}
Spaces ==
  {[owner |-> x, block |-> x, bytes |-> obj_mem_size(heap[x])] : x \in DOMAIN heap} \cup
  {[owner |-> b, block |-> b, bytes |-> buffers[b].bytes] : b \in DOMAIN buffers} \cup
  {[owner |-> p, block |-> m.pool[p[1]][p[2]][p[3]], bytes |-> size_code_size(p[2])] : p \in PoolPlaces}
BlocksDisjoint ==
  /\ \A s \in Spaces : s.block.at + s.bytes <= PAGE * m.pages[s.block.area]
  /\ \A s, t \in Spaces : s # t /\ s.block.area = t.block.area =>
       s.block.at + s.bytes <= t.block.at \/ t.block.at + t.bytes <= s.block.at
  /\ DOMAIN buffers \cap DOMAIN heap = {}

(* Out of transactions an area either holds a block of standard memory, in  *)
(* use or in a pool of it, or is malloc's: nothing of a transaction stays.  *)
NothingLeft ==
  m.state = "normal" =>
    /\ {a \in Area : m.pages[a] > 0} = {s.block.area : s \in Spaces}
    /\ m.pool["try"] = EmptyPools

(* The memory debug builds report in use is that of the standard objects    *)
(* and buffers there are: free_obj is told the size that new_obj counted.   *)
Bytes(x) == IF x \in DOMAIN heap THEN obj_mem_size(heap[x]) ELSE buffers[x].bytes
StdBlocks == InMemory(heap, "std") \cup InMemory(buffers, "std")
UsageExact == m.live_objs = StdBlocks /\ m.live_mem_usage = MapThenSumSet(Bytes, StdBlocks)

(* In the middle of deletions at any depth, every reference is accounted    *)
(* for: an object's count is the references the program owns, those in      *)
(* objects of its memory whose loops have not come to them, one if it waits *)
(* in a ring and one if its own loop is under way; and only live objects    *)
(* are referred to or wait.                                                 *)
Call(d) == stack[Len(stack) + 1 - d]    \* the calls from the outermost on
Calls == 1 .. Len(stack)
Places(f) == {(f.queue_start + k) % MAX_QUEUE_SIZE : k \in 0 .. f.queue_size - 1}

Elements == UNION {{y} \X DOMAIN heap[y].refs : y \in DOMAIN heap}
Released(y, k) == \E d \in Calls : Call(d).obj = y /\ k <= Call(d).i

InObjects(x) == {e \in Elements : /\ heap[e[1]].mem = heap[x].mem
                                  /\ heap[e[1]].refs[e[2]] = x
                                  /\ ~Released(e[1], e[2])}
InRings(x) == {p \in Calls \X (0 .. MAX_QUEUE_SIZE - 1) :
                 p[2] \in Places(Call(p[1])) /\ Call(p[1]).queue[p[2]] = x}
InLoops(x) == {d \in Calls : Call(d).obj = x}

ReferencesAccounted ==
  /\ \A x \in DOMAIN heap :
       heap[x].ref_count = roots[x] + Cardinality(InObjects(x)) + Cardinality(InRings(x)) + Cardinality(InLoops(x))
  /\ \A e \in Elements : ~Released(e[1], e[2]) => heap[e[1]].refs[e[2]] \in DOMAIN heap
  /\ \A d \in Calls :
       /\ Call(d).obj # NULL => Call(d).obj \in DOMAIN heap
       /\ \A p \in Places(Call(d)) : Call(d).queue[p] \in DOMAIN heap

(* Whatever an object holds and however small the ring, deleting it ends.   *)
DeletionEnds == ~Running ~> Running
=============================================================================
