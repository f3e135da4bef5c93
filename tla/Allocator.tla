----------------------------- MODULE Allocator -----------------------------
(***************************************************************************)
(* The block allocator: mem-alloc.cpp, and new_obj and free_obj of         *)
(* mem-core.cpp.                                                           *)
(*                                                                         *)
(* A block is an area that malloc returned and an offset into it, in       *)
(* bytes. A chunk of pages is cut into blocks of one size, which go into   *)
(* the pool of that size; a larger block is an area of its own. There are  *)
(* pools for standard memory and pools for the memory of a transaction.    *)
(* The link that a free block holds is modelled by its place in the pool,  *)
(* a sequence.                                                             *)
(***************************************************************************)
EXTENDS Integers, Sequences, FiniteSets, Powers

CONSTANTS
  Area,         \* bound: the areas malloc can have given out at a time, numbers
  SLOT_COUNT,   \* the sizes of blocks that are pooled
  SMALLEST,     \* the bytes of the smallest block
  PAGE,         \* the bytes of a page
  CHUNK,        \* the pages asked for when a pool is empty
  MAX_SHIFT     \* the size codes of large blocks go to -2^MAX_SHIFT

ASSUME AllocatorAssumption ==
  /\ Area \subseteq Nat
  /\ {SLOT_COUNT, SMALLEST, PAGE, CHUNK} \subseteq Nat \ {0}
  /\ MAX_SHIFT \in Nat
  /\ SMALLEST * pow2[SLOT_COUNT - 1] < PAGE

\* Sizes of blocks are multiples of the size of a reference.
ASSUME AlignmentAssumption == SMALLEST % 16 = 0 /\ PAGE % 16 = 0

Memory == {"std", "try"}
PooledCode == 0 .. SLOT_COUNT - 1
LargeCode == {-pow2[i] : i \in 0 .. MAX_SHIFT}

size_code_size(code) == IF code >= 0 THEN SMALLEST * pow2[code] ELSE PAGE * (-code)

\* The smallest of the sizes that is enough, pooled if one is.
min_size_code(bytes) ==
  LET Enough(codes) == {c \in codes : bytes <= size_code_size(c)}
      Best(codes) == CHOOSE c \in codes : \A d \in codes : size_code_size(c) <= size_code_size(d)
  IN  IF Enough(PooledCode) # {} THEN Best(Enough(PooledCode))
      ELSE IF Enough(LargeCode) # {} THEN Best(Enough(LargeCode))
      ELSE -pow2[MAX_SHIFT]

\* What the assertion in min_size_code asks: some block is large enough.
Fits(bytes) == bytes <= PAGE * pow2[MAX_SHIFT]

Block == [area : Area, at : 0 .. PAGE * CHUNK - 1]

\* The pages each area has, 0 when malloc has it. pooled_blocks and
\* large_blocks are the areas to give back with the transaction; live_objs
\* and live_mem_usage are what debug builds keep of objects.
Allocator ==
  [state : {"normal", "try", "copying"}, curr_pool : Memory, pages : [Area -> Nat],
   pool : [Memory -> [PooledCode -> Seq(Block)]], pooled_blocks : SUBSET Area, large_blocks : SUBSET Area,
   live_objs : SUBSET Block, live_mem_usage : Nat]

EmptyPools == [c \in PooledCode |-> <<>>]
NoMemory ==
  [state |-> "normal", curr_pool |-> "std", pages |-> [a \in Area |-> 0],
   pool |-> [p \in Memory |-> EmptyPools], pooled_blocks |-> {}, large_blocks |-> {},
   live_objs |-> {}, live_mem_usage |-> 0]

\* Which unused area malloc returns makes no difference: the lowest stands for any.
HasArea(m) == \E a \in Area : m.pages[a] = 0
malloc(m) == CHOOSE a \in Area : m.pages[a] = 0 /\ \A b \in Area : m.pages[b] = 0 => a <= b

\* The blocks a chunk is cut into, but the first, which is the one asked for.
Cut(area, code) == [i \in 1 .. (PAGE * CHUNK) \div size_code_size(code) - 1 |-> [area |-> area, at |-> i * size_code_size(code)]]

\* Mutant: a chunk that a transaction asks for is not noted down.
alloc_mem_block_unlisted(m, code) ==
  LET pool == m.pool[m.curr_pool]
      area == malloc(m)
  IN  IF code >= 0 /\ pool[code] # <<>>
      THEN [block |-> Head(pool[code]), m |-> [m EXCEPT !.pool[m.curr_pool][code] = Tail(@)]]
      ELSE IF code >= 0
      THEN [block |-> [area |-> area, at |-> 0],
            m |-> [m EXCEPT !.pages[area] = CHUNK, !.pool[m.curr_pool][code] = Cut(area, code)]]
      ELSE [block |-> [area |-> area, at |-> 0],
            m |-> [m EXCEPT !.pages[area] = -code,
                            !.large_blocks = IF m.state = "try" THEN @ \cup {area} ELSE @]]

alloc_mem_block(m, code) ==
  LET pool == m.pool[m.curr_pool]
      area == malloc(m)
  IN  IF code >= 0 /\ pool[code] # <<>>
      THEN [block |-> Head(pool[code]), m |-> [m EXCEPT !.pool[m.curr_pool][code] = Tail(@)]]
      ELSE IF code >= 0
      THEN [block |-> [area |-> area, at |-> 0],
            m |-> [m EXCEPT !.pages[area] = CHUNK, !.pool[m.curr_pool][code] = Cut(area, code),
                            !.pooled_blocks = IF m.state = "try" THEN @ \cup {area} ELSE @]]
      ELSE [block |-> [area |-> area, at |-> 0],
            m |-> [m EXCEPT !.pages[area] = -code,
                            !.large_blocks = IF m.state = "try" THEN @ \cup {area} ELSE @]]

release_mem_block(m, block, code) ==
  IF code >= 0 THEN [m EXCEPT !.pool[m.curr_pool][code] = <<block>> \o @]
  ELSE [m EXCEPT !.pages[block.area] = 0,
                 !.large_blocks = IF m.state = "try" THEN @ \ {block.area} ELSE @]

\* Whether new_obj finds memory; the program ends when malloc does not.
CanAlloc(m, bytes) == HasArea(m) \/ (min_size_code(bytes) >= 0 /\ m.pool[m.curr_pool][min_size_code(bytes)] # <<>>)

\* counted is the size debug builds add to the memory in use.
new_obj(m, bytes, counted) ==
  LET made == alloc_mem_block(m, min_size_code(bytes))
  IN  IF m.state = "try" THEN made
      ELSE [made EXCEPT !.m.live_objs = @ \cup {made.block}, !.m.live_mem_usage = @ + counted]

free_obj(m, block, bytes) ==
  LET freed == release_mem_block(m, block, min_size_code(bytes))
  IN  IF m.state = "try" THEN freed
      ELSE [freed EXCEPT !.live_objs = @ \ {block}, !.live_mem_usage = @ - bytes]

resize_obj(m, block, bytes, new_bytes) ==
  LET made == new_obj(m, new_bytes, new_bytes)
  IN  [made EXCEPT !.m = free_obj(made.m, block, bytes)]

enter_try_state(m) == [m EXCEPT !.state = "try", !.curr_pool = "try"]
enter_copy_state(m) == [m EXCEPT !.state = "copying", !.curr_pool = "std"]

\* Mutant: the transaction goes on with the pools of standard memory.
restore_try_state_only(m) == [m EXCEPT !.state = "try"]

restore_try_state(m) == [m EXCEPT !.state = "try", !.curr_pool = "try"]

release_all_try_state_memory(m) ==
  [m EXCEPT !.pages = [a \in Area |-> IF a \in m.pooled_blocks \cup m.large_blocks THEN 0 ELSE m.pages[a]],
            !.pooled_blocks = {}, !.large_blocks = {}, !.pool["try"] = EmptyPools]

\* From the copying state, whose pools are those of standard memory already.
return_to_normal_state(m) == release_all_try_state_memory([m EXCEPT !.state = "normal"])
abort_try_state(m) == release_all_try_state_memory([m EXCEPT !.state = "normal", !.curr_pool = "std"])
=============================================================================
