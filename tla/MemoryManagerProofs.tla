------------------------ MODULE MemoryManagerProofs ------------------------
(***************************************************************************)
(* Theorems about MemoryManager, for any numbers of areas, any sizes and   *)
(* any depth of deletion: what the allocator keeps of its blocks, what     *)
(* deleting objects keeps of the references to them, and how the two fit.  *)
(***************************************************************************)
EXTENDS MemoryManager, Arithmetic

-----------------------------------------------------------------------------
(***************************************************************************)
(* What is true of an allocator and the blocks that are in use. used gives *)
(* the size code and the memory of each of them.                           *)
(***************************************************************************)
Codes == PooledCode \cup LargeCode
TryAreas(M) == M.pooled_blocks \cup M.large_blocks

AllocatorFields ==
  [state : {"normal", "try", "copying"}, curr_pool : Memory, pages : [Area -> Nat],
   pool : [Memory -> [PooledCode -> Seq(Block)]], pooled_blocks : SUBSET Area, large_blocks : SUBSET Area,
   live_objs : SUBSET Block, live_mem_usage : Int]

UsesTyped(used) ==
  \A x \in DOMAIN used : x \in Block /\ used[x].code \in Codes /\ used[x].mem \in Memory

\* The space of a block is inside of its area, and apart from that of another.
Room(M, x, code) == x.at + size_code_size(code) <= PAGE * M.pages[x.area]
Apart(x, c, y, d) ==
  x.area = y.area => x.at + size_code_size(c) <= y.at \/ y.at + size_code_size(d) <= x.at

InRoom(M, used) ==
  /\ \A x \in DOMAIN used : Room(M, x, used[x].code)
  /\ \A p \in Memory, c \in PooledCode : \A i \in DOMAIN M.pool[p][c] : Room(M, M.pool[p][c][i], c)

UsedApart(used) == \A x, y \in DOMAIN used : x # y => Apart(x, used[x].code, y, used[y].code)
UsedPoolApart(M, used) ==
  \A x \in DOMAIN used, p \in Memory, c \in PooledCode :
    \A i \in DOMAIN M.pool[p][c] : Apart(x, used[x].code, M.pool[p][c][i], c)
PoolApart(M) ==
  \A p, q \in Memory, c, d \in PooledCode :
    \A i \in DOMAIN M.pool[p][c], j \in DOMAIN M.pool[q][d] :
      p # q \/ c # d \/ i # j => Apart(M.pool[p][c][i], c, M.pool[q][d][j], d)

\* A large block is the whole of its area.
LargeWhole(M, used) ==
  \A x \in DOMAIN used : used[x].code < 0 => x.at = 0 /\ M.pages[x.area] = -used[x].code

\* The areas that the transaction gives back are those of its blocks.
UsedListed(M, used) ==
  \A x \in DOMAIN used :
    /\ used[x].mem = "std" => x.area \notin TryAreas(M)
    /\ used[x].mem = "try" /\ used[x].code >= 0 => x.area \in M.pooled_blocks
    /\ used[x].mem = "try" /\ used[x].code < 0 => x.area \in M.large_blocks
PoolListed(M) ==
  \A c \in PooledCode :
    /\ \A i \in DOMAIN M.pool["std"][c] : M.pool["std"][c][i].area \notin TryAreas(M)
    /\ \A i \in DOMAIN M.pool["try"][c] : M.pool["try"][c][i].area \in M.pooled_blocks
ListsSound(M) ==
  /\ M.pooled_blocks \cap M.large_blocks = {}
  /\ \A a \in TryAreas(M) : M.pages[a] > 0

\* No area is kept for nothing.
HasBlock(M, used, a) ==
  \/ \E x \in DOMAIN used : x.area = a
  \/ \E p \in Memory, c \in PooledCode : \E i \in DOMAIN M.pool[p][c] : M.pool[p][c][i].area = a
AreasKept(M, used) == \A a \in Area : M.pages[a] > 0 => HasBlock(M, used, a)

Modes(M) ==
  /\ M.curr_pool = (IF M.state = "try" THEN "try" ELSE "std")
  /\ M.state = "normal" => TryAreas(M) = {} /\ \A c \in PooledCode : M.pool["try"][c] = <<>>

AllocInv(M, used) ==
  /\ M \in AllocatorFields /\ UsesTyped(used)
  /\ InRoom(M, used) /\ UsedApart(used) /\ UsedPoolApart(M, used) /\ PoolApart(M)
  /\ LargeWhole(M, used) /\ UsedListed(M, used) /\ PoolListed(M) /\ ListsSound(M)
  /\ AreasKept(M, used) /\ Modes(M)

-----------------------------------------------------------------------------
(***************************************************************************)
(* Sizes.                                                                  *)
(***************************************************************************)

\* The constants are numbers, none of them 0.
LEMMA Constants ==
  /\ SLOT_COUNT \in Nat /\ SLOT_COUNT > 0 /\ SMALLEST \in Nat /\ SMALLEST > 0
  /\ PAGE \in Nat /\ PAGE > 0 /\ CHUNK \in Nat /\ CHUNK > 0 /\ MAX_SHIFT \in Nat
  /\ Area \subseteq Nat
BY AllocatorAssumption

\* Products of numbers, for the provers.
LEMMA Products ==
  /\ \A i, j \in Nat : i * j \in Nat
  /\ \A i, j \in Nat : i > 0 /\ j > 0 => i * j > 0
  /\ \A k, i, j \in Nat : k > 0 /\ i < j => k * i < k * j
  /\ \A k, i, j \in Nat : i <= j => k * i <= k * j
OBVIOUS

\* The code of a large block is a power of two, negated.
LEMMA LargeCodes ==
  ASSUME NEW c \in LargeCode
  PROVE  c \in Int /\ c < 0 /\ -c \in Nat /\ -c > 0 /\ \E i \in 0 .. MAX_SHIFT : c = -pow2[i]
<1>1. PICK i \in 0 .. MAX_SHIFT : c = -pow2[i]
  BY DEF LargeCode
<1>2. i \in Nat
  BY Constants
<1>3. pow2[i] \in Nat /\ pow2[i] > 0
  BY <1>2, Pow2Grows
<1> QED
  BY <1>1, <1>3

\* Every size code has a positive size; those of pooled blocks are below a page.
LEMMA Sizes ==
  /\ \A c \in Codes : c \in Int /\ size_code_size(c) \in Nat /\ size_code_size(c) > 0
  /\ \A c \in PooledCode : c \in Nat /\ size_code_size(c) = SMALLEST * pow2[c] /\ size_code_size(c) < PAGE
  /\ \A c \in LargeCode : c < 0 /\ size_code_size(c) = PAGE * (-c) /\ size_code_size(c) >= PAGE
<1>1. ASSUME NEW c \in PooledCode
      PROVE  /\ c \in Nat /\ size_code_size(c) = SMALLEST * pow2[c] /\ size_code_size(c) < PAGE
             /\ size_code_size(c) \in Nat /\ size_code_size(c) > 0
  <2>1. c \in Nat /\ c <= SLOT_COUNT - 1 /\ SLOT_COUNT - 1 \in Nat
    BY Constants DEF PooledCode
  <2>2. pow2[c] \in Nat /\ pow2[c] > 0 /\ pow2[SLOT_COUNT - 1] \in Nat
    BY <2>1, Pow2Grows
  <2>3. pow2[c] <= pow2[SLOT_COUNT - 1]
    <3>1. CASE c = SLOT_COUNT - 1
      BY <2>2, <3>1
    <3>2. CASE c # SLOT_COUNT - 1
      <4>1. c < SLOT_COUNT - 1
        BY <2>1, <3>2
      <4>2. pow2[c] < pow2[SLOT_COUNT - 1]
        BY <2>1, <4>1, Pow2Increases
      <4> QED
        BY <2>2, <4>2
    <3> QED
      BY <3>1, <3>2
  <2>4. SMALLEST * pow2[c] <= SMALLEST * pow2[SLOT_COUNT - 1]
    BY <2>2, <2>3, Constants, Products
  <2>5. SMALLEST * pow2[SLOT_COUNT - 1] < PAGE
    BY AllocatorAssumption
  <2>6. SMALLEST * pow2[c] \in Nat /\ SMALLEST * pow2[c] > 0 /\ SMALLEST * pow2[SLOT_COUNT - 1] \in Nat
    BY <2>2, Constants, Products
  <2>7. size_code_size(c) = SMALLEST * pow2[c]
    BY <2>1 DEF size_code_size
  <2> QED
    BY <2>1, <2>4, <2>5, <2>6, <2>7, Constants
<1>2. ASSUME NEW c \in LargeCode
      PROVE  /\ c < 0 /\ c \in Int /\ size_code_size(c) = PAGE * (-c) /\ size_code_size(c) >= PAGE
             /\ size_code_size(c) \in Nat /\ size_code_size(c) > 0
  <2>1. c \in Int /\ c < 0 /\ -c \in Nat /\ -c >= 1
    BY LargeCodes
  <2>2. size_code_size(c) = PAGE * (-c)
    BY <2>1 DEF size_code_size
  <2>3. PAGE * 1 <= PAGE * (-c) /\ PAGE * (-c) \in Nat /\ PAGE * (-c) > 0
    <3>1. -c > 0 /\ 1 \in Nat
      BY <2>1
    <3> QED
      BY <2>1, <3>1, Constants, Products
  <2> QED
    BY <2>1, <2>2, <2>3, Constants
<1>3. \A c \in PooledCode : c \in Int
  BY <1>1
<1> QED
  BY <1>1, <1>2, <1>3 DEF Codes

\* Different codes have different sizes.
LEMMA SizesDiffer ==
  ASSUME NEW c \in Codes, NEW d \in Codes, size_code_size(c) = size_code_size(d)
  PROVE  c = d
<1>1. CASE c \in PooledCode /\ d \in PooledCode
  <2>1. c \in Nat /\ d \in Nat /\ SMALLEST * pow2[c] = SMALLEST * pow2[d]
    BY <1>1, Sizes
  <2>2. \A i, j \in Nat : i < j => SMALLEST * pow2[i] < SMALLEST * pow2[j]
    <3> TAKE i, j \in Nat
    <3> HAVE i < j
    <3>1. pow2[i] < pow2[j] /\ pow2[i] \in Nat /\ pow2[j] \in Nat
      BY Pow2Increases, Pow2Grows
    <3> QED
      BY <3>1, Constants, Products
  <2>3. SMALLEST * pow2[c] \in Nat
    BY <2>1, Pow2Grows, Constants, Products
  <2>4. ~(c < d) /\ ~(d < c)
    BY <2>1, <2>2, <2>3
  <2> QED
    BY <2>1, <2>4
<1>2. CASE c \in LargeCode /\ d \in LargeCode
  <2>1. -c \in Nat /\ -d \in Nat /\ c \in Int /\ d \in Int
    BY <1>2, LargeCodes
  <2>2. PAGE * (-c) = PAGE * (-d)
    BY <1>2, Sizes
  <2>3. ~(-c < -d) /\ ~(-d < -c)
    <3>1. \A i, j \in Nat : i < j => PAGE * i < PAGE * j /\ PAGE * i \in Nat /\ PAGE * j \in Nat
      BY Constants, Products
    <3> HIDE DEF LargeCode
    <3> QED
      BY <2>1, <2>2, <3>1
  <2> QED
    BY <2>1, <2>3
<1>3. CASE c \in PooledCode /\ d \in LargeCode
  BY <1>3, Sizes, Constants
<1>4. CASE c \in LargeCode /\ d \in PooledCode
  BY <1>4, Sizes, Constants
<1> QED
  BY <1>1, <1>2, <1>3, <1>4 DEF Codes

\* The code of a size is one whose blocks are large enough.
LEMMA CodeFits ==
  ASSUME NEW bytes \in Nat, Fits(bytes)
  PROVE  /\ min_size_code(bytes) \in Codes /\ bytes <= size_code_size(min_size_code(bytes))
         /\ \A d \in PooledCode : bytes <= size_code_size(d) =>
              /\ min_size_code(bytes) \in PooledCode
              /\ size_code_size(min_size_code(bytes)) <= size_code_size(d)
         /\ \A d \in Codes : bytes <= size_code_size(d) =>
              size_code_size(min_size_code(bytes)) <= size_code_size(d)
<1> DEFINE Enough(codes) == {c \in codes : bytes <= size_code_size(c)}
           Best(codes) == CHOOSE c \in codes : \A d \in codes : size_code_size(c) <= size_code_size(d)
           code == min_size_code(bytes)
<1>1. ASSUME NEW S \in SUBSET Codes, S # {}
      PROVE  Best(S) \in S /\ \A d \in S : size_code_size(Best(S)) <= size_code_size(d)
  <2> DEFINE size == [c \in S |-> size_code_size(c)]
  <2>1. \A c \in S : size[c] \in Nat
    BY Sizes
  <2>2. \E c \in S : \A d \in S : size[c] <= size[d]
    <3> HIDE DEF size
    <3> QED
      BY <1>1, <2>1, LeastBy
  <2>3. \E c \in S : \A d \in S : size_code_size(c) <= size_code_size(d)
    BY <2>2
  <2> QED
    BY <2>3
<1>2. /\ code = IF Enough(PooledCode) # {} THEN Best(Enough(PooledCode))
                ELSE IF Enough(LargeCode) # {} THEN Best(Enough(LargeCode)) ELSE -pow2[MAX_SHIFT]
  BY DEF min_size_code
<1>3. Enough(PooledCode) \in SUBSET Codes /\ Enough(LargeCode) \in SUBSET Codes
  BY DEF Codes
<1>4. -pow2[MAX_SHIFT] \in Enough(LargeCode)
  <2>1. MAX_SHIFT \in 0 .. MAX_SHIFT
    BY Constants
  <2>2. -pow2[MAX_SHIFT] \in LargeCode
    BY <2>1 DEF LargeCode
  <2>3. pow2[MAX_SHIFT] \in Nat
    BY Constants, Pow2Grows
  <2>4. size_code_size(-pow2[MAX_SHIFT]) = PAGE * pow2[MAX_SHIFT]
    <3>1. size_code_size(-pow2[MAX_SHIFT]) = PAGE * (-(-pow2[MAX_SHIFT]))
      BY <2>2, Sizes
    <3>2. -(-pow2[MAX_SHIFT]) = pow2[MAX_SHIFT]
      BY <2>3
    <3> QED
      BY <3>1, <3>2
  <2> QED
    BY <2>2, <2>4 DEF Fits
<1>5. CASE Enough(PooledCode) # {}
  <2>1. code \in Enough(PooledCode) /\ \A d \in Enough(PooledCode) : size_code_size(code) <= size_code_size(d)
    <3>1. code = Best(Enough(PooledCode))
      BY <1>2, <1>5
    <3> HIDE DEF Enough, code, Best
    <3> QED
      BY <3>1, <1>1, <1>3, <1>5
  <2>2. \A d \in LargeCode : size_code_size(code) <= size_code_size(d)
    BY <2>1, Sizes, Constants DEF Codes
  <2> QED
    BY <2>1, <2>2 DEF Codes
<1>6. CASE Enough(PooledCode) = {}
  <2>1. code \in Enough(LargeCode) /\ \A d \in Enough(LargeCode) : size_code_size(code) <= size_code_size(d)
    <3>1. code = Best(Enough(LargeCode)) /\ Enough(LargeCode) # {}
      BY <1>2, <1>4, <1>6
    <3> HIDE DEF Enough, code, Best
    <3> QED
      BY <3>1, <1>1, <1>3
  <2> QED
    BY <2>1, <1>6 DEF Codes
<1> QED
  BY <1>5, <1>6

\* The size of a block has the code that the block was asked for with: an
\* object that takes the whole of its block is given back to the right pool.
LEMMA CodeOfWhole ==
  ASSUME NEW bytes \in Nat, Fits(bytes)
  PROVE  min_size_code(size_code_size(min_size_code(bytes))) = min_size_code(bytes)
<1> DEFINE c == min_size_code(bytes)
           size == size_code_size(c)
           d == min_size_code(size)
<1>1. c \in Codes /\ bytes <= size /\ size \in Nat
  BY CodeFits, Sizes
<1>2. Fits(size)
  <2>1. MAX_SHIFT \in 0 .. MAX_SHIFT
    BY Constants
  <2>2. -pow2[MAX_SHIFT] \in LargeCode
    BY <2>1 DEF LargeCode
  <2>3. pow2[MAX_SHIFT] \in Nat
    BY Constants, Pow2Grows
  <2>4. size_code_size(-pow2[MAX_SHIFT]) = PAGE * pow2[MAX_SHIFT]
    <3>1. size_code_size(-pow2[MAX_SHIFT]) = PAGE * (-(-pow2[MAX_SHIFT]))
      BY <2>2, Sizes
    <3>2. -(-pow2[MAX_SHIFT]) = pow2[MAX_SHIFT]
      BY <2>3
    <3> QED
      BY <3>1, <3>2
  <2>5. bytes <= size_code_size(-pow2[MAX_SHIFT]) /\ -pow2[MAX_SHIFT] \in Codes
    BY <2>2, <2>4 DEF Fits, Codes
  <2>6. size <= size_code_size(-pow2[MAX_SHIFT])
    BY <2>5, CodeFits
  <2> QED
    BY <2>4, <2>6 DEF Fits
<1>3. d \in Codes /\ size <= size_code_size(d)
  <2> HIDE DEF size
  <2> QED
    BY <1>1, <1>2, CodeFits
<1>4. size_code_size(d) <= size
  <2>1. c \in Codes /\ size <= size_code_size(c) /\ size \in Nat
    BY <1>1
  <2> HIDE DEF size
  <2>2. size_code_size(d) <= size_code_size(c)
    BY <1>2, <2>1, CodeFits
  <2> QED
    BY <2>2 DEF size
<1>5. size_code_size(d) = size_code_size(c)
  BY <1>1, <1>3, <1>4, Sizes
<1> QED
  BY <1>1, <1>3, <1>5, SizesDiffer

\* malloc gives out an area that it has.
LEMMA MallocFree ==
  ASSUME NEW M, M.pages \in [Area -> Nat], HasArea(M)
  PROVE  malloc(M) \in Area /\ M.pages[malloc(M)] = 0
<1> DEFINE S == {a \in Area : M.pages[a] = 0}
<1>1. S \in SUBSET Nat /\ S # {}
  BY Constants DEF HasArea
<1>2. PICK a \in S : \A b \in S : a <= b
  <2> HIDE DEF S
  <2> QED
    BY <1>1, LeastNat
<1>3. \E x \in Area : M.pages[x] = 0 /\ \A b \in Area : M.pages[b] = 0 => x <= b
  BY <1>2
<1> QED
  BY <1>3 DEF malloc

-----------------------------------------------------------------------------
(***************************************************************************)
(* Taking a block.                                                         *)
(***************************************************************************)

\* The blocks in use when one more is.
Taken(used, b, code, mem) ==
  [x \in DOMAIN used \cup {b} |-> IF x = b THEN [code |-> code, mem |-> mem] ELSE used[x]]
\* The blocks in use when one is not any more.
Without(used, b) == [x \in DOMAIN used \ {b} |-> used[x]]

\* A block and another in its area that has room before or after it are two.
LEMMA ApartDiffer ==
  ASSUME NEW x \in Block, NEW y \in Block, NEW c \in Codes, NEW d \in Codes, Apart(x, c, y, d)
  PROVE  x # y
<1>1. x.at \in Nat /\ size_code_size(c) \in Nat /\ size_code_size(c) > 0
  BY Sizes, Constants DEF Block
<1>2. size_code_size(d) \in Nat /\ size_code_size(d) > 0
  BY Sizes
<1> QED
  BY <1>1, <1>2 DEF Apart

\* Two blocks are apart in either order.
LEMMA ApartSym ==
  ASSUME NEW x, NEW c, NEW y, NEW d, Apart(x, c, y, d)
  PROVE  Apart(y, d, x, c)
BY DEF Apart

\* Nothing has room in an area that malloc has.
LEMMA NoRoom ==
  ASSUME NEW M, M.pages \in [Area -> Nat], NEW x \in Block, NEW c \in Codes, Room(M, x, c)
  PROVE  M.pages[x.area] > 0
<1>1. x.area \in Area /\ x.at \in Nat
  BY Constants DEF Block
<1>2. size_code_size(c) \in Nat /\ size_code_size(c) > 0
  BY Sizes
<1>3. M.pages[x.area] # 0
  <2> SUFFICES ASSUME M.pages[x.area] = 0 PROVE FALSE
    OBVIOUS
  <2>1. PAGE * 0 = 0
    BY Constants
  <2> QED
    BY <1>1, <1>2, <2>1 DEF Room
<1> QED
  BY <1>1, <1>3

\* The fields of an allocator that blocks depend on, but for the pools.
SameButPools(M, m2) ==
  /\ m2.state = M.state /\ m2.curr_pool = M.curr_pool /\ m2.pages = M.pages
  /\ m2.pooled_blocks = M.pooled_blocks /\ m2.large_blocks = M.large_blocks

\* The types of the parts of an allocator.
LEMMA Fields ==
  ASSUME NEW M \in AllocatorFields
  PROVE  /\ M.pages \in [Area -> Nat] /\ M.curr_pool \in Memory
         /\ M.pooled_blocks \subseteq Area /\ M.large_blocks \subseteq Area
         /\ \A p \in Memory, c \in PooledCode :
              /\ M.pool[p][c] \in Seq(Block) /\ Len(M.pool[p][c]) \in Nat
              /\ DOMAIN M.pool[p][c] = 1 .. Len(M.pool[p][c])
              /\ \A i \in DOMAIN M.pool[p][c] : M.pool[p][c][i] \in Block
BY DEF AllocatorFields

\* The places of the tail of a sequence.
LEMMA TailFacts ==
  ASSUME NEW T, NEW s \in Seq(T), s # <<>>
  PROVE  /\ 1 \in DOMAIN s /\ Head(s) = s[1]
         /\ \A i \in DOMAIN Tail(s) : i \in Nat /\ i + 1 \in DOMAIN s /\ i + 1 # 1 /\ Tail(s)[i] = s[i + 1]
         /\ \A i \in DOMAIN s : i # 1 => i - 1 \in DOMAIN Tail(s) /\ Tail(s)[i - 1] = s[i]
<1>1. /\ Tail(s) \in Seq(T) /\ Len(Tail(s)) = Len(s) - 1 /\ Len(s) \in Nat /\ Len(s) > 0
      /\ DOMAIN s = 1 .. Len(s)
  OBVIOUS
<1>2. DOMAIN Tail(s) = 1 .. Len(s) - 1
  BY <1>1
<1>3. \A i \in 1 .. Len(s) - 1 : Tail(s)[i] = s[i + 1]
  OBVIOUS
<1> QED
  BY <1>1, <1>2, <1>3

\* The places of a sequence with one more element before it.
LEMMA ConsFacts ==
  ASSUME NEW T, NEW s \in Seq(T), NEW x \in T
  PROVE  /\ <<x>> \o s \in Seq(T) /\ 1 \in DOMAIN (<<x>> \o s) /\ (<<x>> \o s)[1] = x
         /\ \A i \in DOMAIN (<<x>> \o s) : i # 1 => i \in Nat /\ i - 1 \in DOMAIN s /\ (<<x>> \o s)[i] = s[i - 1]
         /\ \A i \in DOMAIN s : i \in Nat /\ i + 1 \in DOMAIN (<<x>> \o s) /\ (<<x>> \o s)[i + 1] = s[i]
<1>1. /\ <<x>> \o s \in Seq(T) /\ Len(<<x>> \o s) = Len(s) + 1 /\ Len(s) \in Nat
      /\ DOMAIN s = 1 .. Len(s)
  OBVIOUS
<1>2. DOMAIN (<<x>> \o s) = 1 .. Len(s) + 1
  BY <1>1
<1>3. \A i \in 1 .. Len(s) + 1 : (<<x>> \o s)[i] = IF i = 1 THEN x ELSE s[i - 1]
  OBVIOUS
<1> QED
  BY <1>1, <1>2, <1>3

\* The first block of the current pool becomes one in use.
LEMMA PopKeeps ==
  ASSUME NEW M, NEW used, AllocInv(M, used), NEW c \in PooledCode, NEW p \in Memory, p = M.curr_pool,
         M.pool[p][c] # <<>>,
         NEW m2 \in AllocatorFields, SameButPools(M, m2), m2.pool = [M.pool EXCEPT ![p][c] = Tail(@)]
  PROVE  /\ Head(M.pool[p][c]) \in Block /\ Head(M.pool[p][c]) \notin DOMAIN used
         /\ AllocInv(m2, Taken(used, Head(M.pool[p][c]), c, p))
<1> DEFINE b == Head(M.pool[p][c])
           new == Taken(used, b, c, p)
           Old(q, d, i) == IF q = p /\ d = c THEN i + 1 ELSE i
<1>1. /\ M \in AllocatorFields /\ UsesTyped(used)
      /\ InRoom(M, used) /\ UsedApart(used) /\ UsedPoolApart(M, used) /\ PoolApart(M)
      /\ LargeWhole(M, used) /\ UsedListed(M, used) /\ PoolListed(M) /\ ListsSound(M)
      /\ AreasKept(M, used) /\ Modes(M)
  BY DEF AllocInv
<1>2. /\ M.pool[p][c] \in Seq(Block) /\ 1 \in DOMAIN M.pool[p][c] /\ b = M.pool[p][c][1] /\ b \in Block
  BY <1>1, Fields
<1>3. ASSUME NEW q \in Memory, NEW d \in PooledCode
      PROVE  m2.pool[q][d] = IF q = p /\ d = c THEN Tail(M.pool[p][c]) ELSE M.pool[q][d]
  <2>1. M.pool \in [Memory -> [PooledCode -> Seq(Block)]]
    BY <1>1 DEF AllocatorFields
  <2> QED
    BY <2>1
\* A block in a pool was in that pool before, one place further on in the pool taken from.
<1>4. ASSUME NEW q \in Memory, NEW d \in PooledCode, NEW i \in DOMAIN m2.pool[q][d]
      PROVE  /\ Old(q, d, i) \in DOMAIN M.pool[q][d] /\ m2.pool[q][d][i] = M.pool[q][d][Old(q, d, i)]
             /\ q = p /\ d = c => Old(q, d, i) # 1
  <2>1. CASE q = p /\ d = c
    <3>1. m2.pool[q][d] = Tail(M.pool[p][c])
      BY <2>1, <1>3
    <3>2. i \in DOMAIN Tail(M.pool[p][c])
      BY <3>1
    <3>3. /\ i + 1 \in DOMAIN M.pool[p][c] /\ i + 1 # 1
          /\ Tail(M.pool[p][c])[i] = M.pool[p][c][i + 1]
      BY <1>2, <3>2, TailFacts
    <3> QED
      BY <2>1, <3>1, <3>3
  <2>2. CASE ~(q = p /\ d = c)
    BY <2>2, <1>3
  <2> QED
    BY <2>1, <2>2
\* A block in a pool is still there or is the one taken.
<1>5. ASSUME NEW q \in Memory, NEW d \in PooledCode, NEW i \in DOMAIN M.pool[q][d]
      PROVE  M.pool[q][d][i] = b \/ \E j \in DOMAIN m2.pool[q][d] : m2.pool[q][d][j] = M.pool[q][d][i]
  <2>1. CASE q = p /\ d = c
    <3>1. m2.pool[q][d] = Tail(M.pool[p][c])
      BY <2>1, <1>3
    <3>2. CASE i = 1
      BY <3>2, <2>1, <1>2
    <3>3. CASE i # 1
      <4>1. i \in DOMAIN M.pool[p][c]
        BY <2>1
      <4>2. i - 1 \in DOMAIN Tail(M.pool[p][c]) /\ Tail(M.pool[p][c])[i - 1] = M.pool[p][c][i]
        BY <1>2, <4>1, <3>3, TailFacts
      <4> QED
        BY <2>1, <3>1, <4>2
    <3> QED
      BY <3>2, <3>3
  <2>2. CASE ~(q = p /\ d = c)
    BY <2>2, <1>3
  <2> QED
    BY <2>1, <2>2
<1>6. \A x \in DOMAIN used : x \in Block /\ used[x].code \in Codes /\ Apart(x, used[x].code, b, c)
  BY <1>1, <1>2 DEF UsesTyped, UsedPoolApart
<1>7. c \in Codes
  BY DEF Codes
<1>8. b \notin DOMAIN used
  BY <1>2, <1>6, <1>7, ApartDiffer
<1> HIDE DEF b
<1>9. /\ DOMAIN new = DOMAIN used \cup {b} /\ new[b].code = c /\ new[b].mem = p
      /\ \A x \in DOMAIN used : x # b => new[x] = used[x]
  BY DEF Taken
<1> HIDE DEF new, Old
<1>10. \A x \in DOMAIN new : x # b => x \in DOMAIN used /\ new[x] = used[x]
  BY <1>9
<1>11. UsesTyped(new)
  BY <1>1, <1>2, <1>7, <1>9, <1>10 DEF UsesTyped
<1>12. InRoom(m2, new)
  <2>1. m2.pages = M.pages
    BY DEF SameButPools
  <2>2. \A q \in Memory, d \in PooledCode : \A i \in DOMAIN M.pool[q][d] : Room(m2, M.pool[q][d][i], d)
    BY <1>1, <2>1 DEF InRoom, Room
  <2>3. \A x \in DOMAIN used : Room(m2, x, used[x].code)
    BY <1>1, <2>1 DEF InRoom, Room
  <2>4. \A q \in Memory, d \in PooledCode : \A i \in DOMAIN m2.pool[q][d] : Room(m2, m2.pool[q][d][i], d)
    BY <1>4, <2>2
  <2>5. \A x \in DOMAIN new : Room(m2, x, new[x].code)
    BY <1>2, <1>9, <1>10, <2>2, <2>3
  <2> QED
    BY <2>4, <2>5 DEF InRoom
<1>13. UsedApart(new)
  <2> SUFFICES ASSUME NEW x \in DOMAIN new, NEW y \in DOMAIN new, x # y
               PROVE  Apart(x, new[x].code, y, new[y].code)
    BY DEF UsedApart
  <2>1. CASE x = b
    BY <2>1, <1>6, <1>9, <1>10, ApartSym
  <2>2. CASE y = b
    BY <2>2, <1>6, <1>9, <1>10
  <2>3. CASE x # b /\ y # b
    BY <2>3, <1>1, <1>10 DEF UsedApart
  <2> QED
    BY <2>1, <2>2, <2>3
<1>14. UsedPoolApart(m2, new)
  <2> SUFFICES ASSUME NEW x \in DOMAIN new, NEW q \in Memory, NEW d \in PooledCode, NEW i \in DOMAIN m2.pool[q][d]
               PROVE  Apart(x, new[x].code, m2.pool[q][d][i], d)
    BY DEF UsedPoolApart
  <2>1. CASE x = b
    <3>1. Apart(M.pool[p][c][1], c, M.pool[q][d][Old(q, d, i)], d)
      BY <1>1, <1>2, <1>4 DEF PoolApart
    <3> QED
      BY <2>1, <3>1, <1>2, <1>4, <1>9
  <2>2. CASE x # b
    BY <2>2, <1>1, <1>4, <1>10 DEF UsedPoolApart
  <2> QED
    BY <2>1, <2>2
<1>15. PoolApart(m2)
  <2> SUFFICES ASSUME NEW q \in Memory, NEW r \in Memory, NEW d \in PooledCode, NEW e \in PooledCode,
                      NEW i \in DOMAIN m2.pool[q][d], NEW j \in DOMAIN m2.pool[r][e], q # r \/ d # e \/ i # j
               PROVE  Apart(m2.pool[q][d][i], d, m2.pool[r][e][j], e)
    BY DEF PoolApart
  <2>1. q = r /\ d = e => Old(q, d, i) # Old(r, e, j)
    <3>1. i \in Nat /\ j \in Nat
      <4>1. /\ DOMAIN m2.pool[q][d] = 1 .. Len(m2.pool[q][d]) /\ Len(m2.pool[q][d]) \in Nat
            /\ DOMAIN m2.pool[r][e] = 1 .. Len(m2.pool[r][e]) /\ Len(m2.pool[r][e]) \in Nat
        BY <1>3
      <4> QED
        BY <4>1
    <3> QED
      BY <3>1 DEF Old
  <2>2. /\ Old(q, d, i) \in DOMAIN M.pool[q][d] /\ m2.pool[q][d][i] = M.pool[q][d][Old(q, d, i)]
        /\ Old(r, e, j) \in DOMAIN M.pool[r][e] /\ m2.pool[r][e][j] = M.pool[r][e][Old(r, e, j)]
    BY <1>4
  <2>3. Apart(M.pool[q][d][Old(q, d, i)], d, M.pool[r][e][Old(r, e, j)], e)
    BY <1>1, <2>1, <2>2 DEF PoolApart
  <2> QED
    BY <2>2, <2>3
<1>16. LargeWhole(m2, new)
  BY <1>1, <1>9, <1>10, Sizes DEF LargeWhole, SameButPools
<1>17. TryAreas(m2) = TryAreas(M) /\ m2.pooled_blocks = M.pooled_blocks /\ m2.large_blocks = M.large_blocks
  BY DEF TryAreas, SameButPools
<1>18. UsedListed(m2, new)
  <2>1. /\ p = "std" => b.area \notin TryAreas(M)
        /\ p = "try" => b.area \in M.pooled_blocks
    BY <1>1, <1>2 DEF PoolListed
  <2>2. c >= 0 /\ ~(c < 0)
    BY Sizes
  <2>3. ASSUME NEW x \in DOMAIN new, x = b
        PROVE  /\ new[x].mem = "std" => x.area \notin TryAreas(m2)
               /\ new[x].mem = "try" /\ new[x].code >= 0 => x.area \in m2.pooled_blocks
               /\ new[x].mem = "try" /\ new[x].code < 0 => x.area \in m2.large_blocks
    BY <2>1, <2>2, <2>3, <1>9, <1>17
  <2>4. ASSUME NEW x \in DOMAIN new, x # b
        PROVE  /\ new[x].mem = "std" => x.area \notin TryAreas(m2)
               /\ new[x].mem = "try" /\ new[x].code >= 0 => x.area \in m2.pooled_blocks
               /\ new[x].mem = "try" /\ new[x].code < 0 => x.area \in m2.large_blocks
    BY <2>4, <1>1, <1>10, <1>17 DEF UsedListed
  <2> QED
    BY <2>3, <2>4 DEF UsedListed
<1>19. PoolListed(m2)
  <2>1. "std" \in Memory /\ "try" \in Memory
    BY DEF Memory
  <2> QED
    BY <2>1, <1>1, <1>4, <1>17 DEF PoolListed
<1>20. ListsSound(m2)
  BY <1>1, <1>17 DEF ListsSound, SameButPools
<1>21. AreasKept(m2, new)
  <2> SUFFICES ASSUME NEW a \in Area, m2.pages[a] > 0 PROVE HasBlock(m2, new, a)
    BY DEF AreasKept
  <2>1. HasBlock(M, used, a)
    BY <1>1 DEF AreasKept, SameButPools
  <2>2. CASE \E x \in DOMAIN used : x.area = a
    BY <2>2, <1>9 DEF HasBlock
  <2>3. CASE \E q \in Memory, d \in PooledCode : \E i \in DOMAIN M.pool[q][d] : M.pool[q][d][i].area = a
    <3>1. PICK q \in Memory, d \in PooledCode : \E i \in DOMAIN M.pool[q][d] : M.pool[q][d][i].area = a
      BY <2>3
    <3>2. PICK i \in DOMAIN M.pool[q][d] : M.pool[q][d][i].area = a
      BY <3>1
    <3>3. M.pool[q][d][i] = b \/ \E j \in DOMAIN m2.pool[q][d] : m2.pool[q][d][j] = M.pool[q][d][i]
      BY <1>5
    <3>4. b.area = a \/ \E j \in DOMAIN m2.pool[q][d] : m2.pool[q][d][j].area = a
      BY <3>2, <3>3
    <3> QED
      BY <3>4, <1>9 DEF HasBlock
  <2> QED
    BY <2>1, <2>2, <2>3 DEF HasBlock
<1>22. Modes(m2)
  <2>1. m2.state = M.state /\ m2.curr_pool = M.curr_pool
    BY DEF SameButPools
  <2>2. ASSUME m2.state = "normal", NEW d \in PooledCode PROVE m2.pool["try"][d] = <<>>
    <3>1. p = "std" /\ "try" \in Memory
      BY <2>1, <2>2, <1>1 DEF Modes, Memory
    <3> QED
      BY <2>1, <2>2, <3>1, <1>1, <1>3 DEF Modes
  <2> QED
    BY <2>1, <2>2, <1>1, <1>17 DEF Modes
<1> QED
  BY <1>2, <1>8, <1>11, <1>12, <1>13, <1>14, <1>15, <1>16, <1>18, <1>19, <1>20, <1>21, <1>22 DEF AllocInv, new, b

\* Multiples of a number, for the provers.
LEMMA Multiples ==
  /\ \A i, n \in Nat : i > 0 => i * n >= n /\ i * n \in Nat
  /\ \A i, j, n \in Nat : i < j => i * n + n <= j * n
  /\ \A x \in Nat, n \in Nat \ {0} : (x \div n) \in Nat /\ (x \div n) * n <= x
<1>1. \A i, j, n \in Nat : i < j => i * n + n <= j * n
  <2> TAKE i, j, n \in Nat
  <2> HAVE i < j
  <2>1. j - i - 1 \in Nat /\ (j - i - 1) * n \in Nat /\ j * n = i * n + n + (j - i - 1) * n
    OBVIOUS
  <2>2. i * n \in Nat
    OBVIOUS
  <2> QED
    BY <2>1, <2>2
<1> QED
  BY <1>1

\* The blocks a chunk is cut into lie one after the other, after the first.
LEMMA CutFacts ==
  ASSUME NEW area \in Area, NEW c \in PooledCode
  PROVE  /\ Cut(area, c) \in Seq(Block)
         /\ \A i \in DOMAIN Cut(area, c) :
              /\ i \in Nat /\ i > 0 /\ Cut(area, c)[i].area = area
              /\ Cut(area, c)[i].at = i * size_code_size(c)
              /\ Cut(area, c)[i].at + size_code_size(c) <= PAGE * CHUNK
              /\ size_code_size(c) <= Cut(area, c)[i].at
         /\ \A i, j \in DOMAIN Cut(area, c) : i < j => Cut(area, c)[i].at + size_code_size(c) <= Cut(area, c)[j].at
<1> DEFINE size == size_code_size(c)
           total == PAGE * CHUNK
           n == (total \div size) - 1
           s == Cut(area, c)
<1>1. size \in Nat /\ size > 0 /\ size < PAGE
  BY Sizes DEF Codes
<1>2. total \in Nat /\ total >= PAGE
  <2>1. PAGE * 1 <= PAGE * CHUNK /\ PAGE * CHUNK \in Nat
    BY Constants, Products
  <2> QED
    BY <2>1, Constants
<1>3. s = [i \in 1 .. n |-> [area |-> area, at |-> i * size]]
  BY DEF Cut
<1> HIDE DEF size, total
<1>4. total \div size \in Nat /\ (total \div size) * size <= total
  BY <1>1, <1>2, Multiples
<1>5. n \in Int
  BY <1>4
<1>6. \A i \in 1 .. n : /\ i \in Nat /\ i > 0 /\ i * size \in Nat /\ i * size >= size
                        /\ i * size + size <= total
  <2> TAKE i \in 1 .. n
  <2>1. i \in Nat /\ i > 0 /\ i < total \div size
    BY <1>4
  <2>2. i * size + size <= (total \div size) * size /\ i * size \in Nat /\ i * size >= size
    BY <2>1, <1>1, <1>4, Multiples
  <2>3. (total \div size) * size \in Nat
    BY <1>1, <1>4, Products
  <2> QED
    BY <2>1, <2>2, <2>3, <1>1, <1>2, <1>4
<1> HIDE DEF n
<1>7. \A i \in 1 .. n : s[i].area = area /\ s[i].at = i * size /\ s[i] \in Block
  <2> TAKE i \in 1 .. n
  <2>1. s[i] = [area |-> area, at |-> i * size]
    BY <1>3
  <2>2. i * size \in 0 .. total - 1
    BY <1>1, <1>2, <1>6
  <2> QED
    BY <2>1, <2>2 DEF Block, total
<1>8. DOMAIN s = 1 .. n
  BY <1>3
<1>9. s \in Seq(Block)
  <2>1. CASE n >= 0
    <3>1. n \in Nat /\ s = [i \in 1 .. n |-> s[i]] /\ \A i \in 1 .. n : s[i] \in Block
      BY <2>1, <1>3, <1>5, <1>7
    <3> HIDE DEF s
    <3> QED
      BY <3>1
  <2>2. CASE n < 0
    <3>1. 1 .. n = 1 .. 0
      BY <2>2, <1>5
    <3>2. s = [i \in 1 .. 0 |-> s[i]] /\ 0 \in Nat
      BY <3>1, <1>3
    <3> HIDE DEF s
    <3> QED
      BY <3>2
  <2> QED
    BY <2>1, <2>2, <1>5
<1>10. \A i, j \in 1 .. n : i < j => i * size + size <= j * size
  BY <1>1, <1>6, Multiples
<1> HIDE DEF s
<1>11. \A i \in DOMAIN s : /\ i \in Nat /\ i > 0 /\ s[i].area = area /\ s[i].at = i * size
                          /\ s[i].at + size <= total /\ size <= s[i].at
  BY <1>6, <1>7, <1>8
<1>12. \A i, j \in DOMAIN s : i < j => s[i].at + size <= s[j].at
  BY <1>7, <1>8, <1>10
<1> QED
  BY <1>9, <1>11, <1>12 DEF s, size, total

\* A step that gives an area of malloc's to a memory leaves what is in the
\* other areas where it was.
LEMMA OtherAreas ==
  ASSUME NEW M, NEW used, AllocInv(M, used), NEW area \in Area, M.pages[area] = 0
  PROVE  /\ \A x \in DOMAIN used : x.area # area
         /\ \A p \in Memory, c \in PooledCode : \A i \in DOMAIN M.pool[p][c] : M.pool[p][c][i].area # area
         /\ area \notin TryAreas(M)
<1>1. M \in AllocatorFields /\ UsesTyped(used) /\ InRoom(M, used) /\ ListsSound(M)
  BY DEF AllocInv
<1>2. M.pages \in [Area -> Nat]
  BY <1>1, Fields
<1>3. ASSUME NEW x \in DOMAIN used PROVE x.area # area
  <2>1. x \in Block /\ used[x].code \in Codes /\ Room(M, x, used[x].code)
    BY <1>1 DEF UsesTyped, InRoom
  <2>2. M.pages[x.area] > 0
    BY <1>2, <2>1, NoRoom
  <2> QED
    BY <2>2
<1>4. ASSUME NEW p \in Memory, NEW c \in PooledCode, NEW i \in DOMAIN M.pool[p][c]
      PROVE  M.pool[p][c][i].area # area
  <2>1. M.pool[p][c][i] \in Block /\ c \in Codes /\ Room(M, M.pool[p][c][i], c)
    BY <1>1, Fields DEF InRoom, Codes
  <2>2. M.pages[M.pool[p][c][i].area] > 0
    BY <1>2, <2>1, NoRoom
  <2> QED
    BY <2>2
<1>5. area \notin TryAreas(M)
  BY <1>1 DEF ListsSound
<1> QED
  BY <1>3, <1>4, <1>5

\* What asking for a chunk changes.
ChunkTaken(M, m2, p, c, area) ==
  /\ m2.state = M.state /\ m2.curr_pool = M.curr_pool
  /\ m2.pages = [M.pages EXCEPT ![area] = CHUNK]
  /\ m2.pool = [M.pool EXCEPT ![p][c] = Cut(area, c)]
  /\ m2.pooled_blocks = (IF M.state = "try" THEN M.pooled_blocks \cup {area} ELSE M.pooled_blocks)
  /\ m2.large_blocks = M.large_blocks

\* A chunk is asked for: its first block is in use, the others are in the pool.
LEMMA ChunkKeeps ==
  ASSUME NEW M, NEW used, AllocInv(M, used), NEW c \in PooledCode, NEW p \in Memory, p = M.curr_pool,
         M.pool[p][c] = <<>>, NEW area \in Area, M.pages[area] = 0,
         NEW m2 \in AllocatorFields, ChunkTaken(M, m2, p, c, area),
         NEW b, b = [area |-> area, at |-> 0]
  PROVE  /\ b \in Block /\ b \notin DOMAIN used
         /\ AllocInv(m2, Taken(used, b, c, p))
<1> DEFINE new == Taken(used, b, c, p)
           size == size_code_size(c)
           s == Cut(area, c)
<1> USE DEF ChunkTaken
<1>1. /\ M \in AllocatorFields /\ UsesTyped(used)
      /\ InRoom(M, used) /\ UsedApart(used) /\ UsedPoolApart(M, used) /\ PoolApart(M)
      /\ LargeWhole(M, used) /\ UsedListed(M, used) /\ PoolListed(M) /\ ListsSound(M)
      /\ AreasKept(M, used) /\ Modes(M)
  BY DEF AllocInv
<1>2. c \in Codes /\ size \in Nat /\ size > 0 /\ size < PAGE /\ c >= 0 /\ ~(c < 0)
  BY Sizes DEF Codes
<1>3. PAGE * CHUNK \in Nat /\ PAGE <= PAGE * CHUNK
  <2>1. PAGE * 1 <= PAGE * CHUNK /\ PAGE * CHUNK \in Nat
    BY Constants, Products
  <2> QED
    BY <2>1, Constants
<1>4. b \in Block /\ b.area = area /\ b.at = 0
  <2>1. 0 \in 0 .. PAGE * CHUNK - 1
    BY <1>3, Constants
  <2> QED
    BY <2>1 DEF Block
\* Nothing was in the area before.
<1>5. /\ \A x \in DOMAIN used : x.area # area
      /\ \A q \in Memory, d \in PooledCode : \A i \in DOMAIN M.pool[q][d] : M.pool[q][d][i].area # area
      /\ area \notin TryAreas(M)
  BY OtherAreas
<1>6. b \notin DOMAIN used
  BY <1>4, <1>5
<1>7. /\ DOMAIN new = DOMAIN used \cup {b} /\ new[b].code = c /\ new[b].mem = p
      /\ \A x \in DOMAIN new : x # b => x \in DOMAIN used /\ new[x] = used[x]
      /\ \A x \in DOMAIN used : x # b => new[x] = used[x]
  BY DEF Taken
<1>8. /\ s \in Seq(Block)
      /\ \A i \in DOMAIN s : /\ i \in Nat /\ i > 0 /\ s[i].area = area /\ s[i].at + size <= PAGE * CHUNK /\ size <= s[i].at
      /\ \A i, j \in DOMAIN s : i < j => s[i].at + size <= s[j].at
  BY CutFacts
<1>9. ASSUME NEW q \in Memory, NEW d \in PooledCode
      PROVE  /\ q = p /\ d = c => m2.pool[q][d] = s
             /\ q # p \/ d # c => m2.pool[q][d] = M.pool[q][d]
  <2>1. M.pool \in [Memory -> [PooledCode -> Seq(Block)]]
    BY <1>1 DEF AllocatorFields
  <2> QED
    BY <2>1
<1>10. /\ m2.pages[area] = CHUNK
       /\ \A a \in Area : a # area => m2.pages[a] = M.pages[a]
  BY <1>1 DEF AllocatorFields
<1>11. \A x \in Block : x.area \in Area
  BY DEF Block
<1> HIDE DEF new, size, s
\* Every block of a pool is of the chunk or was there.
<1>12. ASSUME NEW q \in Memory, NEW d \in PooledCode, NEW i \in DOMAIN m2.pool[q][d]
       PROVE  \/ q = p /\ d = c /\ i \in DOMAIN s /\ m2.pool[q][d][i] = s[i] /\ m2.pool[q][d][i].area = area
              \/ (q # p \/ d # c) /\ i \in DOMAIN M.pool[q][d] /\ m2.pool[q][d][i] = M.pool[q][d][i]
                                  /\ m2.pool[q][d][i].area # area
  BY <1>5, <1>8, <1>9
<1>13. UsesTyped(new)
  BY <1>1, <1>2, <1>4, <1>7 DEF UsesTyped
<1>14. InRoom(m2, new)
  <2>1. ASSUME NEW x \in DOMAIN new PROVE Room(m2, x, new[x].code)
    <3>1. CASE x = b
      <4>1. b.at + size_code_size(c) <= PAGE * m2.pages[area]
        BY <1>2, <1>3, <1>4, <1>10, Constants DEF size
      <4> QED
        BY <3>1, <4>1, <1>4, <1>7 DEF Room
    <3>2. CASE x # b
      BY <3>2, <1>1, <1>5, <1>7, <1>10, <1>11 DEF InRoom, Room, UsesTyped
    <3> QED
      BY <3>1, <3>2
  <2>2. ASSUME NEW q \in Memory, NEW d \in PooledCode, NEW i \in DOMAIN m2.pool[q][d]
        PROVE  Room(m2, m2.pool[q][d][i], d)
    <3>1. CASE q = p /\ d = c
      BY <3>1, <1>8, <1>10, <1>12 DEF Room, size
    <3>2. CASE q # p \/ d # c
      <4>1. M.pool[q][d][i] \in Block /\ i \in DOMAIN M.pool[q][d] /\ Room(M, M.pool[q][d][i], d)
        BY <3>2, <1>1, <1>12, Fields DEF InRoom
      <4>2. m2.pool[q][d][i] = M.pool[q][d][i] /\ M.pool[q][d][i].area # area
        BY <3>2, <1>12
      <4>3. m2.pages[M.pool[q][d][i].area] = M.pages[M.pool[q][d][i].area]
        BY <4>1, <4>2, <1>10, <1>11
      <4> QED
        BY <4>1, <4>2, <4>3 DEF Room
    <3> QED
      BY <3>1, <3>2
  <2> QED
    BY <2>1, <2>2 DEF InRoom
<1>15. UsedApart(new)
  <2> SUFFICES ASSUME NEW x \in DOMAIN new, NEW y \in DOMAIN new, x # y
               PROVE  Apart(x, new[x].code, y, new[y].code)
    BY DEF UsedApart
  <2>1. CASE x = b
    BY <2>1, <1>4, <1>5, <1>7 DEF Apart
  <2>2. CASE y = b
    BY <2>2, <1>4, <1>5, <1>7 DEF Apart
  <2>3. CASE x # b /\ y # b
    BY <2>3, <1>1, <1>7 DEF UsedApart
  <2> QED
    BY <2>1, <2>2, <2>3
<1>16. UsedPoolApart(m2, new)
  <2> SUFFICES ASSUME NEW x \in DOMAIN new, NEW q \in Memory, NEW d \in PooledCode, NEW i \in DOMAIN m2.pool[q][d]
               PROVE  Apart(x, new[x].code, m2.pool[q][d][i], d)
    BY DEF UsedPoolApart
  <2>1. CASE x = b /\ q = p /\ d = c
    <3>1. m2.pool[q][d][i] = s[i] /\ i \in DOMAIN s /\ size <= s[i].at
      BY <2>1, <1>8, <1>12
    <3>2. b.at + size <= s[i].at
      BY <3>1, <1>2, <1>4
    <3> QED
      BY <2>1, <3>1, <3>2, <1>7 DEF Apart, size
  <2>2. CASE x = b /\ (q # p \/ d # c)
    BY <2>2, <1>4, <1>12 DEF Apart
  <2>3. CASE x # b /\ q = p /\ d = c
    BY <2>3, <1>5, <1>7, <1>12 DEF Apart
  <2>4. CASE x # b /\ (q # p \/ d # c)
    BY <2>4, <1>1, <1>7, <1>12 DEF UsedPoolApart
  <2> QED
    BY <2>1, <2>2, <2>3, <2>4
<1>17. PoolApart(m2)
  <2> SUFFICES ASSUME NEW q \in Memory, NEW r \in Memory, NEW d \in PooledCode, NEW e \in PooledCode,
                      NEW i \in DOMAIN m2.pool[q][d], NEW j \in DOMAIN m2.pool[r][e], q # r \/ d # e \/ i # j
               PROVE  Apart(m2.pool[q][d][i], d, m2.pool[r][e][j], e)
    BY DEF PoolApart
  <2>1. CASE q = p /\ d = c /\ r = p /\ e = c
    <3>1. i \in DOMAIN s /\ j \in DOMAIN s /\ i # j /\ m2.pool[q][d][i] = s[i] /\ m2.pool[r][e][j] = s[j]
      BY <2>1, <1>12
    <3>2. i < j \/ j < i
      BY <3>1, <1>8
    <3> QED
      BY <2>1, <3>1, <3>2, <1>8 DEF Apart, size
  <2>2. CASE q = p /\ d = c /\ (r # p \/ e # c)
    <3>1. m2.pool[q][d][i].area = area /\ m2.pool[r][e][j].area # area
      BY <2>2, <1>12
    <3> QED
      BY <3>1 DEF Apart
  <2>3. CASE (q # p \/ d # c) /\ r = p /\ e = c
    <3>1. m2.pool[q][d][i].area # area /\ m2.pool[r][e][j].area = area
      BY <2>3, <1>12
    <3> QED
      BY <3>1 DEF Apart
  <2>4. CASE (q # p \/ d # c) /\ (r # p \/ e # c)
    <3>1. /\ i \in DOMAIN M.pool[q][d] /\ m2.pool[q][d][i] = M.pool[q][d][i]
          /\ j \in DOMAIN M.pool[r][e] /\ m2.pool[r][e][j] = M.pool[r][e][j]
      BY <2>4, <1>12
    <3> QED
      BY <3>1, <1>1 DEF PoolApart
  <2> QED
    BY <2>1, <2>2, <2>3, <2>4
<1>18. LargeWhole(m2, new)
  <2>1. ASSUME NEW x \in DOMAIN new, new[x].code < 0 PROVE x.at = 0 /\ m2.pages[x.area] = -new[x].code
    <3>1. x # b
      BY <2>1, <1>2, <1>7
    <3>2. x \in DOMAIN used /\ new[x] = used[x] /\ x.area # area /\ x.area \in Area
      BY <3>1, <1>1, <1>5, <1>7, <1>11 DEF UsesTyped
    <3> QED
      BY <2>1, <3>2, <1>1, <1>10 DEF LargeWhole
  <2> QED
    BY <2>1 DEF LargeWhole
<1>19. /\ TryAreas(M) \subseteq TryAreas(m2)
       /\ M.pooled_blocks \subseteq m2.pooled_blocks
       /\ \A a \in TryAreas(m2) : a # area => a \in TryAreas(M)
       /\ p = "try" => area \in m2.pooled_blocks
       /\ p = "std" => area \notin TryAreas(m2)
  BY <1>1, <1>5 DEF TryAreas, Modes
<1>20. UsedListed(m2, new)
  <2>1. ASSUME NEW x \in DOMAIN new, x = b
        PROVE  /\ new[x].mem = "std" => x.area \notin TryAreas(m2)
               /\ new[x].mem = "try" /\ new[x].code >= 0 => x.area \in m2.pooled_blocks
               /\ new[x].mem = "try" /\ new[x].code < 0 => x.area \in m2.large_blocks
    BY <2>1, <1>2, <1>4, <1>7, <1>19
  <2>2. ASSUME NEW x \in DOMAIN new, x # b
        PROVE  /\ new[x].mem = "std" => x.area \notin TryAreas(m2)
               /\ new[x].mem = "try" /\ new[x].code >= 0 => x.area \in m2.pooled_blocks
               /\ new[x].mem = "try" /\ new[x].code < 0 => x.area \in m2.large_blocks
    BY <2>2, <1>1, <1>5, <1>7, <1>19 DEF UsedListed
  <2> QED
    BY <2>1, <2>2 DEF UsedListed
<1>21. PoolListed(m2)
  <2>0. "std" \in Memory /\ "try" \in Memory
    BY DEF Memory
  <2>1. ASSUME NEW d \in PooledCode, NEW i \in DOMAIN m2.pool["std"][d]
        PROVE  m2.pool["std"][d][i].area \notin TryAreas(m2)
    <3>1. CASE "std" = p /\ d = c
      BY <2>0, <3>1, <1>12, <1>19
    <3>2. CASE "std" # p \/ d # c
      BY <2>0, <3>2, <1>1, <1>12, <1>19 DEF PoolListed
    <3> QED
      BY <3>1, <3>2
  <2>2. ASSUME NEW d \in PooledCode, NEW i \in DOMAIN m2.pool["try"][d]
        PROVE  m2.pool["try"][d][i].area \in m2.pooled_blocks
    <3>1. CASE "try" = p /\ d = c
      BY <2>0, <3>1, <1>12, <1>19
    <3>2. CASE "try" # p \/ d # c
      BY <2>0, <3>2, <1>1, <1>12, <1>19 DEF PoolListed
    <3> QED
      BY <3>1, <3>2
  <2> QED
    BY <2>1, <2>2 DEF PoolListed
<1>22. ListsSound(m2)
  <2>1. m2.pooled_blocks \cap m2.large_blocks = {}
    BY <1>1, <1>5 DEF ListsSound, TryAreas
  <2>2. \A a \in TryAreas(M) : a \in Area /\ M.pages[a] > 0
    BY <1>1, Fields DEF ListsSound, TryAreas
  <2>3. \A a \in TryAreas(m2) : m2.pages[a] > 0
    BY <2>2, <1>10, <1>19, Constants
  <2> QED
    BY <2>1, <2>3 DEF ListsSound
<1>23. AreasKept(m2, new)
  <2> SUFFICES ASSUME NEW a \in Area, m2.pages[a] > 0 PROVE HasBlock(m2, new, a)
    BY DEF AreasKept
  <2>1. CASE a = area
    BY <2>1, <1>4, <1>7 DEF HasBlock
  <2>2. CASE a # area
    <3>1. HasBlock(M, used, a)
      BY <2>2, <1>1, <1>10 DEF AreasKept
    <3>2. CASE \E x \in DOMAIN used : x.area = a
      BY <3>2, <1>7 DEF HasBlock
    <3>3. CASE \E q \in Memory, d \in PooledCode : \E i \in DOMAIN M.pool[q][d] : M.pool[q][d][i].area = a
      <4>1. PICK q \in Memory, d \in PooledCode : \E i \in DOMAIN M.pool[q][d] : M.pool[q][d][i].area = a
        BY <3>3
      <4>2. q # p \/ d # c
        BY <4>1
      <4>3. m2.pool[q][d] = M.pool[q][d]
        BY <4>2, <1>9
      <4> QED
        BY <4>1, <4>3 DEF HasBlock
    <3> QED
      BY <3>1, <3>2, <3>3 DEF HasBlock
  <2> QED
    BY <2>1, <2>2
<1>24. Modes(m2)
  <2>1. ASSUME m2.state = "normal"
        PROVE  TryAreas(m2) = {} /\ \A d \in PooledCode : m2.pool["try"][d] = <<>>
    <3>1. p = "std" /\ "try" \in Memory /\ M.state = "normal" /\ M.state # "try"
      BY <2>1, <1>1 DEF Modes, Memory
    <3>2. TryAreas(m2) = TryAreas(M)
      BY <3>1 DEF TryAreas
    <3>3. \A d \in PooledCode : m2.pool["try"][d] = M.pool["try"][d]
      BY <3>1, <1>9
    <3> QED
      BY <3>1, <3>2, <3>3, <1>1 DEF Modes
  <2> QED
    BY <2>1, <1>1 DEF Modes
<1> QED
  BY <1>4, <1>6, <1>13, <1>14, <1>15, <1>16, <1>17, <1>18, <1>20, <1>21, <1>22, <1>23, <1>24 DEF AllocInv, new

\* A large block is asked for: it is the whole of an area.
LEMMA LargeKeeps ==
  ASSUME NEW M, NEW used, AllocInv(M, used), NEW c \in LargeCode, NEW p \in Memory, p = M.curr_pool,
         NEW area \in Area, M.pages[area] = 0,
         NEW m2 \in AllocatorFields, m2.state = M.state, m2.curr_pool = M.curr_pool,
         m2.pages = [M.pages EXCEPT ![area] = -c], m2.pool = M.pool,
         m2.pooled_blocks = M.pooled_blocks,
         m2.large_blocks = (IF M.state = "try" THEN M.large_blocks \cup {area} ELSE M.large_blocks),
         NEW b, b = [area |-> area, at |-> 0]
  PROVE  /\ b \in Block /\ b \notin DOMAIN used
         /\ AllocInv(m2, Taken(used, b, c, p))
<1> DEFINE new == Taken(used, b, c, p)
<1>1. /\ M \in AllocatorFields /\ UsesTyped(used)
      /\ InRoom(M, used) /\ UsedApart(used) /\ UsedPoolApart(M, used) /\ PoolApart(M)
      /\ LargeWhole(M, used) /\ UsedListed(M, used) /\ PoolListed(M) /\ ListsSound(M)
      /\ AreasKept(M, used) /\ Modes(M)
  BY DEF AllocInv
<1>2. c \in Codes /\ c < 0 /\ ~(c >= 0) /\ -c > 0 /\ size_code_size(c) = PAGE * (-c) /\ PAGE * (-c) \in Nat
  <2>1. c < 0 /\ c \in Int /\ -c \in Nat /\ -c > 0
    BY LargeCodes
  <2>2. PAGE * (-c) \in Nat
    BY <2>1, Constants, Products
  <2>3. c \in Codes /\ size_code_size(c) = PAGE * (-c)
    BY Sizes DEF Codes
  <2> QED
    BY <2>1, <2>2, <2>3
<1>3. b \in Block /\ b.area = area /\ b.at = 0
  <2>1. PAGE * CHUNK \in Nat /\ PAGE * CHUNK > 0
    BY Constants, Products
  <2>2. 0 \in 0 .. PAGE * CHUNK - 1
    BY <2>1
  <2> QED
    BY <2>2 DEF Block
<1>4. /\ \A x \in DOMAIN used : x.area # area
      /\ \A q \in Memory, d \in PooledCode : \A i \in DOMAIN M.pool[q][d] : M.pool[q][d][i].area # area
      /\ area \notin TryAreas(M)
  BY OtherAreas
<1>5. b \notin DOMAIN used
  BY <1>3, <1>4
<1>6. /\ DOMAIN new = DOMAIN used \cup {b} /\ new[b].code = c /\ new[b].mem = p
      /\ \A x \in DOMAIN new : x # b => x \in DOMAIN used /\ new[x] = used[x]
      /\ \A x \in DOMAIN used : x # b => new[x] = used[x]
  BY DEF Taken
<1>7. /\ m2.pages[area] = -c
      /\ \A a \in Area : a # area => m2.pages[a] = M.pages[a]
  BY <1>1 DEF AllocatorFields
<1>8. \A x \in Block : x.area \in Area
  BY DEF Block
<1> HIDE DEF new
<1>9. UsesTyped(new)
  BY <1>1, <1>2, <1>3, <1>6 DEF UsesTyped
<1>10. \A x \in DOMAIN used : x \in Block /\ x.area \in Area /\ m2.pages[x.area] = M.pages[x.area]
  BY <1>1, <1>4, <1>7, <1>8 DEF UsesTyped
<1>11. InRoom(m2, new)
  <2>1. ASSUME NEW x \in DOMAIN new PROVE Room(m2, x, new[x].code)
    <3>1. CASE x = b
      <4>1. b.at + size_code_size(c) <= PAGE * m2.pages[b.area]
        BY <1>2, <1>3, <1>7
      <4> QED
        BY <3>1, <4>1, <1>6 DEF Room
    <3>2. CASE x # b
      BY <3>2, <1>1, <1>6, <1>10 DEF InRoom, Room
    <3> QED
      BY <3>1, <3>2
  <2>2. ASSUME NEW q \in Memory, NEW d \in PooledCode, NEW i \in DOMAIN m2.pool[q][d]
        PROVE  Room(m2, m2.pool[q][d][i], d)
    <3>1. M.pool[q][d][i] \in Block /\ i \in DOMAIN M.pool[q][d] /\ Room(M, M.pool[q][d][i], d)
      BY <1>1, Fields DEF InRoom
    <3>2. M.pool[q][d][i].area # area /\ M.pool[q][d][i].area \in Area
      BY <3>1, <1>4, <1>8
    <3> QED
      BY <3>1, <3>2, <1>7 DEF Room
  <2> QED
    BY <2>1, <2>2 DEF InRoom
<1>12. UsedApart(new)
  <2> SUFFICES ASSUME NEW x \in DOMAIN new, NEW y \in DOMAIN new, x # y
               PROVE  Apart(x, new[x].code, y, new[y].code)
    BY DEF UsedApart
  <2>1. CASE x = b
    BY <2>1, <1>3, <1>4, <1>6 DEF Apart
  <2>2. CASE y = b
    BY <2>2, <1>3, <1>4, <1>6 DEF Apart
  <2>3. CASE x # b /\ y # b
    BY <2>3, <1>1, <1>6 DEF UsedApart
  <2> QED
    BY <2>1, <2>2, <2>3
<1>13. UsedPoolApart(m2, new)
  <2> SUFFICES ASSUME NEW x \in DOMAIN new, NEW q \in Memory, NEW d \in PooledCode, NEW i \in DOMAIN m2.pool[q][d]
               PROVE  Apart(x, new[x].code, m2.pool[q][d][i], d)
    BY DEF UsedPoolApart
  <2>1. CASE x = b
    BY <2>1, <1>3, <1>4 DEF Apart
  <2>2. CASE x # b
    BY <2>2, <1>1, <1>6 DEF UsedPoolApart
  <2> QED
    BY <2>1, <2>2
<1>14. PoolApart(m2)
  BY <1>1 DEF PoolApart
<1>15. LargeWhole(m2, new)
  <2>1. ASSUME NEW x \in DOMAIN new, new[x].code < 0 PROVE x.at = 0 /\ m2.pages[x.area] = -new[x].code
    <3>1. CASE x = b
      BY <3>1, <1>3, <1>6, <1>7
    <3>2. CASE x # b
      BY <2>1, <3>2, <1>1, <1>6, <1>10 DEF LargeWhole
    <3> QED
      BY <3>1, <3>2
  <2> QED
    BY <2>1 DEF LargeWhole
<1>16. /\ TryAreas(M) \subseteq TryAreas(m2)
       /\ M.large_blocks \subseteq m2.large_blocks
       /\ \A a \in TryAreas(m2) : a # area => a \in TryAreas(M)
       /\ p = "try" => area \in m2.large_blocks
       /\ p = "std" => area \notin TryAreas(m2)
  BY <1>1, <1>4 DEF TryAreas, Modes
<1>17. UsedListed(m2, new)
  <2>1. ASSUME NEW x \in DOMAIN new, x = b
        PROVE  /\ new[x].mem = "std" => x.area \notin TryAreas(m2)
               /\ new[x].mem = "try" /\ new[x].code >= 0 => x.area \in m2.pooled_blocks
               /\ new[x].mem = "try" /\ new[x].code < 0 => x.area \in m2.large_blocks
    BY <2>1, <1>2, <1>3, <1>6, <1>16
  <2>2. ASSUME NEW x \in DOMAIN new, x # b
        PROVE  /\ new[x].mem = "std" => x.area \notin TryAreas(m2)
               /\ new[x].mem = "try" /\ new[x].code >= 0 => x.area \in m2.pooled_blocks
               /\ new[x].mem = "try" /\ new[x].code < 0 => x.area \in m2.large_blocks
    BY <2>2, <1>1, <1>4, <1>6, <1>16 DEF UsedListed
  <2> QED
    BY <2>1, <2>2 DEF UsedListed
<1>18. PoolListed(m2)
  <2>0. "std" \in Memory /\ "try" \in Memory
    BY DEF Memory
  <2> QED
    BY <2>0, <1>1, <1>4, <1>16 DEF PoolListed
<1>19. ListsSound(m2)
  <2>1. m2.pooled_blocks \cap m2.large_blocks = {}
    BY <1>1, <1>4 DEF ListsSound, TryAreas
  <2>2. \A a \in TryAreas(M) : a \in Area /\ M.pages[a] > 0
    BY <1>1, Fields DEF ListsSound, TryAreas
  <2>3. \A a \in TryAreas(m2) : m2.pages[a] > 0
    BY <2>2, <1>2, <1>7, <1>16
  <2> QED
    BY <2>1, <2>3 DEF ListsSound
<1>20. AreasKept(m2, new)
  <2> SUFFICES ASSUME NEW a \in Area, m2.pages[a] > 0 PROVE HasBlock(m2, new, a)
    BY DEF AreasKept
  <2>1. CASE a = area
    BY <2>1, <1>3, <1>6 DEF HasBlock
  <2>2. CASE a # area
    <3>1. HasBlock(M, used, a)
      BY <2>2, <1>1, <1>7 DEF AreasKept
    <3> QED
      BY <3>1, <1>6 DEF HasBlock
  <2> QED
    BY <2>1, <2>2
<1>21. Modes(m2)
  <2>1. ASSUME m2.state = "normal" PROVE TryAreas(m2) = {}
    BY <2>1, <1>1 DEF Modes, TryAreas
  <2> QED
    BY <2>1, <1>1 DEF Modes
<1> QED
  BY <1>3, <1>5, <1>9, <1>11, <1>12, <1>13, <1>14, <1>15, <1>17, <1>18, <1>19, <1>20, <1>21 DEF AllocInv, new

-----------------------------------------------------------------------------
(***************************************************************************)
(* Giving a block back.                                                    *)
(***************************************************************************)

\* A block that is given back to the pool it is from becomes its first.
LEMMA PushKeeps ==
  ASSUME NEW M, NEW used, AllocInv(M, used), NEW c \in PooledCode, NEW p \in Memory, p = M.curr_pool,
         NEW b \in DOMAIN used, used[b].code = c, used[b].mem = p,
         NEW m2 \in AllocatorFields, SameButPools(M, m2), m2.pool = [M.pool EXCEPT ![p][c] = <<b>> \o @]
  PROVE  AllocInv(m2, Without(used, b))
<1> DEFINE new == Without(used, b)
           Old(i) == i - 1
<1>1. /\ M \in AllocatorFields /\ UsesTyped(used)
      /\ InRoom(M, used) /\ UsedApart(used) /\ UsedPoolApart(M, used) /\ PoolApart(M)
      /\ LargeWhole(M, used) /\ UsedListed(M, used) /\ PoolListed(M) /\ ListsSound(M)
      /\ AreasKept(M, used) /\ Modes(M)
  BY DEF AllocInv
<1>2. c \in Codes /\ c >= 0 /\ ~(c < 0) /\ b \in Block
  BY <1>1, Sizes DEF Codes, UsesTyped
<1>3. /\ DOMAIN new \subseteq DOMAIN used /\ b \notin DOMAIN new
      /\ \A x \in DOMAIN new : new[x] = used[x] /\ x # b
      /\ \A x \in DOMAIN used : x # b => x \in DOMAIN new
  BY DEF Without
<1>4. ASSUME NEW q \in Memory, NEW d \in PooledCode
      PROVE  m2.pool[q][d] = IF q = p /\ d = c THEN <<b>> \o M.pool[p][c] ELSE M.pool[q][d]
  <2>1. M.pool \in [Memory -> [PooledCode -> Seq(Block)]]
    BY <1>1 DEF AllocatorFields
  <2> QED
    BY <2>1
<1>5. M.pool[p][c] \in Seq(Block)
  BY <1>1, Fields
\* A block of a pool is the one given back or was in the pool, one place before.
<1>6. ASSUME NEW q \in Memory, NEW d \in PooledCode, NEW i \in DOMAIN m2.pool[q][d]
      PROVE  \/ q = p /\ d = c /\ i = 1 /\ m2.pool[q][d][i] = b
             \/ q = p /\ d = c /\ i # 1 /\ i \in Nat /\ Old(i) \in DOMAIN M.pool[q][d] /\ m2.pool[q][d][i] = M.pool[q][d][Old(i)]
             \/ (q # p \/ d # c) /\ i \in DOMAIN M.pool[q][d] /\ m2.pool[q][d][i] = M.pool[q][d][i]
  <2>1. CASE q = p /\ d = c
    <3>1. m2.pool[q][d] = <<b>> \o M.pool[p][c]
      BY <2>1, <1>4
    <3>2. CASE i = 1
      BY <2>1, <3>1, <3>2, <1>2, <1>5, ConsFacts
    <3>3. CASE i # 1
      <4>1. i \in Nat /\ i - 1 \in DOMAIN M.pool[p][c] /\ (<<b>> \o M.pool[p][c])[i] = M.pool[p][c][i - 1]
        BY <3>1, <3>3, <1>2, <1>5, ConsFacts
      <4> QED
        BY <2>1, <3>1, <3>3, <4>1
    <3> QED
      BY <3>2, <3>3
  <2>2. CASE q # p \/ d # c
    BY <2>2, <1>4
  <2> QED
    BY <2>1, <2>2
\* What was in a pool still is, and so is the block.
<1>7. ASSUME NEW q \in Memory, NEW d \in PooledCode, NEW i \in DOMAIN M.pool[q][d]
      PROVE  \E j \in DOMAIN m2.pool[q][d] : m2.pool[q][d][j] = M.pool[q][d][i]
  <2>1. CASE q = p /\ d = c
    <3>1. m2.pool[q][d] = <<b>> \o M.pool[p][c]
      BY <2>1, <1>4
    <3>2. i + 1 \in DOMAIN (<<b>> \o M.pool[p][c]) /\ (<<b>> \o M.pool[p][c])[i + 1] = M.pool[p][c][i]
      BY <2>1, <1>2, <1>5, ConsFacts
    <3> QED
      BY <2>1, <3>1, <3>2
  <2>2. CASE q # p \/ d # c
    BY <2>2, <1>4
  <2> QED
    BY <2>1, <2>2
<1>8. 1 \in DOMAIN m2.pool[p][c] /\ m2.pool[p][c][1] = b
  <2>1. m2.pool[p][c] = <<b>> \o M.pool[p][c]
    BY <1>4
  <2> QED
    BY <2>1, <1>2, <1>5, ConsFacts
<1>9. /\ Room(M, b, c)
      /\ \A x \in DOMAIN used : x # b => Apart(x, used[x].code, b, c)
      /\ \A q \in Memory, d \in PooledCode : \A i \in DOMAIN M.pool[q][d] : Apart(b, c, M.pool[q][d][i], d)
  BY <1>1 DEF InRoom, UsedApart, UsedPoolApart
<1> HIDE DEF new, Old
<1>10. UsesTyped(new)
  BY <1>1, <1>3 DEF UsesTyped
<1>11. m2.pages = M.pages
  BY DEF SameButPools
<1>12. InRoom(m2, new)
  <2>1. \A x \in DOMAIN new : Room(m2, x, new[x].code)
    BY <1>1, <1>3, <1>11 DEF InRoom, Room
  <2>2. Room(m2, b, c) /\ \A q \in Memory, d \in PooledCode : \A i \in DOMAIN M.pool[q][d] : Room(m2, M.pool[q][d][i], d)
    BY <1>1, <1>9, <1>11 DEF InRoom, Room
  <2>3. ASSUME NEW q \in Memory, NEW d \in PooledCode, NEW i \in DOMAIN m2.pool[q][d]
        PROVE  Room(m2, m2.pool[q][d][i], d)
    BY <2>2, <1>6
  <2> QED
    BY <2>1, <2>3 DEF InRoom
<1>13. UsedApart(new)
  BY <1>1, <1>3 DEF UsedApart
<1>14. UsedPoolApart(m2, new)
  <2> SUFFICES ASSUME NEW x \in DOMAIN new, NEW q \in Memory, NEW d \in PooledCode, NEW i \in DOMAIN m2.pool[q][d]
               PROVE  Apart(x, new[x].code, m2.pool[q][d][i], d)
    BY DEF UsedPoolApart
  <2>1. x \in DOMAIN used /\ x # b /\ new[x] = used[x]
    BY <1>3
  <2>2. \A j \in DOMAIN M.pool[q][d] : Apart(x, used[x].code, M.pool[q][d][j], d)
    BY <1>1, <2>1 DEF UsedPoolApart
  <2> QED
    BY <2>1, <2>2, <1>6, <1>9
<1>15. PoolApart(m2)
  <2> SUFFICES ASSUME NEW q \in Memory, NEW r \in Memory, NEW d \in PooledCode, NEW e \in PooledCode,
                      NEW i \in DOMAIN m2.pool[q][d], NEW j \in DOMAIN m2.pool[r][e], q # r \/ d # e \/ i # j
               PROVE  Apart(m2.pool[q][d][i], d, m2.pool[r][e][j], e)
    BY DEF PoolApart
  <2>1. CASE q = p /\ d = c /\ i = 1
    <3>1. m2.pool[q][d][i] = b
      BY <2>1, <1>8
    <3>2. \E k \in DOMAIN M.pool[r][e] : m2.pool[r][e][j] = M.pool[r][e][k]
      BY <2>1, <1>6
    <3> QED
      BY <2>1, <3>1, <3>2, <1>9
  <2>2. CASE r = p /\ e = c /\ j = 1
    <3>1. m2.pool[r][e][j] = b
      BY <2>2, <1>8
    <3>2. \E k \in DOMAIN M.pool[q][d] : m2.pool[q][d][i] = M.pool[q][d][k]
      BY <2>2, <1>6
    <3>3. Apart(m2.pool[r][e][j], e, m2.pool[q][d][i], d)
      BY <2>2, <3>1, <3>2, <1>9
    <3> QED
      BY <3>3, ApartSym
  <2>3. CASE ~(q = p /\ d = c /\ i = 1) /\ ~(r = p /\ e = c /\ j = 1)
    <3>1. PICK k \in DOMAIN M.pool[q][d] : /\ m2.pool[q][d][i] = M.pool[q][d][k]
                                           /\ q = p /\ d = c => k = Old(i) /\ i \in Nat
                                           /\ q # p \/ d # c => k = i
      BY <2>3, <1>6
    <3>2. PICK l \in DOMAIN M.pool[r][e] : /\ m2.pool[r][e][j] = M.pool[r][e][l]
                                           /\ r = p /\ e = c => l = Old(j) /\ j \in Nat
                                           /\ r # p \/ e # c => l = j
      BY <2>3, <1>6
    <3>3. q # r \/ d # e \/ k # l
      <4> SUFFICES ASSUME q = r, d = e, k = l PROVE FALSE
        OBVIOUS
      <4>1. i # j
        OBVIOUS
      <4>2. CASE q = p /\ d = c
        <5>1. i \in Nat /\ j \in Nat /\ Old(i) = Old(j)
          BY <4>2, <3>1, <3>2
        <5> QED
          BY <5>1, <4>1 DEF Old
      <4>3. CASE q # p \/ d # c
        BY <4>1, <4>3, <3>1, <3>2
      <4> QED
        BY <4>2, <4>3
    <3> QED
      BY <3>1, <3>2, <3>3, <1>1 DEF PoolApart
  <2> QED
    BY <2>1, <2>2, <2>3
<1>16. LargeWhole(m2, new)
  BY <1>1, <1>3, <1>11 DEF LargeWhole
<1>17. TryAreas(m2) = TryAreas(M) /\ m2.pooled_blocks = M.pooled_blocks /\ m2.large_blocks = M.large_blocks
  BY DEF TryAreas, SameButPools
<1>18. UsedListed(m2, new)
  BY <1>1, <1>3, <1>17 DEF UsedListed
<1>19. PoolListed(m2)
  <2>0. "std" \in Memory /\ "try" \in Memory
    BY DEF Memory
  <2>1. /\ p = "std" => b.area \notin TryAreas(M)
        /\ p = "try" => b.area \in M.pooled_blocks
    BY <1>1, <1>2 DEF UsedListed
  <2>2. ASSUME NEW d \in PooledCode, NEW i \in DOMAIN m2.pool["std"][d]
        PROVE  m2.pool["std"][d][i].area \notin TryAreas(m2)
    <3>1. \/ p = "std" /\ m2.pool["std"][d][i] = b
          \/ \E k \in DOMAIN M.pool["std"][d] : m2.pool["std"][d][i] = M.pool["std"][d][k]
      BY <2>0, <1>6
    <3> QED
      BY <2>1, <3>1, <1>1, <1>17 DEF PoolListed
  <2>3. ASSUME NEW d \in PooledCode, NEW i \in DOMAIN m2.pool["try"][d]
        PROVE  m2.pool["try"][d][i].area \in m2.pooled_blocks
    <3>1. \/ p = "try" /\ m2.pool["try"][d][i] = b
          \/ \E k \in DOMAIN M.pool["try"][d] : m2.pool["try"][d][i] = M.pool["try"][d][k]
      BY <2>0, <1>6
    <3> QED
      BY <2>1, <3>1, <1>1, <1>17 DEF PoolListed
  <2> QED
    BY <2>2, <2>3 DEF PoolListed
<1>20. ListsSound(m2)
  BY <1>1, <1>11, <1>17 DEF ListsSound
<1>21. AreasKept(m2, new)
  <2> SUFFICES ASSUME NEW a \in Area, m2.pages[a] > 0 PROVE HasBlock(m2, new, a)
    BY DEF AreasKept
  <2>1. HasBlock(M, used, a)
    BY <1>1, <1>11 DEF AreasKept
  <2>2. CASE \E x \in DOMAIN used : x.area = a
    <3>1. PICK x \in DOMAIN used : x.area = a
      BY <2>2
    <3>2. CASE x = b
      BY <3>1, <3>2, <1>8 DEF HasBlock
    <3>3. CASE x # b
      BY <3>1, <3>3, <1>3 DEF HasBlock
    <3> QED
      BY <3>2, <3>3
  <2>3. CASE \E q \in Memory, d \in PooledCode : \E i \in DOMAIN M.pool[q][d] : M.pool[q][d][i].area = a
    BY <2>3, <1>7 DEF HasBlock
  <2> QED
    BY <2>1, <2>2, <2>3 DEF HasBlock
<1>22. Modes(m2)
  <2>1. m2.state = M.state /\ m2.curr_pool = M.curr_pool
    BY DEF SameButPools
  <2>2. ASSUME m2.state = "normal", NEW d \in PooledCode PROVE m2.pool["try"][d] = <<>>
    <3>1. p = "std" /\ "try" \in Memory
      BY <2>1, <2>2, <1>1 DEF Modes, Memory
    <3> QED
      BY <2>1, <2>2, <3>1, <1>1, <1>4 DEF Modes
  <2> QED
    BY <2>1, <2>2, <1>1, <1>17 DEF Modes
<1> QED
  BY <1>10, <1>12, <1>13, <1>14, <1>15, <1>16, <1>18, <1>19, <1>20, <1>21, <1>22 DEF AllocInv, new

\* A large block is given back to malloc: nothing else was in its area.
LEMMA FreeLargeKeeps ==
  ASSUME NEW M, NEW used, AllocInv(M, used), NEW c \in LargeCode, NEW p \in Memory, p = M.curr_pool,
         NEW b \in DOMAIN used, used[b].code = c, used[b].mem = p,
         NEW m2 \in AllocatorFields, m2.state = M.state, m2.curr_pool = M.curr_pool,
         m2.pages = [M.pages EXCEPT ![b.area] = 0], m2.pool = M.pool,
         m2.pooled_blocks = M.pooled_blocks,
         m2.large_blocks = (IF M.state = "try" THEN M.large_blocks \ {b.area} ELSE M.large_blocks)
  PROVE  AllocInv(m2, Without(used, b))
<1> DEFINE new == Without(used, b)
<1>1. /\ M \in AllocatorFields /\ UsesTyped(used)
      /\ InRoom(M, used) /\ UsedApart(used) /\ UsedPoolApart(M, used) /\ PoolApart(M)
      /\ LargeWhole(M, used) /\ UsedListed(M, used) /\ PoolListed(M) /\ ListsSound(M)
      /\ AreasKept(M, used) /\ Modes(M)
  BY DEF AllocInv
<1>2. c < 0 /\ ~(c >= 0) /\ size_code_size(c) = PAGE * (-c) /\ PAGE * (-c) \in Nat
  <2>1. c < 0 /\ c \in Int /\ -c \in Nat
    BY LargeCodes
  <2> QED
    BY <2>1, Sizes, Constants, Products
<1>3. b \in Block /\ b.area \in Area /\ b.at = 0 /\ M.pages[b.area] = -c
  BY <1>1, <1>2 DEF UsesTyped, LargeWhole, Block
<1>4. /\ DOMAIN new \subseteq DOMAIN used /\ b \notin DOMAIN new
      /\ \A x \in DOMAIN new : new[x] = used[x] /\ x # b
      /\ \A x \in DOMAIN used : x # b => x \in DOMAIN new
  BY DEF Without
\* What is apart from a block that is all of its area is in another.
<1>5. ASSUME NEW x \in Block, NEW d \in Codes, Apart(b, c, x, d), Room(M, x, d) PROVE x.area # b.area
  <2> SUFFICES ASSUME x.area = b.area PROVE FALSE
    OBVIOUS
  <2>1. size_code_size(d) \in Nat /\ size_code_size(d) > 0 /\ x.at \in Nat
    BY Sizes, Constants DEF Block
  <2>2. x.at + size_code_size(d) <= PAGE * (-c)
    BY <1>3, <1>5 DEF Room
  <2>3. b.at + size_code_size(c) <= x.at \/ x.at + size_code_size(d) <= b.at
    BY <1>5 DEF Apart
  <2> QED
    BY <2>1, <2>2, <2>3, <1>2, <1>3
<1>6. \A x \in DOMAIN new : x \in Block /\ x.area \in Area /\ x.area # b.area
  <2> TAKE x \in DOMAIN new
  <2>1. /\ x \in DOMAIN used /\ x # b /\ x \in Block /\ used[x].code \in Codes
        /\ Apart(b, c, x, used[x].code) /\ Room(M, x, used[x].code)
    BY <1>1, <1>4 DEF UsesTyped, InRoom, UsedApart
  <2>2. x.area \in Area
    BY <2>1 DEF Block
  <2> QED
    BY <2>1, <2>2, <1>5
<1>7. \A q \in Memory, d \in PooledCode : \A i \in DOMAIN M.pool[q][d] :
        M.pool[q][d][i].area \in Area /\ M.pool[q][d][i].area # b.area
  <2> TAKE q \in Memory, d \in PooledCode
  <2> TAKE i \in DOMAIN M.pool[q][d]
  <2>1. M.pool[q][d][i] \in Block /\ d \in Codes /\ Room(M, M.pool[q][d][i], d) /\ Apart(b, c, M.pool[q][d][i], d)
    BY <1>1, Fields DEF UsedPoolApart, InRoom, Codes
  <2>2. M.pool[q][d][i].area \in Area
    BY <2>1 DEF Block
  <2> QED
    BY <2>1, <2>2, <1>5
<1>8. /\ m2.pages[b.area] = 0
      /\ \A a \in Area : a # b.area => m2.pages[a] = M.pages[a]
  BY <1>1, <1>3 DEF AllocatorFields
<1> HIDE DEF new
<1>9. UsesTyped(new)
  BY <1>1, <1>4 DEF UsesTyped
<1>10. InRoom(m2, new)
  <2>1. ASSUME NEW x \in DOMAIN new PROVE Room(m2, x, new[x].code)
    BY <1>1, <1>4, <1>6, <1>8 DEF InRoom, Room
  <2>2. ASSUME NEW q \in Memory, NEW d \in PooledCode, NEW i \in DOMAIN m2.pool[q][d]
        PROVE  Room(m2, m2.pool[q][d][i], d)
    BY <1>1, <1>7, <1>8 DEF InRoom, Room
  <2> QED
    BY <2>1, <2>2 DEF InRoom
<1>11. UsedApart(new)
  BY <1>1, <1>4 DEF UsedApart
<1>12. UsedPoolApart(m2, new)
  BY <1>1, <1>4 DEF UsedPoolApart
<1>13. PoolApart(m2)
  BY <1>1 DEF PoolApart
<1>14. LargeWhole(m2, new)
  BY <1>1, <1>4, <1>6, <1>8 DEF LargeWhole
\* The list of the transaction loses the area, if it had it.
<1>15. /\ \A a \in Area : a # b.area => (a \in M.large_blocks <=> a \in m2.large_blocks)
       /\ b.area \notin TryAreas(m2) /\ TryAreas(m2) \subseteq TryAreas(M)
       /\ m2.large_blocks \subseteq M.large_blocks
  <2>1. /\ p = "std" => b.area \notin TryAreas(M)
        /\ p = "try" => b.area \in M.large_blocks
    BY <1>1, <1>2 DEF UsedListed
  <2>2. p = (IF M.state = "try" THEN "try" ELSE "std")
    BY <1>1 DEF Modes
  <2> QED
    BY <2>1, <2>2, <1>1 DEF TryAreas, ListsSound
<1>16. UsedListed(m2, new)
  BY <1>1, <1>4, <1>6, <1>15 DEF UsedListed
<1>17. PoolListed(m2)
  <2>0. "std" \in Memory /\ "try" \in Memory
    BY DEF Memory
  <2> QED
    BY <2>0, <1>1, <1>15 DEF PoolListed
<1>18. ListsSound(m2)
  <2>1. m2.pooled_blocks \cap m2.large_blocks = {}
    BY <1>1, <1>15 DEF ListsSound
  <2>2. \A a \in TryAreas(M) : a \in Area /\ M.pages[a] > 0
    BY <1>1, Fields DEF ListsSound, TryAreas
  <2>3. \A a \in TryAreas(m2) : m2.pages[a] > 0
    BY <2>2, <1>8, <1>15
  <2> QED
    BY <2>1, <2>3 DEF ListsSound
<1>19. AreasKept(m2, new)
  <2> SUFFICES ASSUME NEW a \in Area, m2.pages[a] > 0 PROVE HasBlock(m2, new, a)
    BY DEF AreasKept
  <2>1. a # b.area
    BY <1>8
  <2>2. HasBlock(M, used, a)
    BY <2>1, <1>1, <1>8 DEF AreasKept
  <2> QED
    BY <2>1, <2>2, <1>4 DEF HasBlock
<1>20. Modes(m2)
  <2>1. ASSUME m2.state = "normal" PROVE TryAreas(m2) = {}
    BY <2>1, <1>1, <1>15 DEF Modes
  <2> QED
    BY <2>1, <1>1 DEF Modes
<1> QED
  BY <1>9, <1>10, <1>11, <1>12, <1>13, <1>14, <1>16, <1>17, <1>18, <1>19, <1>20 DEF AllocInv, new

-----------------------------------------------------------------------------
(***************************************************************************)
(* The functions of the allocator.                                         *)
(***************************************************************************)

\* What debug builds count makes no difference.
LEMMA SameKeeps ==
  ASSUME NEW M, NEW used, AllocInv(M, used), NEW m2 \in AllocatorFields, SameButPools(M, m2), m2.pool = M.pool
  PROVE  AllocInv(m2, used)
<1>1. /\ M \in AllocatorFields /\ UsesTyped(used)
      /\ InRoom(M, used) /\ UsedApart(used) /\ UsedPoolApart(M, used) /\ PoolApart(M)
      /\ LargeWhole(M, used) /\ UsedListed(M, used) /\ PoolListed(M) /\ ListsSound(M)
      /\ AreasKept(M, used) /\ Modes(M)
  BY DEF AllocInv
<1>2. /\ m2.state = M.state /\ m2.curr_pool = M.curr_pool /\ m2.pages = M.pages
      /\ m2.pooled_blocks = M.pooled_blocks /\ m2.large_blocks = M.large_blocks /\ TryAreas(m2) = TryAreas(M)
  BY DEF SameButPools, TryAreas
<1>3. InRoom(m2, used)
  BY <1>1, <1>2 DEF InRoom, Room
<1>4. UsedPoolApart(m2, used) /\ PoolApart(m2)
  BY <1>1 DEF UsedPoolApart, PoolApart
<1>5. LargeWhole(m2, used) /\ UsedListed(m2, used) /\ PoolListed(m2) /\ ListsSound(m2)
  BY <1>1, <1>2 DEF LargeWhole, UsedListed, PoolListed, ListsSound
<1>6. AreasKept(m2, used)
  BY <1>1, <1>2 DEF AreasKept, HasBlock
<1>7. Modes(m2)
  BY <1>1, <1>2 DEF Modes
<1> QED
  BY <1>1, <1>3, <1>4, <1>5, <1>6, <1>7 DEF AllocInv

\* alloc_mem_block: a block that nobody had, in the current memory.
LEMMA AllocKeeps ==
  ASSUME NEW M, NEW used, AllocInv(M, used), NEW c \in Codes,
         HasArea(M) \/ (c >= 0 /\ M.pool[M.curr_pool][c] # <<>>)
  PROVE  /\ alloc_mem_block(M, c).block \in Block /\ alloc_mem_block(M, c).block \notin DOMAIN used
         /\ AllocInv(alloc_mem_block(M, c).m, Taken(used, alloc_mem_block(M, c).block, c, M.curr_pool))
         /\ alloc_mem_block(M, c).m.state = M.state /\ alloc_mem_block(M, c).m.curr_pool = M.curr_pool
         /\ alloc_mem_block(M, c).m.live_objs = M.live_objs
         /\ alloc_mem_block(M, c).m.live_mem_usage = M.live_mem_usage
<1> DEFINE p == M.curr_pool
           area == malloc(M)
           r == alloc_mem_block(M, c)
           b == [area |-> area, at |-> 0]
<1>1. M \in AllocatorFields /\ p \in Memory /\ M.pages \in [Area -> Nat]
  BY Fields DEF AllocInv
<1>2. CASE c >= 0 /\ M.pool[p][c] # <<>>
  <2>1. c \in PooledCode
    BY <1>2, Sizes DEF Codes
  <2> DEFINE m2 == [M EXCEPT !.pool[M.curr_pool][c] = Tail(@)]
  <2>2. r = [block |-> Head(M.pool[p][c]), m |-> m2]
    BY <1>2 DEF alloc_mem_block
  <2>3. M.pool[p][c] \in Seq(Block) /\ Tail(M.pool[p][c]) \in Seq(Block)
    BY <1>1, <1>2, <2>1, Fields
  <2>4. m2.pool = [M.pool EXCEPT ![p][c] = Tail(@)]
    BY <1>1 DEF AllocatorFields
  <2>5. m2.pool \in [Memory -> [PooledCode -> Seq(Block)]]
    BY <1>1, <2>3, <2>4 DEF AllocatorFields
  <2>6. m2 \in AllocatorFields /\ SameButPools(M, m2) /\ m2.live_objs = M.live_objs /\ m2.live_mem_usage = M.live_mem_usage
    BY <1>1, <2>5 DEF AllocatorFields, SameButPools
  <2> HIDE DEF m2
  <2>7. /\ Head(M.pool[p][c]) \in Block /\ Head(M.pool[p][c]) \notin DOMAIN used
        /\ AllocInv(m2, Taken(used, Head(M.pool[p][c]), c, p))
    BY <1>1, <1>2, <2>1, <2>4, <2>6, PopKeeps
  <2> QED
    BY <2>2, <2>6, <2>7 DEF SameButPools
<1>3. CASE c >= 0 /\ M.pool[p][c] = <<>>
  <2>1. c \in PooledCode /\ HasArea(M)
    BY <1>3, Sizes DEF Codes
  <2>2. area \in Area /\ M.pages[area] = 0
    BY <1>1, <2>1, MallocFree
  <2> DEFINE m2 == [M EXCEPT !.pages[area] = CHUNK, !.pool[M.curr_pool][c] = Cut(area, c),
                             !.pooled_blocks = IF M.state = "try" THEN @ \cup {area} ELSE @]
  <2>3. r = [block |-> b, m |-> m2]
    BY <1>3 DEF alloc_mem_block
  <2> HIDE DEF area
  <2>4. Cut(area, c) \in Seq(Block)
    BY <2>1, <2>2, CutFacts
  <2>5. /\ m2.pool = [M.pool EXCEPT ![p][c] = Cut(area, c)]
        /\ m2.pages = [M.pages EXCEPT ![area] = CHUNK]
        /\ m2.pooled_blocks = (IF M.state = "try" THEN M.pooled_blocks \cup {area} ELSE M.pooled_blocks)
        /\ m2.large_blocks = M.large_blocks /\ m2.state = M.state /\ m2.curr_pool = M.curr_pool
        /\ m2.live_objs = M.live_objs /\ m2.live_mem_usage = M.live_mem_usage
    BY <1>1 DEF AllocatorFields
  <2>6. m2 \in AllocatorFields
    <3>1. m2.pool \in [Memory -> [PooledCode -> Seq(Block)]]
      BY <1>1, <2>4, <2>5 DEF AllocatorFields
    <3>2. m2.pages \in [Area -> Nat] /\ m2.pooled_blocks \in SUBSET Area
      BY <1>1, <2>2, <2>5, Constants DEF AllocatorFields
    <3> QED
      BY <1>1, <3>1, <3>2 DEF AllocatorFields
  <2> HIDE DEF m2
  <2>7. b \in Block /\ b \notin DOMAIN used /\ AllocInv(m2, Taken(used, b, c, p))
    <3>1. PICK x : x = b
      OBVIOUS
    <3> HIDE DEF b
    <3>2. x = [area |-> area, at |-> 0]
      BY <3>1 DEF b
    <3>3. x \in Block /\ x \notin DOMAIN used /\ AllocInv(m2, Taken(used, x, c, p))
      <4>1. PICK q \in Memory : q = M.curr_pool
        BY <1>1
      <4>2. M.pool[q][c] = <<>>
        BY <1>3, <4>1
      <4>3. AllocInv(M, used) /\ c \in PooledCode /\ area \in Area /\ M.pages[area] = 0 /\ m2 \in AllocatorFields
        BY <2>1, <2>2, <2>6
      <4>4. ChunkTaken(M, m2, q, c, area)
        BY <2>5, <4>1 DEF ChunkTaken
      <4>5. x \in Block /\ x \notin DOMAIN used /\ AllocInv(m2, Taken(used, x, c, q))
        BY <4>1, <4>2, <4>3, <4>4, <3>2, ChunkKeeps
      <4> QED
        BY <4>1, <4>5
    <3> QED
      BY <3>1, <3>3
  <2> QED
    BY <2>3, <2>5, <2>7
<1>4. CASE ~(c >= 0)
  <2>1. c \in LargeCode /\ HasArea(M)
    BY <1>4, Sizes DEF Codes
  <2>2. area \in Area /\ M.pages[area] = 0
    BY <1>1, <2>1, MallocFree
  <2> DEFINE m2 == [M EXCEPT !.pages[area] = -c,
                             !.large_blocks = IF M.state = "try" THEN @ \cup {area} ELSE @]
  <2>3. r = [block |-> b, m |-> m2]
    BY <1>4 DEF alloc_mem_block
  <2> HIDE DEF area
  <2>4. -c \in Nat
    BY <2>1, LargeCodes
  <2>5. /\ m2.pool = M.pool
        /\ m2.pages = [M.pages EXCEPT ![area] = -c]
        /\ m2.large_blocks = (IF M.state = "try" THEN M.large_blocks \cup {area} ELSE M.large_blocks)
        /\ m2.pooled_blocks = M.pooled_blocks /\ m2.state = M.state /\ m2.curr_pool = M.curr_pool
        /\ m2.live_objs = M.live_objs /\ m2.live_mem_usage = M.live_mem_usage
    BY <1>1 DEF AllocatorFields
  <2>6. m2 \in AllocatorFields
    <3>1. m2.pages \in [Area -> Nat] /\ m2.large_blocks \in SUBSET Area
      BY <1>1, <2>2, <2>4, <2>5 DEF AllocatorFields
    <3> QED
      BY <1>1, <3>1 DEF AllocatorFields
  <2> HIDE DEF m2
  <2>7. b \in Block /\ b \notin DOMAIN used /\ AllocInv(m2, Taken(used, b, c, p))
    <3>1. PICK x : x = b
      OBVIOUS
    <3> HIDE DEF b
    <3>2. x = [area |-> area, at |-> 0]
      BY <3>1 DEF b
    <3>3. x \in Block /\ x \notin DOMAIN used /\ AllocInv(m2, Taken(used, x, c, p))
      BY <1>1, <2>1, <2>2, <2>5, <2>6, <3>2, LargeKeeps
    <3> QED
      BY <3>1, <3>3
  <2> QED
    BY <2>3, <2>5, <2>7
<1> QED
  BY <1>2, <1>3, <1>4

\* What a function leaves that takes a block x of the allocator.
Obtained(M, used, bytes, counted, x, M2) ==
  /\ x \in Block
  /\ x \notin DOMAIN used
  /\ AllocInv(M2, Taken(used, x, min_size_code(bytes), M.curr_pool))
  /\ M2.state = M.state
  /\ M2.curr_pool = M.curr_pool
  /\ M2.live_objs = IF M.state = "try" THEN M.live_objs ELSE M.live_objs \cup {x}
  /\ M2.live_mem_usage = IF M.state = "try" THEN M.live_mem_usage ELSE M.live_mem_usage + counted

\* new_obj: as alloc_mem_block, and debug builds count the object.
THEOREM NewObjKeeps ==
  ASSUME NEW M, NEW used, AllocInv(M, used), NEW bytes \in Nat, Fits(bytes), NEW counted \in Int,
         CanAlloc(M, bytes)
  PROVE  Obtained(M, used, bytes, counted, new_obj(M, bytes, counted).block, new_obj(M, bytes, counted).m)
<1> DEFINE c == min_size_code(bytes)
           made == alloc_mem_block(M, c)
           r == new_obj(M, bytes, counted)
<1>1. c \in Codes
  BY CodeFits
<1>2. HasArea(M) \/ (c >= 0 /\ M.pool[M.curr_pool][c] # <<>>)
  BY DEF CanAlloc
<1> HIDE DEF c
<1>3. /\ made.block \in Block /\ made.block \notin DOMAIN used
      /\ AllocInv(made.m, Taken(used, made.block, c, M.curr_pool))
      /\ made.m.state = M.state /\ made.m.curr_pool = M.curr_pool
      /\ made.m.live_objs = M.live_objs /\ made.m.live_mem_usage = M.live_mem_usage
  BY <1>1, <1>2, AllocKeeps
<1>4. r = IF M.state = "try" THEN made
          ELSE [made EXCEPT !.m.live_objs = @ \cup {made.block}, !.m.live_mem_usage = @ + counted]
  BY DEF new_obj, c
<1>5. CASE M.state = "try"
  <2>1. r = made
    BY <1>4, <1>5
  <2> HIDE DEF made, r
  <2> QED
    BY <2>1, <1>3, <1>5 DEF r, c, Obtained
<1>6. CASE M.state # "try"
  <2> DEFINE m2 == [made.m EXCEPT !.live_objs = @ \cup {made.block}, !.live_mem_usage = @ + counted]
  <2>1. made = [block |-> made.block, m |-> made.m]
    BY DEF alloc_mem_block
  <2>2. PICK x, m1 : x = made.block /\ m1 = made.m
    OBVIOUS
  <2>3. r.block = made.block /\ r.m = m2
    <3>1. made = [block |-> x, m |-> m1]
      BY <2>1, <2>2
    <3> HIDE DEF made
    <3> QED
      BY <1>4, <1>6, <2>2, <3>1
  <2> HIDE DEF made, r
  <2>4. made.m \in AllocatorFields
    BY <1>3 DEF AllocInv
  <2>5. M.live_mem_usage \in Int
    BY <1>3, <2>4 DEF AllocatorFields
  <2>6. /\ m2.state = M.state /\ m2.curr_pool = M.curr_pool /\ m2.pool = made.m.pool
        /\ m2.live_objs = M.live_objs \cup {made.block} /\ m2.live_mem_usage = M.live_mem_usage + counted
        /\ SameButPools(made.m, m2)
    BY <1>3, <2>4 DEF AllocatorFields, SameButPools
  <2>7. m2 \in AllocatorFields
    <3>1. m2.live_objs \in SUBSET Block /\ m2.live_mem_usage \in Int
      BY <1>3, <2>4, <2>5, <2>6 DEF AllocatorFields
    <3>2. m2 = [made.m EXCEPT !.live_objs = m2.live_objs, !.live_mem_usage = m2.live_mem_usage]
      BY <2>4, <2>6, <1>3
    <3> HIDE DEF m2
    <3> QED
      BY <2>4, <3>1, <3>2 DEF AllocatorFields
  <2> HIDE DEF m2
  <2>8. AllocInv(m2, Taken(used, made.block, c, M.curr_pool))
    BY <1>3, <2>6, <2>7, SameKeeps
  <2> QED
    BY <1>3, <1>6, <2>3, <2>6, <2>8 DEF r, c, Obtained
<1> QED
  BY <1>5, <1>6

\* free_obj: the block goes back to where it is from, which its size says.
THEOREM FreeObjKeeps ==
  ASSUME NEW M, NEW used, AllocInv(M, used), NEW b \in DOMAIN used, NEW bytes \in Int,
         used[b].code = min_size_code(bytes), used[b].mem = M.curr_pool
  PROVE  /\ AllocInv(free_obj(M, b, bytes), Without(used, b))
         /\ free_obj(M, b, bytes).state = M.state /\ free_obj(M, b, bytes).curr_pool = M.curr_pool
         /\ free_obj(M, b, bytes).live_objs = IF M.state = "try" THEN M.live_objs ELSE M.live_objs \ {b}
         /\ free_obj(M, b, bytes).live_mem_usage =
              IF M.state = "try" THEN M.live_mem_usage ELSE M.live_mem_usage - bytes
<1> DEFINE c == min_size_code(bytes)
           p == M.curr_pool
           freed == release_mem_block(M, b, c)
           r == free_obj(M, b, bytes)
<1>1. /\ M \in AllocatorFields /\ p \in Memory /\ b \in Block /\ c \in Codes /\ b.area \in Area
  BY Fields DEF AllocInv, UsesTyped, Block
<1>2. /\ AllocInv(freed, Without(used, b)) /\ freed.state = M.state /\ freed.curr_pool = M.curr_pool
      /\ freed.live_objs = M.live_objs /\ freed.live_mem_usage = M.live_mem_usage
  <2>1. CASE c >= 0
    <3>1. c \in PooledCode
      BY <1>1, <2>1, Sizes DEF Codes
    <3> HIDE DEF c
    <3> DEFINE m2 == [M EXCEPT !.pool[M.curr_pool][c] = <<b>> \o @]
    <3>2. freed = m2
      BY <2>1 DEF release_mem_block
    <3>3. m2.pool = [M.pool EXCEPT ![p][c] = <<b>> \o @]
      BY <1>1 DEF AllocatorFields
    <3>4. M.pool[p][c] \in Seq(Block) /\ <<b>> \o M.pool[p][c] \in Seq(Block)
      BY <1>1, <3>1, Fields
    <3>5. m2.pool \in [Memory -> [PooledCode -> Seq(Block)]]
      BY <1>1, <3>1, <3>3, <3>4 DEF AllocatorFields
    <3>6. m2 \in AllocatorFields /\ SameButPools(M, m2) /\ m2.live_objs = M.live_objs /\ m2.live_mem_usage = M.live_mem_usage
      BY <1>1, <3>5 DEF AllocatorFields, SameButPools
    <3> HIDE DEF m2
    <3>7. AllocInv(m2, Without(used, b))
      <4>1. used[b].code = c /\ used[b].mem = p
        BY DEF c
      <4> QED
        BY <4>1, <1>1, <3>1, <3>3, <3>6, PushKeeps
    <3> QED
      BY <3>2, <3>6, <3>7 DEF SameButPools
  <2>2. CASE ~(c >= 0)
    <3>1. c \in LargeCode
      BY <1>1, <2>2, Sizes DEF Codes
    <3> HIDE DEF c
    <3> DEFINE m2 == [M EXCEPT !.pages[b.area] = 0,
                               !.large_blocks = IF M.state = "try" THEN @ \ {b.area} ELSE @]
    <3>2. freed = m2
      BY <2>2 DEF release_mem_block
    <3>3. /\ m2.pages = [M.pages EXCEPT ![b.area] = 0] /\ m2.pool = M.pool
          /\ m2.large_blocks = (IF M.state = "try" THEN M.large_blocks \ {b.area} ELSE M.large_blocks)
          /\ m2.pooled_blocks = M.pooled_blocks /\ m2.state = M.state /\ m2.curr_pool = M.curr_pool
          /\ m2.live_objs = M.live_objs /\ m2.live_mem_usage = M.live_mem_usage
      BY <1>1 DEF AllocatorFields
    <3>4. m2 \in AllocatorFields
      <4>1. m2.pages \in [Area -> Nat] /\ m2.large_blocks \in SUBSET Area
        BY <1>1, <3>3 DEF AllocatorFields
      <4> QED
        BY <1>1, <4>1 DEF AllocatorFields
    <3> HIDE DEF m2
    <3>5. AllocInv(m2, Without(used, b))
      <4>1. used[b].code = c /\ used[b].mem = p
        BY DEF c
      <4> QED
        BY <4>1, <1>1, <3>1, <3>3, <3>4, FreeLargeKeeps
    <3> QED
      BY <3>2, <3>3, <3>5
  <2> QED
    BY <2>1, <2>2
<1>3. r = IF M.state = "try" THEN freed
          ELSE [freed EXCEPT !.live_objs = @ \ {b}, !.live_mem_usage = @ - bytes]
  BY DEF free_obj
<1>4. CASE M.state = "try"
  <2>1. r = freed
    BY <1>3, <1>4
  <2> HIDE DEF freed, r
  <2> QED
    BY <2>1, <1>2, <1>4 DEF r
<1>5. CASE M.state # "try"
  <2> HIDE DEF freed
  <2> DEFINE m2 == [freed EXCEPT !.live_objs = @ \ {b}, !.live_mem_usage = @ - bytes]
  <2>1. r = m2
    BY <1>3, <1>5
  <2>2. freed \in AllocatorFields /\ freed.live_objs \subseteq Block /\ freed.live_mem_usage \in Int
    BY <1>2 DEF AllocInv, AllocatorFields
  <2>3. /\ m2.state = freed.state /\ m2.curr_pool = freed.curr_pool /\ m2.pool = freed.pool
        /\ m2.live_objs = freed.live_objs \ {b} /\ m2.live_mem_usage = freed.live_mem_usage - bytes
        /\ SameButPools(freed, m2)
    BY <2>2 DEF AllocatorFields, SameButPools
  <2>4. m2 \in AllocatorFields
    <3>1. m2.live_objs \in SUBSET Block /\ m2.live_mem_usage \in Int
      BY <2>2, <2>3
    <3>2. m2 = [freed EXCEPT !.live_objs = m2.live_objs, !.live_mem_usage = m2.live_mem_usage]
      BY <2>2, <2>3
    <3> HIDE DEF m2
    <3> QED
      BY <2>2, <3>1, <3>2 DEF AllocatorFields
  <2> HIDE DEF m2
  <2>5. AllocInv(m2, Without(used, b))
    BY <1>2, <2>3, <2>4, SameKeeps
  <2> HIDE DEF r
  <2> QED
    BY <2>1, <2>3, <2>5, <1>2, <1>5 DEF r
<1> QED
  BY <1>4, <1>5

\* The changes of state that begin, interrupt and resume a transaction.
LEMMA SwitchKeeps ==
  ASSUME NEW M, NEW used, AllocInv(M, used)
  PROVE  /\ M.state = "normal" => AllocInv(enter_try_state(M), used)
         /\ M.state = "try" => AllocInv(enter_copy_state(M), used)
         /\ M.state = "copying" => AllocInv(restore_try_state(M), used)
<1>1. /\ M \in AllocatorFields /\ UsesTyped(used)
      /\ InRoom(M, used) /\ UsedApart(used) /\ UsedPoolApart(M, used) /\ PoolApart(M)
      /\ LargeWhole(M, used) /\ UsedListed(M, used) /\ PoolListed(M) /\ ListsSound(M)
      /\ AreasKept(M, used)
  BY DEF AllocInv
<1>2. ASSUME NEW m2 \in AllocatorFields, m2.pages = M.pages, m2.pool = M.pool,
             m2.pooled_blocks = M.pooled_blocks, m2.large_blocks = M.large_blocks, Modes(m2)
      PROVE  AllocInv(m2, used)
  <2>1. TryAreas(m2) = TryAreas(M)
    BY <1>2 DEF TryAreas
  <2>2. InRoom(m2, used)
    BY <1>1, <1>2 DEF InRoom, Room
  <2>3. UsedPoolApart(m2, used) /\ PoolApart(m2)
    BY <1>1, <1>2 DEF UsedPoolApart, PoolApart
  <2>4. LargeWhole(m2, used) /\ UsedListed(m2, used) /\ PoolListed(m2) /\ ListsSound(m2)
    BY <1>1, <1>2, <2>1 DEF LargeWhole, UsedListed, PoolListed, ListsSound
  <2>5. AreasKept(m2, used)
    BY <1>1, <1>2 DEF AreasKept, HasBlock
  <2> QED
    BY <1>1, <1>2, <2>2, <2>3, <2>4, <2>5 DEF AllocInv
<1>3. ASSUME NEW st \in {"try", "copying"}, NEW p \in Memory, p = (IF st = "try" THEN "try" ELSE "std"),
             NEW m2, m2 = [M EXCEPT !.state = st, !.curr_pool = p]
      PROVE  AllocInv(m2, used)
  <2>1. /\ m2 \in AllocatorFields /\ m2.state = st /\ m2.curr_pool = p /\ m2.pages = M.pages /\ m2.pool = M.pool
        /\ m2.pooled_blocks = M.pooled_blocks /\ m2.large_blocks = M.large_blocks
    BY <1>1, <1>3 DEF AllocatorFields
  <2>2. Modes(m2)
    BY <2>1, <1>3 DEF Modes
  <2> QED
    BY <2>1, <2>2, <1>2
<1>4. /\ enter_try_state(M) = [M EXCEPT !.state = "try", !.curr_pool = "try"]
      /\ enter_copy_state(M) = [M EXCEPT !.state = "copying", !.curr_pool = "std"]
      /\ restore_try_state(M) = [M EXCEPT !.state = "try", !.curr_pool = "try"]
  BY DEF enter_try_state, enter_copy_state, restore_try_state
<1>5. "std" \in Memory /\ "try" \in Memory
  BY DEF Memory
<1> QED
  BY <1>3, <1>4, <1>5

\* The blocks in use that are standard memory.
StdOnly(used) == [x \in {y \in DOMAIN used : used[y].mem = "std"} |-> used[x]]

\* What the end of a transaction changes.
TryReleased(M, m2) ==
  /\ m2.state = "normal" /\ m2.curr_pool = "std"
  /\ m2.pages = [a \in Area |-> IF a \in TryAreas(M) THEN 0 ELSE M.pages[a]]
  /\ m2.pooled_blocks = {} /\ m2.large_blocks = {}
  /\ m2.pool = [M.pool EXCEPT !["try"] = EmptyPools]
  /\ m2.live_objs = M.live_objs /\ m2.live_mem_usage = M.live_mem_usage

\* A transaction ends: the areas of its memory are given back, and no block of
\* standard memory is in one of them.
LEMMA ForgetKeeps ==
  ASSUME NEW M, NEW used, AllocInv(M, used), NEW m2 \in AllocatorFields, TryReleased(M, m2)
  PROVE  AllocInv(m2, StdOnly(used))
<1> DEFINE new == StdOnly(used)
<1>1. /\ M \in AllocatorFields /\ UsesTyped(used)
      /\ InRoom(M, used) /\ UsedApart(used) /\ UsedPoolApart(M, used) /\ PoolApart(M)
      /\ LargeWhole(M, used) /\ UsedListed(M, used) /\ PoolListed(M) /\ ListsSound(M)
      /\ AreasKept(M, used) /\ Modes(M)
  BY DEF AllocInv
<1>2. /\ DOMAIN new \subseteq DOMAIN used
      /\ \A x \in DOMAIN new : new[x] = used[x] /\ used[x].mem = "std"
      /\ \A x \in DOMAIN used : used[x].mem = "std" => x \in DOMAIN new
  BY DEF StdOnly
<1> HIDE DEF new
<1>3. "std" \in Memory /\ "try" \in Memory /\ \A q \in Memory : q = "std" \/ q = "try"
  BY DEF Memory
<1>4. ASSUME NEW d \in PooledCode
      PROVE  m2.pool["std"][d] = M.pool["std"][d] /\ m2.pool["try"][d] = <<>>
  <2>1. M.pool \in [Memory -> [PooledCode -> Seq(Block)]]
    BY <1>1 DEF AllocatorFields
  <2> QED
    BY <2>1, <1>3 DEF TryReleased, EmptyPools
\* A block that is left in a pool was in the pool of standard memory.
<1>5. ASSUME NEW q \in Memory, NEW d \in PooledCode, NEW i \in DOMAIN m2.pool[q][d]
      PROVE  /\ q = "std" /\ i \in DOMAIN M.pool["std"][d] /\ m2.pool[q][d][i] = M.pool["std"][d][i]
             /\ m2.pool[q][d][i].area \notin TryAreas(M) /\ m2.pool[q][d][i] \in Block
  <2>1. q # "try"
    <3>1. m2.pool["try"][d] = <<>>
      BY <1>4
    <3> QED
      BY <3>1
  <2>2. q = "std" /\ m2.pool[q][d] = M.pool["std"][d]
    BY <2>1, <1>3, <1>4
  <2>3. M.pool["std"][d][i].area \notin TryAreas(M) /\ M.pool["std"][d][i] \in Block
    BY <2>2, <1>1, <1>3, Fields DEF PoolListed
  <2> QED
    BY <2>2, <2>3
<1>6. \A x \in DOMAIN new : x \in Block /\ x.area \notin TryAreas(M)
  BY <1>1, <1>2 DEF UsesTyped, UsedListed
<1>7. \A x \in Block : x.area \notin TryAreas(M) => m2.pages[x.area] = M.pages[x.area]
  BY DEF Block, TryReleased
<1>8. TryAreas(m2) = {}
  BY DEF TryAreas, TryReleased
<1>9. UsesTyped(new)
  BY <1>1, <1>2 DEF UsesTyped
<1>10. InRoom(m2, new)
  <2>1. ASSUME NEW x \in DOMAIN new PROVE Room(m2, x, new[x].code)
    BY <1>1, <1>2, <1>6, <1>7 DEF InRoom, Room
  <2>2. ASSUME NEW q \in Memory, NEW d \in PooledCode, NEW i \in DOMAIN m2.pool[q][d]
        PROVE  Room(m2, m2.pool[q][d][i], d)
    BY <1>1, <1>3, <1>5, <1>7 DEF InRoom, Room
  <2> QED
    BY <2>1, <2>2 DEF InRoom
<1>11. UsedApart(new)
  BY <1>1, <1>2 DEF UsedApart
<1>12. UsedPoolApart(m2, new)
  BY <1>1, <1>2, <1>3, <1>5 DEF UsedPoolApart
<1>13. PoolApart(m2)
  <2> SUFFICES ASSUME NEW q \in Memory, NEW r \in Memory, NEW d \in PooledCode, NEW e \in PooledCode,
                      NEW i \in DOMAIN m2.pool[q][d], NEW j \in DOMAIN m2.pool[r][e], q # r \/ d # e \/ i # j
               PROVE  Apart(m2.pool[q][d][i], d, m2.pool[r][e][j], e)
    BY DEF PoolApart
  <2>1. /\ q = "std" /\ i \in DOMAIN M.pool["std"][d] /\ m2.pool[q][d][i] = M.pool["std"][d][i]
        /\ r = "std" /\ j \in DOMAIN M.pool["std"][e] /\ m2.pool[r][e][j] = M.pool["std"][e][j]
    BY <1>5
  <2> QED
    BY <2>1, <1>1, <1>3 DEF PoolApart
<1>14. LargeWhole(m2, new)
  BY <1>1, <1>2, <1>6, <1>7 DEF LargeWhole
<1>15. UsedListed(m2, new)
  BY <1>2, <1>8 DEF UsedListed
<1>16. PoolListed(m2)
  <2>1. ASSUME NEW d \in PooledCode, NEW i \in DOMAIN m2.pool["try"][d] PROVE FALSE
    <3>1. m2.pool["try"][d] = <<>>
      BY <1>4
    <3> QED
      BY <3>1, <2>1
  <2> QED
    BY <1>8, <2>1 DEF PoolListed
<1>17. ListsSound(m2)
  BY <1>8 DEF ListsSound, TryReleased
<1>18. AreasKept(m2, new)
  <2> SUFFICES ASSUME NEW a \in Area, m2.pages[a] > 0 PROVE HasBlock(m2, new, a)
    BY DEF AreasKept
  <2>1. a \notin TryAreas(M) /\ M.pages[a] > 0
    BY DEF TryReleased
  <2>2. HasBlock(M, used, a)
    BY <2>1, <1>1 DEF AreasKept
  <2>3. CASE \E x \in DOMAIN used : x.area = a
    <3>1. PICK x \in DOMAIN used : x.area = a
      BY <2>3
    <3>2. used[x].code \in Codes /\ used[x].mem \in Memory
      BY <3>1, <1>1 DEF UsesTyped
    <3>3. used[x].code \in Int
      BY <3>2, Sizes
    <3>4. used[x].code >= 0 \/ used[x].code < 0
      BY <3>3
    <3>5. used[x].mem = "try" => x.area \in TryAreas(M)
      BY <3>1, <3>4, <1>1 DEF UsedListed, TryAreas
    <3>6. used[x].mem = "std"
      BY <3>2, <3>5, <3>1, <2>1 DEF Memory
    <3> QED
      BY <3>1, <3>6, <1>2 DEF HasBlock
  <2>4. CASE \E q \in Memory, d \in PooledCode : \E i \in DOMAIN M.pool[q][d] : M.pool[q][d][i].area = a
    <3>1. PICK q \in Memory, d \in PooledCode : \E i \in DOMAIN M.pool[q][d] : M.pool[q][d][i].area = a
      BY <2>4
    <3>2. PICK i \in DOMAIN M.pool[q][d] : M.pool[q][d][i].area = a
      BY <3>1
    <3>3. q = "std"
      <4>1. q = "try" => a \in TryAreas(M)
        BY <3>2, <1>1 DEF PoolListed, TryAreas
      <4> QED
        BY <4>1, <2>1, <1>3
    <3> QED
      BY <3>2, <3>3, <1>3, <1>4 DEF HasBlock
  <2> QED
    BY <2>2, <2>3, <2>4 DEF HasBlock
<1>19. Modes(m2)
  BY <1>4, <1>8 DEF Modes, TryReleased
<1> QED
  BY <1>9, <1>10, <1>11, <1>12, <1>13, <1>14, <1>15, <1>16, <1>17, <1>18, <1>19 DEF AllocInv, new

\* return_to_normal_state and abort_try_state.
THEOREM ReleaseAllKeeps ==
  ASSUME NEW M, NEW used, AllocInv(M, used)
  PROVE  /\ M.state = "copying" => /\ AllocInv(return_to_normal_state(M), StdOnly(used))
                                   /\ TryReleased(M, return_to_normal_state(M))
         /\ M.state = "try" => /\ AllocInv(abort_try_state(M), StdOnly(used))
                               /\ TryReleased(M, abort_try_state(M))
<1>1. M \in AllocatorFields /\ Modes(M)
  BY DEF AllocInv
<1>2. ASSUME NEW m1 \in AllocatorFields, m1.state = "normal", m1.curr_pool = "std", m1.pages = M.pages,
             m1.pool = M.pool, m1.pooled_blocks = M.pooled_blocks, m1.large_blocks = M.large_blocks,
             m1.live_objs = M.live_objs, m1.live_mem_usage = M.live_mem_usage
      PROVE  /\ AllocInv(release_all_try_state_memory(m1), StdOnly(used))
             /\ TryReleased(M, release_all_try_state_memory(m1))
  <2> DEFINE m2 == release_all_try_state_memory(m1)
  <2>1. TryReleased(M, m2)
    <3>1. /\ m2.state = "normal" /\ m2.curr_pool = "std" /\ m2.pooled_blocks = {} /\ m2.large_blocks = {}
          /\ m2.live_objs = M.live_objs /\ m2.live_mem_usage = M.live_mem_usage
      BY <1>2 DEF release_all_try_state_memory, AllocatorFields
    <3>2. m2.pages = [a \in Area |-> IF a \in TryAreas(M) THEN 0 ELSE M.pages[a]]
      BY <1>2 DEF release_all_try_state_memory, AllocatorFields, TryAreas
    <3>3. m2.pool = [M.pool EXCEPT !["try"] = EmptyPools]
      BY <1>2 DEF release_all_try_state_memory, AllocatorFields
    <3> QED
      BY <3>1, <3>2, <3>3 DEF TryReleased
  <2>2. m2 \in AllocatorFields
    <3>1. m2.pages \in [Area -> Nat]
      BY <2>1, <1>1 DEF TryReleased, AllocatorFields
    <3>2. m2.pool \in [Memory -> [PooledCode -> Seq(Block)]]
      <4>1. EmptyPools \in [PooledCode -> Seq(Block)]
        BY DEF EmptyPools
      <4> QED
        BY <2>1, <4>1, <1>1 DEF TryReleased, AllocatorFields
    <3>3. m2 = [m1 EXCEPT !.pages = m2.pages, !.pool = m2.pool, !.pooled_blocks = m2.pooled_blocks,
                          !.large_blocks = m2.large_blocks]
      BY <1>2, <2>1 DEF release_all_try_state_memory, AllocatorFields, TryReleased
    <3>4. m2.pooled_blocks \in SUBSET Area /\ m2.large_blocks \in SUBSET Area
      BY <2>1 DEF TryReleased
    <3> HIDE DEF m2
    <3> QED
      BY <3>1, <3>2, <3>3, <3>4, <1>2 DEF AllocatorFields
  <2> HIDE DEF m2
  <2>3. AllocInv(m2, StdOnly(used))
    BY <2>1, <2>2, ForgetKeeps
  <2> QED
    BY <2>1, <2>3 DEF m2
<1>3. ASSUME M.state = "copying"
      PROVE  /\ AllocInv(return_to_normal_state(M), StdOnly(used))
             /\ TryReleased(M, return_to_normal_state(M))
  <2> DEFINE m1 == [M EXCEPT !.state = "normal"]
  <2>1. return_to_normal_state(M) = release_all_try_state_memory(m1)
    BY DEF return_to_normal_state
  <2>2. m1 \in AllocatorFields /\ m1.state = "normal" /\ m1.curr_pool = "std" /\ m1.pages = M.pages
        /\ m1.pool = M.pool /\ m1.pooled_blocks = M.pooled_blocks /\ m1.large_blocks = M.large_blocks
        /\ m1.live_objs = M.live_objs /\ m1.live_mem_usage = M.live_mem_usage
    BY <1>1, <1>3 DEF AllocatorFields, Modes
  <2> HIDE DEF m1
  <2> QED
    BY <1>2, <2>1, <2>2
<1>4. ASSUME M.state = "try"
      PROVE  /\ AllocInv(abort_try_state(M), StdOnly(used))
             /\ TryReleased(M, abort_try_state(M))
  <2> DEFINE m1 == [M EXCEPT !.state = "normal", !.curr_pool = "std"]
  <2>1. abort_try_state(M) = release_all_try_state_memory(m1)
    BY DEF abort_try_state
  <2>2. m1 \in AllocatorFields /\ m1.state = "normal" /\ m1.curr_pool = "std" /\ m1.pages = M.pages
        /\ m1.pool = M.pool /\ m1.pooled_blocks = M.pooled_blocks /\ m1.large_blocks = M.large_blocks
        /\ m1.live_objs = M.live_objs /\ m1.live_mem_usage = M.live_mem_usage
    BY <1>1, <1>4 DEF AllocatorFields, Memory
  <2> HIDE DEF m1
  <2> QED
    BY <1>2, <2>1, <2>2
<1> QED
  BY <1>3, <1>4

\* Nothing is allocated at first.
LEMMA NoMemoryInv ==
  ASSUME NEW used, DOMAIN used = {}
  PROVE  AllocInv(NoMemory, used)
<1>1. NoMemory \in AllocatorFields
  <2>1. EmptyPools \in [PooledCode -> Seq(Block)]
    BY DEF EmptyPools
  <2> QED
    BY <2>1 DEF NoMemory, AllocatorFields, Memory
<1>2. /\ NoMemory.pooled_blocks = {} /\ NoMemory.large_blocks = {} /\ TryAreas(NoMemory) = {}
      /\ NoMemory.state = "normal" /\ NoMemory.curr_pool = "std"
      /\ \A a \in Area : NoMemory.pages[a] = 0
      /\ \A p \in Memory, c \in PooledCode : NoMemory.pool[p][c] = <<>>
  BY DEF NoMemory, TryAreas, EmptyPools
<1>3. \A p \in Memory, c \in PooledCode : DOMAIN NoMemory.pool[p][c] = {}
  BY <1>2
<1>4. "std" \in Memory /\ "try" \in Memory
  BY DEF Memory
<1>5. UsesTyped(used) /\ UsedApart(used)
  BY DEF UsesTyped, UsedApart
<1>6. InRoom(NoMemory, used) /\ UsedPoolApart(NoMemory, used) /\ PoolApart(NoMemory)
  BY <1>3 DEF InRoom, UsedPoolApart, PoolApart
<1>7. LargeWhole(NoMemory, used) /\ UsedListed(NoMemory, used) /\ PoolListed(NoMemory)
  BY <1>3, <1>4 DEF LargeWhole, UsedListed, PoolListed
<1>8. ListsSound(NoMemory) /\ AreasKept(NoMemory, used) /\ Modes(NoMemory)
  BY <1>2, <1>4 DEF ListsSound, AreasKept, Modes
<1> QED
  BY <1>1, <1>5, <1>6, <1>7, <1>8 DEF AllocInv

-----------------------------------------------------------------------------
(* The inductive invariant, but for the blocks the allocator gives out.    *)

Typed ==
  /\ m.state \in {"normal", "try", "copying"}
  /\ DOMAIN heap \subseteq Block /\ \A x \in DOMAIN heap : heap[x] \in Object
  /\ IsFiniteSet(DOMAIN heap)
  /\ DOMAIN roots = DOMAIN heap /\ \A x \in DOMAIN roots : roots[x] \in Nat
  /\ stack \in Seq(Frame)

\* An object that waits or whose loop is under way has one reference left.
Pending(x) == x \in DOMAIN heap /\ heap[x].ref_count = 1 /\ heap[x].mem = CurrMemory
CallsSound ==
  \A d \in Calls :
    /\ Call(d).obj = NULL => Call(d).i = 0
    /\ Call(d).obj # NULL => Pending(Call(d).obj) /\ Call(d).i <= Len(heap[Call(d).obj].refs)
    /\ \A p \in Places(Call(d)) : Pending(Call(d).queue[p])

Counted ==
  \A x \in DOMAIN heap :
    heap[x].ref_count = roots[x] + Cardinality(InObjects(x)) + Cardinality(InRings(x)) + Cardinality(InLoops(x))

\* What the element e of an object refers to.
RefAt(e) == heap[e[1]].refs[e[2]]
ElementsLive == \A e \in Elements : ~Released(e[1], e[2]) => RefAt(e) \in DOMAIN heap

\* No standard object refers to one of a transaction. When values have been
\* copied objects are only deleted if none of the transaction refers to them.
StdRefs == \A e \in Elements : heap[e[1]].mem = "std" /\ ~Released(e[1], e[2]) => heap[RefAt(e)].mem = "std"
TryRefs ==
  m.state = "copying" /\ ~Running =>
    \A e \in Elements : heap[e[1]].mem = "try" => RefAt(e) \in DOMAIN heap /\ heap[RefAt(e)].mem = "try"
NormalStd == m.state = "normal" => \A x \in DOMAIN heap : heap[x].mem = "std"

RefsInv ==
  Typed /\ CallsSound /\ Counted /\ ElementsLive /\ StdRefs /\ TryRefs /\ NormalStd

-----------------------------------------------------------------------------
(* Facts about the operators of the model. *)

\* A place counted from the start of the ring, when it wraps around.
LEMMA Wrap ==
  ASSUME NEW a \in Nat, NEW n \in Nat \ {0}, a < n + n
  PROVE  a % n = IF a < n THEN a ELSE a - n
OBVIOUS

\* The place after another.
LEMMA Advance ==
  ASSUME NEW p \in 0 .. MAX_QUEUE_SIZE - 1
  PROVE  /\ (p + 1) % MAX_QUEUE_SIZE = (IF p + 1 = MAX_QUEUE_SIZE THEN 0 ELSE p + 1)
         /\ (p + 1) % MAX_QUEUE_SIZE \in 0 .. MAX_QUEUE_SIZE - 1
<1>1. MAX_QUEUE_SIZE \in Nat \ {0}
  BY QueueAssumption
<1> DEFINE a == p + 1
<1>2. a \in Nat /\ a <= MAX_QUEUE_SIZE /\ a < MAX_QUEUE_SIZE + MAX_QUEUE_SIZE
  BY <1>1
<1>3. a % MAX_QUEUE_SIZE = IF a < MAX_QUEUE_SIZE THEN a ELSE a - MAX_QUEUE_SIZE
  <2> HIDE DEF a
  <2> QED
    BY <1>1, <1>2, Wrap
<1>4. a % MAX_QUEUE_SIZE = IF a = MAX_QUEUE_SIZE THEN 0 ELSE a
  <2> HIDE DEF a
  <2> QED
    BY <1>1, <1>2, <1>3
<1>5. a % MAX_QUEUE_SIZE \in 0 .. MAX_QUEUE_SIZE - 1
  <2>1. a # MAX_QUEUE_SIZE => a \in 0 .. MAX_QUEUE_SIZE - 1
    BY <1>1, <1>2
  <2>2. 0 \in 0 .. MAX_QUEUE_SIZE - 1
    BY <1>1
  <2> HIDE DEF a
  <2> QED
    BY <1>4, <2>1, <2>2
<1> QED
  BY <1>4, <1>5

\* The place some places after another.
LEMMA WrapPlace ==
  ASSUME NEW s \in 0 .. MAX_QUEUE_SIZE - 1, NEW k \in 0 .. MAX_QUEUE_SIZE
  PROVE  (s + k) % MAX_QUEUE_SIZE = IF s + k < MAX_QUEUE_SIZE THEN s + k ELSE s + k - MAX_QUEUE_SIZE
<1>1. MAX_QUEUE_SIZE \in Nat \ {0}
  BY QueueAssumption
<1>2. PICK a \in Nat : a = s + k
  BY <1>1
<1>3. a < MAX_QUEUE_SIZE + MAX_QUEUE_SIZE
  BY <1>1, <1>2
<1>4. a % MAX_QUEUE_SIZE = IF a < MAX_QUEUE_SIZE THEN a ELSE a - MAX_QUEUE_SIZE
  BY <1>1, <1>3, Wrap
<1> QED
  BY <1>1, <1>2, <1>4

\* The places of a ring from its start on, without the remainders.
LEMMA PlacesAre ==
  ASSUME NEW f \in Frame
  PROVE  /\ f.queue_start \in 0 .. MAX_QUEUE_SIZE - 1 /\ f.queue_size \in 0 .. MAX_QUEUE_SIZE
         /\ Places(f) \subseteq 0 .. MAX_QUEUE_SIZE - 1
         /\ \A p \in 0 .. MAX_QUEUE_SIZE - 1 :
              p \in Places(f) <=> \/ f.queue_start <= p /\ p < f.queue_start + f.queue_size
                                  \/ p + MAX_QUEUE_SIZE < f.queue_start + f.queue_size
<1>1. /\ MAX_QUEUE_SIZE \in Nat /\ MAX_QUEUE_SIZE > 0
      /\ f.queue_start \in 0 .. MAX_QUEUE_SIZE - 1 /\ f.queue_size \in 0 .. MAX_QUEUE_SIZE
  BY QueueAssumption DEF Frame
<1>2. ASSUME NEW k \in 0 .. f.queue_size - 1
      PROVE  (f.queue_start + k) % MAX_QUEUE_SIZE =
               IF f.queue_start + k < MAX_QUEUE_SIZE THEN f.queue_start + k ELSE f.queue_start + k - MAX_QUEUE_SIZE
  <2>1. f.queue_start + k \in Nat /\ f.queue_start + k < MAX_QUEUE_SIZE + MAX_QUEUE_SIZE
    BY <1>1
  <2> QED
    BY <1>1, <2>1, Wrap
<1>3. Places(f) \subseteq 0 .. MAX_QUEUE_SIZE - 1
  BY <1>1, <1>2 DEF Places
<1>4. ASSUME NEW p \in 0 .. MAX_QUEUE_SIZE - 1
      PROVE  p \in Places(f) <=> \/ f.queue_start <= p /\ p < f.queue_start + f.queue_size
                                 \/ p + MAX_QUEUE_SIZE < f.queue_start + f.queue_size
  <2>1. ASSUME p \in Places(f)
        PROVE  \/ f.queue_start <= p /\ p < f.queue_start + f.queue_size
               \/ p + MAX_QUEUE_SIZE < f.queue_start + f.queue_size
    <3>1. PICK k \in 0 .. f.queue_size - 1 : p = (f.queue_start + k) % MAX_QUEUE_SIZE
      BY <2>1 DEF Places
    <3> QED
      BY <3>1, <1>1, <1>2
  <2>2. ASSUME f.queue_start <= p, p < f.queue_start + f.queue_size
        PROVE  p \in Places(f)
    <3>1. p - f.queue_start \in 0 .. f.queue_size - 1
      BY <1>1, <2>2
    <3>2. (f.queue_start + (p - f.queue_start)) % MAX_QUEUE_SIZE = p
      BY <1>1, <1>2, <3>1
    <3> QED
      BY <3>1, <3>2 DEF Places
  <2>3. ASSUME p + MAX_QUEUE_SIZE < f.queue_start + f.queue_size
        PROVE  p \in Places(f)
    <3>1. p + MAX_QUEUE_SIZE - f.queue_start \in 0 .. f.queue_size - 1
      BY <1>1, <2>3
    <3>2. (f.queue_start + (p + MAX_QUEUE_SIZE - f.queue_start)) % MAX_QUEUE_SIZE = p
      BY <1>1, <1>2, <3>1
    <3> QED
      BY <3>1, <3>2 DEF Places
  <2> QED
    BY <2>1, <2>2, <2>3
<1> QED
  BY <1>1, <1>3, <1>4

\* The innermost call's frame changes.
LEMMA TopFacts ==
  ASSUME NEW s \in Seq(Frame), s # <<>>, NEW g \in Frame
  PROVE  /\ Top(s, g) \in Seq(Frame) /\ Len(Top(s, g)) = Len(s) /\ Len(s) \in Nat /\ Len(s) > 0
         /\ Top(s, g)[1] = g
         /\ \A j \in 1 .. Len(s) : j # 1 => Top(s, g)[j] = s[j]
BY DEF Top

\* A call begins.
LEMMA PushFacts ==
  ASSUME NEW s \in Seq(Frame), NEW g \in Frame
  PROVE  /\ Push(s, g) \in Seq(Frame) /\ Len(Push(s, g)) = Len(s) + 1 /\ Len(s) \in Nat
         /\ Push(s, g)[1] = g
         /\ \A j \in 1 .. Len(s) : Push(s, g)[j + 1] = s[j]
BY DEF Push

\* A call returns.
LEMMA ReturnFacts ==
  ASSUME NEW s \in Seq(Frame), s # <<>>
  PROVE  /\ Tail(s) \in Seq(Frame) /\ Len(Tail(s)) = Len(s) - 1 /\ Len(s) \in Nat /\ Len(s) > 0
         /\ \A j \in 1 .. Len(s) - 1 : Tail(s)[j] = s[j + 1]
OBVIOUS

\* One element more or less.
LEMMA OneMore ==
  ASSUME NEW S, IsFiniteSet(S), NEW x, x \notin S
  PROVE  IsFiniteSet(S \cup {x}) /\ Cardinality(S \cup {x}) = Cardinality(S) + 1
BY FS_AddElement

\* A set without one of its elements.
LEMMA OneLess ==
  ASSUME NEW S, IsFiniteSet(S), NEW x \in S
  PROVE  IsFiniteSet(S \ {x}) /\ Cardinality(S \ {x}) = Cardinality(S) - 1
BY FS_RemoveElement

\* What is counted is finite.
LEMMA FiniteElements ==
  ASSUME NEW h, IsFiniteSet(DOMAIN h), \A y \in DOMAIN h : h[y].refs \in Seq(Block)
  PROVE  IsFiniteSet(UNION {{y} \X DOMAIN h[y].refs : y \in DOMAIN h})
<1> DEFINE T == {{y} \X DOMAIN h[y].refs : y \in DOMAIN h}
           f == [y \in DOMAIN h |-> {y} \X DOMAIN h[y].refs]
<1>1. f \in Surjection(DOMAIN h, T)
  BY DEF Surjection
<1>2. IsFiniteSet(T)
  BY <1>1, FS_Surjection
<1>3. ASSUME NEW y \in DOMAIN h PROVE IsFiniteSet({y} \X DOMAIN h[y].refs)
  <2>1. IsFiniteSet({y})
    BY FS_Singleton
  <2>2. Len(h[y].refs) \in Nat /\ DOMAIN h[y].refs = 1 .. Len(h[y].refs)
    OBVIOUS
  <2>3. IsFiniteSet(DOMAIN h[y].refs)
    BY <2>2, IntervalSize
  <2> QED
    BY <2>1, <2>3, FS_Product
<1> QED
  BY <1>2, <1>3, FS_UNION

\* An object in the heap, its type.
LEMMA ObjectFacts ==
  ASSUME Typed, NEW x \in DOMAIN heap
  PROVE  /\ x \in Block /\ x # NULL
         /\ heap[x] \in Object /\ heap[x].mem \in Memory /\ heap[x].ref_count \in Nat /\ heap[x].ref_count > 0
         /\ heap[x].refs \in Seq(Block) /\ Len(heap[x].refs) \in Nat
         /\ DOMAIN heap[x].refs = 1 .. Len(heap[x].refs)
         /\ roots[x] \in Nat
<1>1. x \in Block /\ heap[x] \in Object /\ roots[x] \in Nat
  BY DEF Typed
<1>2. heap[x].mem \in Memory /\ heap[x].ref_count \in Nat /\ heap[x].ref_count > 0 /\ heap[x].refs \in Seq(Block)
  BY <1>1 DEF Object
<1>3. x # NULL
  BY <1>1, QueueAssumption
<1> QED
  BY <1>1, <1>2, <1>3

\* The calls, each with its frame.
LEMMA CallFacts ==
  ASSUME Typed
  PROVE  /\ Len(stack) \in Nat /\ Calls = 1 .. Len(stack)
         /\ \A d \in Calls :
              /\ Call(d) \in Frame /\ Call(d).i \in Nat /\ Call(d).obj \in Block \cup {NULL}
              /\ Call(d).queue \in [0 .. MAX_QUEUE_SIZE - 1 -> Block \cup {NULL}]
<1>1. stack \in Seq(Frame) /\ Len(stack) \in Nat /\ Calls = 1 .. Len(stack)
  BY DEF Typed, Calls
<1>2. ASSUME NEW d \in Calls
      PROVE  /\ Call(d) \in Frame /\ Call(d).i \in Nat /\ Call(d).obj \in Block \cup {NULL}
             /\ Call(d).queue \in [0 .. MAX_QUEUE_SIZE - 1 -> Block \cup {NULL}]
  <2>1. Len(stack) + 1 - d \in 1 .. Len(stack)
    BY <1>1
  <2>2. Call(d) \in Frame
    BY <1>1, <2>1 DEF Call
  <2> QED
    BY <2>2 DEF Frame
<1> QED
  BY <1>1, <1>2

\* An element of an object.
LEMMA ElementFacts ==
  /\ \A y \in DOMAIN heap : \A k \in DOMAIN heap[y].refs : <<y, k>> \in Elements
  /\ \A e \in Elements : e = <<e[1], e[2]>> /\ e[1] \in DOMAIN heap /\ e[2] \in DOMAIN heap[e[1]].refs
BY DEF Elements

\* What is counted is finite.
LEMMA CountedFinite ==
  ASSUME Typed
  PROVE  \A x : /\ IsFiniteSet(InObjects(x)) /\ IsFiniteSet(InRings(x)) /\ IsFiniteSet(InLoops(x))
                /\ Cardinality(InObjects(x)) \in Nat /\ Cardinality(InRings(x)) \in Nat
                /\ Cardinality(InLoops(x)) \in Nat
<1>1. IsFiniteSet(Elements)
  <2>1. \A y \in DOMAIN heap : heap[y].refs \in Seq(Block)
    BY ObjectFacts
  <2>2. IsFiniteSet(DOMAIN heap)
    BY DEF Typed
  <2> QED
    BY <2>1, <2>2, FiniteElements DEF Elements
<1>2. IsFiniteSet(Calls)
  BY CallFacts, IntervalSize
<1>3. IsFiniteSet(Calls \X (0 .. MAX_QUEUE_SIZE - 1))
  <2>1. IsFiniteSet(0 .. MAX_QUEUE_SIZE - 1)
    BY IntervalSize, QueueAssumption
  <2> QED
    BY <1>2, <2>1, FS_Product
<1> TAKE x
<1>4. InObjects(x) \in SUBSET Elements /\ InRings(x) \in SUBSET (Calls \X (0 .. MAX_QUEUE_SIZE - 1))
      /\ InLoops(x) \in SUBSET Calls
  BY DEF InObjects, InRings, InLoops
<1>5. IsFiniteSet(InObjects(x)) /\ IsFiniteSet(InRings(x)) /\ IsFiniteSet(InLoops(x))
  BY <1>1, <1>2, <1>3, <1>4, FS_Subset
<1> QED
  BY <1>5, FS_CardinalityType

\* Out of deletions nothing waits and nothing is released.
LEMMA Idle ==
  /\ stack = <<>> => /\ Calls = {} /\ (\A y, k : ~Released(y, k))
                     /\ \A x : InRings(x) = {} /\ InLoops(x) = {}
  /\ stack' = <<>> => /\ Calls' = {} /\ (\A y, k : ~Released(y, k)')
                      /\ \A x : InRings(x)' = {} /\ InLoops(x)' = {}
<1>1. Len(<<>>) = 0 /\ 1 .. 0 = {}
  OBVIOUS
<1>2. ASSUME stack = <<>>
      PROVE  Calls = {} /\ (\A y, k : ~Released(y, k)) /\ \A x : InRings(x) = {} /\ InLoops(x) = {}
  <2>1. Calls = {}
    BY <1>1, <1>2 DEF Calls
  <2> QED
    BY <2>1 DEF Released, InRings, InLoops
<1>3. ASSUME stack' = <<>>
      PROVE  Calls' = {} /\ (\A y, k : ~Released(y, k)') /\ \A x : InRings(x)' = {} /\ InLoops(x)' = {}
  <2>1. Calls' = {}
    BY <1>1, <1>3 DEF Calls
  <2> QED
    BY <2>1 DEF Released, InRings, InLoops
<1> QED
  BY <1>2, <1>3

\* The innermost call's frame changes, the others do not.
LEMMA TopNext ==
  ASSUME Typed, stack # <<>>, NEW n, n = Len(stack), NEW g \in Frame, stack' = Top(stack, g)
  PROVE  /\ stack' \in Seq(Frame) /\ stack' # <<>> /\ Len(stack') = n
         /\ Calls' = Calls /\ n \in Calls
         /\ Call(n) = Head(stack) /\ Call(n)' = g
         /\ \A d \in Calls : d # n => Call(d)' = Call(d)
<1>1. stack \in Seq(Frame) /\ Calls = 1 .. Len(stack)
  BY CallFacts DEF Typed
<1>2. /\ stack' \in Seq(Frame) /\ Len(stack') = Len(stack) /\ Len(stack) \in Nat /\ Len(stack) > 0
      /\ stack'[1] = g
      /\ \A j \in 1 .. Len(stack) : j # 1 => stack'[j] = stack[j]
  BY <1>1, TopFacts
<1>3. Calls' = Calls
  BY <1>1, <1>2 DEF Calls
<1>4. Call(n) = Head(stack)
  <2>1. Len(stack) + 1 - n = 1
    BY <1>2
  <2> QED
    BY <1>1, <1>2, <2>1 DEF Call
<1>5. Call(n)' = g
  <2>1. Len(stack') + 1 - n = 1
    BY <1>2
  <2> QED
    BY <1>2, <2>1 DEF Call
<1>6. ASSUME NEW d \in Calls, d # n PROVE Call(d)' = Call(d)
  <2>1. Len(stack) + 1 - d \in 1 .. Len(stack) /\ Len(stack) + 1 - d # 1
    BY <1>1, <1>2, <1>6
  <2> QED
    BY <1>2, <2>1 DEF Call
<1> QED
  BY <1>1, <1>2, <1>3, <1>4, <1>5, <1>6

-----------------------------------------------------------------------------
(* A step of a deletion. *)

\* No object comes or goes, and none changes but for its count.
ObjectsStay ==
  /\ DOMAIN heap' = DOMAIN heap
  /\ \A y \in DOMAIN heap : heap'[y].refs = heap[y].refs /\ heap'[y].mem = heap[y].mem
RootsStay == DOMAIN roots' = DOMAIN heap' /\ \A y \in DOMAIN heap' : roots'[y] = roots[y]

\* The elements of objects are the same, and refer to objects of the same memory.
LEMMA ElementsStay ==
  ASSUME Typed, ObjectsStay
  PROVE  /\ Elements' = Elements
         /\ \A e \in Elements : RefAt(e)' = RefAt(e) /\ heap'[e[1]].mem = heap[e[1]].mem
<1>1. Elements' = Elements
  BY DEF Elements, ObjectsStay
<1>2. \A e \in Elements : e[1] \in DOMAIN heap
  BY ElementFacts
<1> QED
  BY <1>1, <1>2 DEF ObjectsStay, RefAt

\* The parts of the invariant that only depend on what objects hold and what is
\* released keep when no more is released than is lost from InObjects.
LEMMA LiveStays ==
  ASSUME RefsInv, ObjectsStay, m'.state = m.state, stack # <<>>,
         \A e \in Elements : ~Released(e[1], e[2])' => ~Released(e[1], e[2])
  PROVE  ElementsLive' /\ StdRefs' /\ TryRefs' /\ NormalStd'
<1>1. Typed /\ ElementsLive /\ StdRefs /\ TryRefs /\ NormalStd
  BY DEF RefsInv
<1>2. Elements' = Elements /\ \A e \in Elements : RefAt(e)' = RefAt(e) /\ heap'[e[1]].mem = heap[e[1]].mem
  BY <1>1, ElementsStay
<1>3. ElementsLive'
  BY <1>1, <1>2 DEF ElementsLive, ObjectsStay
<1>4. StdRefs'
  BY <1>1, <1>2 DEF ElementsLive, StdRefs, ObjectsStay
<1>5. TryRefs'
  BY <1>1, <1>2 DEF TryRefs, Running, ObjectsStay
<1>6. NormalStd'
  BY <1>1 DEF NormalStd, ObjectsStay
<1> QED
  BY <1>3, <1>4, <1>5, <1>6

\* delete_obj goes on to the oldest object of its ring.
LEMMA NextObjKeeps ==
  ASSUME RefsInv, stack # <<>>, Head(stack).obj = NULL, Head(stack).queue_size > 0,
         m'.state = m.state, heap' = heap, RootsStay, stack' = NextObj(m, heap, stack).stack
  PROVE  RefsInv'
<1>0. PICK n : n = Len(stack)
  OBVIOUS
<1> DEFINE f == Head(stack)
           p == f.queue_start
           x == f.queue[p]
           g == [f EXCEPT !.obj = f.queue[f.queue_start], !.queue[f.queue_start] = NULL,
                          !.queue_size = @ - 1, !.queue_start = (@ + 1) % MAX_QUEUE_SIZE]
<1>1. Typed /\ CallsSound /\ Counted
  BY DEF RefsInv
<1>2. f \in Frame /\ f = Call(n) /\ n \in Calls /\ f.obj = NULL /\ f.i = 0
  <2>1. stack \in Seq(Frame) /\ Calls = 1 .. Len(stack) /\ Len(stack) \in Nat
    BY <1>1, CallFacts DEF Typed
  <2>2. Len(stack) + 1 - n = 1 /\ Head(stack) = stack[1] /\ n \in 1 .. Len(stack)
    BY <1>0, <2>1
  <2>3. f = Call(n) /\ n \in Calls /\ f \in Frame
    BY <2>1, <2>2 DEF Call
  <2> HIDE DEF f
  <2>4. f.obj = NULL
    BY DEF f
  <2> QED
    BY <2>3, <2>4, <1>1 DEF CallsSound
<1>3. stack' = Top(stack, g)
  BY DEF NextObj, To
<1> HIDE DEF f
<1>4. /\ p \in 0 .. MAX_QUEUE_SIZE - 1 /\ f.queue_size \in 1 .. MAX_QUEUE_SIZE
      /\ f.queue \in [0 .. MAX_QUEUE_SIZE - 1 -> Block \cup {NULL}]
      /\ MAX_QUEUE_SIZE \in Nat /\ MAX_QUEUE_SIZE > 0
  BY <1>2, QueueAssumption DEF Frame, f
<1>5. /\ g \in Frame /\ g.obj = x /\ g.i = 0 /\ g.queue_size = f.queue_size - 1
      /\ g.queue_start = (IF p + 1 = MAX_QUEUE_SIZE THEN 0 ELSE p + 1)
      /\ g.queue = [f.queue EXCEPT ![p] = NULL]
  <2>1. /\ (p + 1) % MAX_QUEUE_SIZE = (IF p + 1 = MAX_QUEUE_SIZE THEN 0 ELSE p + 1)
        /\ (p + 1) % MAX_QUEUE_SIZE \in 0 .. MAX_QUEUE_SIZE - 1
    BY <1>4, Advance
  <2>2. x \in Block \cup {NULL} /\ [f.queue EXCEPT ![p] = NULL] \in [0 .. MAX_QUEUE_SIZE - 1 -> Block \cup {NULL}]
    BY <1>4
  <2>3. f.queue_size - 1 \in 0 .. MAX_QUEUE_SIZE
    BY <1>4
  <2>4. /\ g.obj = x /\ g.i = 0 /\ g.queue_size = f.queue_size - 1
        /\ g.queue_start = (p + 1) % MAX_QUEUE_SIZE
        /\ g.queue = [f.queue EXCEPT ![p] = NULL]
    BY <1>2 DEF Frame
  <2>5. g \in Frame
    BY <1>2, <1>4, <2>1, <2>2, <2>3 DEF Frame
  <2> QED
    BY <2>1, <2>4, <2>5
<1> HIDE DEF g
<1>6. p \in Places(f) /\ Places(g) = Places(f) \ {p}
  <2>1. /\ Places(f) \subseteq 0 .. MAX_QUEUE_SIZE - 1
        /\ \A q \in 0 .. MAX_QUEUE_SIZE - 1 :
              q \in Places(f) <=> \/ p <= q /\ q < p + f.queue_size
                                  \/ q + MAX_QUEUE_SIZE < p + f.queue_size
    BY <1>2, PlacesAre
  <2>2. /\ Places(g) \subseteq 0 .. MAX_QUEUE_SIZE - 1
        /\ \A q \in 0 .. MAX_QUEUE_SIZE - 1 :
              q \in Places(g) <=> \/ g.queue_start <= q /\ q < g.queue_start + g.queue_size
                                  \/ q + MAX_QUEUE_SIZE < g.queue_start + g.queue_size
    BY <1>5, PlacesAre
  <2>3. \A q \in 0 .. MAX_QUEUE_SIZE - 1 : q \in Places(g) <=> q \in Places(f) /\ q # p
    BY <2>1, <2>2, <1>4, <1>5
  <2> QED
    BY <2>1, <2>2, <2>3, <1>4
<1>7. Pending(x) /\ x \in DOMAIN heap
  BY <1>1, <1>2, <1>6 DEF CallsSound, Pending
<1>8. x # NULL /\ \A y \in DOMAIN heap : y # NULL
  BY <1>1, <1>7, ObjectFacts
<1>9. /\ stack' \in Seq(Frame) /\ Calls' = Calls /\ Call(n)' = g
      /\ \A d \in Calls : d # n => Call(d)' = Call(d)
  BY <1>0, <1>1, <1>3, <1>5, TopNext
<1>10. ObjectsStay
  BY DEF ObjectsStay
<1>11. \A y : Pending(y)' <=> Pending(y)
  BY DEF Pending, CurrMemory
<1>12. Typed'
  BY <1>1, <1>9 DEF Typed, RootsStay
<1>13. CallsSound'
  <2> SUFFICES ASSUME NEW d \in Calls
               PROVE  /\ Call(d)'.obj = NULL => Call(d)'.i = 0
                      /\ Call(d)'.obj # NULL => Pending(Call(d)'.obj) /\ Call(d)'.i <= Len(heap[Call(d)'.obj].refs)
                      /\ \A q \in Places(Call(d)') : Pending(Call(d)'.queue[q])
    BY <1>9, <1>11 DEF CallsSound
  <2>1. CASE d = n
    <3>1. 0 <= Len(heap[x].refs)
      BY <1>1, <1>7, ObjectFacts
    <3>2. \A q \in Places(g) : g.queue[q] = f.queue[q] /\ q \in Places(f)
      <4>1. Places(g) \subseteq 0 .. MAX_QUEUE_SIZE - 1
        BY <1>5, PlacesAre
      <4> QED
        BY <4>1, <1>4, <1>5, <1>6
    <3>3. \A q \in Places(f) : Pending(f.queue[q])
      BY <1>1, <1>2 DEF CallsSound
    <3>4. Call(d)' = g
      BY <2>1, <1>9
    <3>5. g.obj # NULL /\ Pending(g.obj) /\ g.i <= Len(heap[g.obj].refs)
      BY <3>1, <1>5, <1>7, <1>8
    <3>6. \A q \in Places(g) : Pending(g.queue[q])
      BY <3>2, <3>3
    <3> QED
      BY <3>4, <3>5, <3>6
  <2>2. CASE d # n
    BY <2>2, <1>1, <1>9 DEF CallsSound
  <2> QED
    BY <2>1, <2>2
<1>14. \A y, k : k \in Nat /\ k > 0 => (Released(y, k)' <=> Released(y, k))
  <2> TAKE y, k
  <2> HAVE k \in Nat /\ k > 0
  <2>1. ASSUME NEW d \in Calls
        PROVE  (Call(d).obj = y /\ k <= Call(d).i) <=> (Call(d)'.obj = y /\ k <= Call(d)'.i)
    <3>1. CASE d = n
      <4>1. Call(d) = f /\ Call(d)' = g /\ ~(k <= f.i) /\ ~(k <= g.i)
        BY <3>1, <1>2, <1>5, <1>9
      <4> QED
        BY <4>1
    <3>2. CASE d # n
      BY <3>2, <1>9
    <3> QED
      BY <3>1, <3>2
  <2> QED
    BY <2>1, <1>9 DEF Released
<1>15. \A e \in Elements : Released(e[1], e[2])' <=> Released(e[1], e[2])
  <2>1. \A e \in Elements : e[2] \in Nat /\ e[2] > 0
    BY <1>1, ElementFacts, ObjectFacts
  <2> QED
    BY <2>1, <1>14
<1>16. Counted'
  <2>1. Elements' = Elements /\ \A e \in Elements : RefAt(e)' = RefAt(e) /\ heap'[e[1]].mem = heap[e[1]].mem
    BY <1>1, <1>10, ElementsStay
  <2> SUFFICES ASSUME NEW y \in DOMAIN heap
               PROVE  heap[y].ref_count = roots[y] + Cardinality(InObjects(y)') + Cardinality(InRings(y)') + Cardinality(InLoops(y)')
    BY DEF Counted, RootsStay
  <2>2. InObjects(y)' = InObjects(y)
    BY <2>1, <1>15 DEF InObjects
  <2>3. \A d \in Calls, q \in 0 .. MAX_QUEUE_SIZE - 1 :
          (q \in Places(Call(d)') /\ Call(d)'.queue[q] = y) <=>
          (q \in Places(Call(d)) /\ Call(d).queue[q] = y /\ ~(d = n /\ q = p))
    <3> TAKE d \in Calls, q \in 0 .. MAX_QUEUE_SIZE - 1
    <3>1. CASE d = n
      <4>1. Call(d) = f /\ Call(d)' = g
        BY <3>1, <1>2, <1>9
      <4>2. q # p => g.queue[q] = f.queue[q]
        BY <1>4, <1>5
      <4>3. (q \in Places(g) /\ g.queue[q] = y) <=> (q \in Places(f) /\ f.queue[q] = y /\ q # p)
        BY <4>2, <1>6
      <4> QED
        BY <3>1, <4>1, <4>3
    <3>2. CASE d # n
      BY <3>2, <1>9
    <3> QED
      BY <3>1, <3>2
  <2>4. InRings(y)' = InRings(y) \ {<<n, p>>}
    BY <2>3, <1>9 DEF InRings
  <2>5. InLoops(y)' = IF y = x THEN InLoops(y) \cup {n} ELSE InLoops(y)
    <3>1. \A d \in Calls : Call(d)'.obj = y <=> Call(d).obj = y \/ (d = n /\ y = x)
      <4> TAKE d \in Calls
      <4>1. CASE d = n
        <5>1. Call(d) = f /\ Call(d)' = g /\ y # NULL
          BY <4>1, <1>2, <1>8, <1>9
        <5> QED
          BY <4>1, <5>1, <1>2, <1>5
      <4>2. CASE d # n
        BY <4>2, <1>9
      <4> QED
        BY <4>1, <4>2
    <3> QED
      BY <3>1, <1>2, <1>9 DEF InLoops
  <2>6. /\ IsFiniteSet(InRings(y)) /\ IsFiniteSet(InLoops(y)) /\ Cardinality(InObjects(y)) \in Nat
        /\ Cardinality(InRings(y)) \in Nat /\ Cardinality(InLoops(y)) \in Nat
        /\ roots[y] \in Nat
    BY <1>1, CountedFinite, ObjectFacts
  <2>7. heap[y].ref_count = roots[y] + Cardinality(InObjects(y)) + Cardinality(InRings(y)) + Cardinality(InLoops(y))
    BY <1>1 DEF Counted
  <2>8. CASE y = x
    <3>1. <<n, p>> \in InRings(y)
      BY <2>8, <1>2, <1>4, <1>6 DEF InRings
    <3>2. n \notin InLoops(y)
      BY <2>8, <1>2, <1>8 DEF InLoops
    <3>3. Cardinality(InRings(y)') = Cardinality(InRings(y)) - 1
      BY <2>4, <2>6, <3>1, OneLess
    <3>4. Cardinality(InLoops(y)') = Cardinality(InLoops(y)) + 1
      BY <2>5, <2>6, <2>8, <3>2, OneMore
    <3> QED
      BY <2>2, <2>6, <2>7, <3>3, <3>4
  <2>9. CASE y # x
    <3>1. <<n, p>> \notin InRings(y)
      BY <2>9, <1>2 DEF InRings
    <3>2. InRings(y)' = InRings(y)
      BY <2>4, <3>1
    <3> QED
      BY <2>2, <2>5, <2>7, <2>9, <3>2
  <2> QED
    BY <2>8, <2>9
<1>17. ElementsLive' /\ StdRefs' /\ TryRefs' /\ NormalStd'
  BY <1>10, <1>15, LiveStays
<1> QED
  BY <1>12, <1>13, <1>16, <1>17 DEF RefsInv

\* The innermost call's frame is the first of the stack.
LEMMA HeadCall ==
  ASSUME Typed, stack # <<>>, NEW n, n = Len(stack)
  PROVE  n \in Calls /\ Head(stack) \in Frame /\ Head(stack) = Call(n)
<1>1. stack \in Seq(Frame) /\ Calls = 1 .. Len(stack) /\ Len(stack) \in Nat
  BY CallFacts DEF Typed
<1>2. Len(stack) + 1 - n = 1 /\ Head(stack) = stack[1] /\ n \in 1 .. Len(stack)
  BY <1>1
<1> QED
  BY <1>1, <1>2 DEF Call

\* The call n, whose frame is f, is about to release the element x.
Releasing(n, f, x) ==
  /\ n \in Calls /\ f \in Frame /\ f = Call(n)
  /\ f.obj # NULL /\ Pending(f.obj) /\ f.i \in Nat /\ f.i + 1 <= Len(heap[f.obj].refs)
  /\ <<f.obj, f.i + 1>> \in Elements /\ ~Released(f.obj, f.i + 1)
  /\ x = RefAt(<<f.obj, f.i + 1>>) /\ x \in DOMAIN heap

\* The element that is next is one that nobody has released, of an object that
\* no other call is at, and it is live.
LEMMA NextElement ==
  ASSUME RefsInv, stack # <<>>, NEW n, n = Len(stack), NEW f, f = Head(stack), f.obj # NULL,
         f.i < Len(heap[f.obj].refs), NEW x, x = Head(Unreleased(heap, f))
  PROVE  Releasing(n, f, x)
<1>1. Typed /\ CallsSound /\ Counted /\ ElementsLive
  BY DEF RefsInv
<1>2. n \in Calls /\ f \in Frame /\ f = Call(n)
  BY <1>1, HeadCall
<1> DEFINE o == f.obj
           e == <<o, f.i + 1>>
<1>3. Pending(o) /\ o \in DOMAIN heap /\ heap[o].ref_count = 1
  BY <1>1, <1>2 DEF CallsSound, Pending
<1>4. /\ f.i \in Nat /\ Len(heap[o].refs) \in Nat /\ DOMAIN heap[o].refs = 1 .. Len(heap[o].refs)
      /\ heap[o].refs \in Seq(Block)
  BY <1>1, <1>2, <1>3, CallFacts, ObjectFacts
<1>5. f.i + 1 \in DOMAIN heap[o].refs
  BY <1>4
<1>6. e \in Elements
  BY <1>3, <1>5, ElementFacts
<1>7. x = heap[o].refs[f.i + 1]
  <2> DEFINE s == heap[o].refs
  <2>1. s \in Seq(Block) /\ f.i \in Nat /\ f.i < Len(s) /\ x = Head(SubSeq(s, f.i + 1, Len(s)))
    BY <1>4 DEF Unreleased
  <2> HIDE DEF s
  <2>2. SubSeq(s, f.i + 1, Len(s)) = [k \in 1 .. Len(s) - f.i |-> s[f.i + k]]
    BY <2>1
  <2>3. 1 \in 1 .. Len(s) - f.i
    BY <2>1
  <2>4. Head(SubSeq(s, f.i + 1, Len(s))) = SubSeq(s, f.i + 1, Len(s))[1]
    <3> DEFINE t == SubSeq(s, f.i + 1, Len(s))
    <3>1. t \in Seq(Block)
      BY <2>1, <2>2
    <3> HIDE DEF t
    <3>2. Head(t) = t[1]
      BY <3>1
    <3> QED
      BY <3>2 DEF t
  <2>5. x = s[f.i + 1]
    BY <2>1, <2>2, <2>3, <2>4
  <2> QED
    BY <2>5 DEF s
<1>8. \A d \in Calls : Call(d).obj = o => d = n
  <2>1. IsFiniteSet(InLoops(o)) /\ Cardinality(InLoops(o)) \in Nat
    BY <1>1, CountedFinite
  <2>2. 1 = roots[o] + Cardinality(InObjects(o)) + Cardinality(InRings(o)) + Cardinality(InLoops(o))
    BY <1>1, <1>3 DEF Counted
  <2>3. roots[o] \in Nat /\ Cardinality(InObjects(o)) \in Nat /\ Cardinality(InRings(o)) \in Nat
    BY <1>1, <1>3, CountedFinite, ObjectFacts
  <2>4. n \in InLoops(o)
    BY <1>2 DEF InLoops
  <2>5. Cardinality(InLoops(o)) # 0
    BY <2>1, <2>4, FS_EmptySet
  <2>6. Cardinality(InLoops(o)) = 1
    BY <2>1, <2>2, <2>3, <2>5
  <2>7. PICK z : InLoops(o) = {z}
    BY <2>1, <2>6, FS_Singleton
  <2> QED
    BY <2>4, <2>7 DEF InLoops
<1>9. ~Released(o, f.i + 1)
  BY <1>2, <1>4, <1>8 DEF Released
<1>10. RefAt(e) = x
  BY <1>7 DEF RefAt
<1>11. x \in DOMAIN heap
  <2>1. e[1] = o /\ e[2] = f.i + 1
    OBVIOUS
  <2>2. RefAt(e) \in DOMAIN heap
    BY <1>1, <1>6, <1>9, <2>1 DEF ElementsLive
  <2> QED
    BY <1>10, <2>2
<1> QED
  BY <1>2, <1>3, <1>4, <1>6, <1>9, <1>10, <1>11 DEF Releasing

\* The frame of the call n is now g, and calls that begin are at no object.
CallsNext(n, g) ==
  /\ Calls \subseteq Calls' /\ Call(n)' = g
  /\ \A d \in Calls : d # n => Call(d)' = Call(d)
  /\ \A d \in Calls' \ Calls : Call(d)'.obj = NULL

\* The element after the first f.i of the frame's object is counted no more.
OneReleased(f, x) ==
  /\ \A y \in DOMAIN heap : InLoops(y)' = InLoops(y)
  /\ \A y \in DOMAIN heap :
       /\ y = x /\ heap[x].mem = CurrMemory =>
            /\ <<f.obj, f.i + 1>> \in InObjects(y)
            /\ InObjects(y)' = InObjects(y) \ {<<f.obj, f.i + 1>>}
       /\ ~(y = x /\ heap[x].mem = CurrMemory) => InObjects(y)' = InObjects(y)

\* Releasing an element, whatever becomes of what it refers to: it is not
\* counted any more, if it was, and nothing else changes but for the rings.
LEMMA ReleaseOne ==
  ASSUME RefsInv, stack # <<>>, NEW n, NEW f, NEW x, Releasing(n, f, x), ObjectsStay, m'.state = m.state,
         NEW g, g.obj = f.obj, g.i = f.i + 1, CallsNext(n, g)
  PROVE  ElementsLive' /\ StdRefs' /\ TryRefs' /\ NormalStd' /\ OneReleased(f, x)
<1> USE DEF CallsNext
<1>1. Typed /\ CallsSound
  BY DEF RefsInv
<1>2. /\ n \in Calls /\ f \in Frame /\ f = Call(n)
      /\ f.obj # NULL /\ Pending(f.obj) /\ f.i \in Nat
      /\ <<f.obj, f.i + 1>> \in Elements /\ ~Released(f.obj, f.i + 1)
      /\ x = RefAt(<<f.obj, f.i + 1>>) /\ x \in DOMAIN heap
  BY DEF Releasing
<1> DEFINE e0 == <<f.obj, f.i + 1>>
<1>3. ASSUME NEW e \in Elements
      PROVE  Released(e[1], e[2])' <=> Released(e[1], e[2]) \/ e = e0
  <2>1. e = <<e[1], e[2]>> /\ e[1] \in DOMAIN heap /\ e[2] \in DOMAIN heap[e[1]].refs
    BY ElementFacts
  <2>2. e[1] # NULL /\ e[2] \in Nat
    BY <1>1, <2>1, ObjectFacts
  <2>3. e = e0 <=> e[1] = f.obj /\ e[2] = f.i + 1
    BY <2>1
  <2>4. ASSUME NEW d \in Calls
        PROVE  (Call(d)'.obj = e[1] /\ e[2] <= Call(d)'.i) <=>
               ((Call(d).obj = e[1] /\ e[2] <= Call(d).i) \/ (d = n /\ e = e0))
    <3>1. CASE d = n
      <4>1. Call(d) = f /\ Call(d)' = g
        BY <3>1, <1>2
      <4>2. e[2] <= f.i + 1 <=> (e[2] <= f.i \/ e[2] = f.i + 1)
        BY <1>2, <2>2
      <4> QED
        BY <3>1, <4>1, <4>2, <2>3
    <3>2. CASE d # n
      BY <3>2
    <3> QED
      BY <3>1, <3>2
  <2>5. ASSUME NEW d \in Calls' \ Calls PROVE ~(Call(d)'.obj = e[1])
    BY <2>2
  <2>6. \A d \in Calls' : d \in Calls \/ d \in Calls' \ Calls
    OBVIOUS
  <2> QED
    BY <1>2, <2>4, <2>5, <2>6 DEF Released
<1>4. ElementsLive' /\ StdRefs' /\ TryRefs' /\ NormalStd'
  BY <1>3, LiveStays
<1>5. ASSUME NEW y \in DOMAIN heap PROVE InLoops(y)' = InLoops(y)
  <2>1. y # NULL
    BY <1>1, ObjectFacts
  <2>2. \A d \in Calls : Call(d)'.obj = Call(d).obj
    BY <1>2
  <2>3. \A d \in Calls' : Call(d)'.obj = y => d \in Calls
    BY <2>1
  <2> QED
    BY <2>2, <2>3 DEF InLoops
<1>6. Elements' = Elements /\ \A e \in Elements : RefAt(e)' = RefAt(e) /\ heap'[e[1]].mem = heap[e[1]].mem
  BY <1>1, ElementsStay
<1>7. e0[1] = f.obj /\ e0[2] = f.i + 1 /\ heap[f.obj].mem = CurrMemory
  BY <1>2 DEF Pending
<1>8. ASSUME NEW y \in DOMAIN heap
      PROVE  /\ InObjects(y)' = InObjects(y) \ {e0}
             /\ e0 \in InObjects(y) <=> y = x /\ heap[x].mem = CurrMemory
  <2>1. \A e \in Elements :
          /\ e \in InObjects(y) <=> heap[e[1]].mem = heap[y].mem /\ RefAt(e) = y /\ ~Released(e[1], e[2])
          /\ e \in InObjects(y)' <=> heap[e[1]].mem = heap[y].mem /\ RefAt(e) = y /\ ~Released(e[1], e[2])'
    BY <1>6 DEF InObjects, RefAt, ObjectsStay
  <2>2. InObjects(y) \subseteq Elements /\ InObjects(y)' \subseteq Elements
    BY <1>6 DEF InObjects
  <2>3. InObjects(y)' = InObjects(y) \ {e0}
    BY <1>3, <2>1, <2>2
  <2>4. e0 \in InObjects(y) <=> heap[f.obj].mem = heap[y].mem /\ x = y
    BY <1>2, <1>7, <2>1
  <2> QED
    BY <1>7, <2>3, <2>4
<1>9. ASSUME NEW y \in DOMAIN heap
      PROVE  /\ y = x /\ heap[x].mem = CurrMemory => e0 \in InObjects(y) /\ InObjects(y)' = InObjects(y) \ {e0}
             /\ ~(y = x /\ heap[x].mem = CurrMemory) => InObjects(y)' = InObjects(y)
  BY <1>8
<1> QED
  BY <1>4, <1>5, <1>9 DEF OneReleased

\* What the steps of delete_obj that release an element do to the heap.
ReleasedIn(x) ==
  /\ ObjectsStay /\ RootsStay /\ m'.state = m.state
  /\ \A y \in DOMAIN heap :
       /\ heap'[y] \in Object
       /\ y # x \/ heap[x].mem # CurrMemory \/ heap[x].ref_count = 1 => heap'[y].ref_count = heap[y].ref_count
       /\ y = x /\ heap[x].mem = CurrMemory /\ heap[x].ref_count > 1 => heap'[y].ref_count = heap[y].ref_count - 1

\* The count of an object that is released.
LEMMA CountGoesDown ==
  ASSUME Typed, NEW x \in DOMAIN heap, RootsStay, m'.state = m.state,
         \/ (heap' = heap /\ heap[x].mem # CurrMemory)
         \/ (heap' = [heap EXCEPT ![x].ref_count = Decremented(heap, x)] /\ heap[x].mem = CurrMemory)
  PROVE  ReleasedIn(x)
<1>1. CASE heap' = heap /\ heap[x].mem # CurrMemory
  BY <1>1, ObjectFacts DEF ReleasedIn, ObjectsStay
<1>2. CASE heap' = [heap EXCEPT ![x].ref_count = Decremented(heap, x)] /\ heap[x].mem = CurrMemory
  <2> DEFINE c == Decremented(heap, x)
  <2>1. /\ heap[x].ref_count \in Nat /\ heap[x].ref_count > 0 /\ c \in Nat \ {0}
        /\ heap[x].ref_count = 1 => c = 1
        /\ heap[x].ref_count > 1 => c = heap[x].ref_count - 1
    BY ObjectFacts DEF Decremented
  <2> HIDE DEF c
  <2>2. heap' = [heap EXCEPT ![x].ref_count = c] /\ \A y \in DOMAIN heap : heap[y] \in Object
    BY <1>2, ObjectFacts DEF c
  <2>3. /\ DOMAIN heap' = DOMAIN heap
        /\ \A y \in DOMAIN heap : y # x => heap'[y] = heap[y]
        /\ heap'[x] = [heap[x] EXCEPT !.ref_count = c]
    BY <2>2
  <2>4. /\ heap'[x] \in Object /\ heap'[x].refs = heap[x].refs /\ heap'[x].mem = heap[x].mem
        /\ heap'[x].ref_count = c
    BY <2>1, <2>2, <2>3 DEF Object
  <2>5. ObjectsStay
    BY <2>3, <2>4 DEF ObjectsStay
  <2> QED
    BY <1>2, <2>1, <2>2, <2>3, <2>4, <2>5 DEF ReleasedIn
<1> QED
  BY <1>1, <1>2

\* An object that waits is not the one whose count goes down.
LEMMA PendingStays ==
  ASSUME Typed, NEW x, ReleasedIn(x)
  PROVE  \A y : Pending(y) => Pending(y)'
<1> TAKE y
<1> HAVE Pending(y)
<1>1. y \in DOMAIN heap /\ heap[y].ref_count = 1 /\ heap[y].mem = CurrMemory
  BY DEF Pending
<1>2. CurrMemory' = CurrMemory
  BY DEF ReleasedIn, CurrMemory
<1>3. heap'[y].mem = heap[y].mem /\ y \in DOMAIN heap'
  BY <1>1 DEF ReleasedIn, ObjectsStay
<1>4. heap'[y].ref_count = 1
  <2>1. y # x \/ heap[x].mem # CurrMemory \/ heap[x].ref_count = 1
    BY <1>1
  <2> QED
    BY <1>1, <2>1 DEF ReleasedIn
<1> QED
  BY <1>1, <1>2, <1>3, <1>4 DEF Pending

\* The element is passed: it has other references or is not counted here.
LEMMA PassKeeps ==
  ASSUME RefsInv, stack # <<>>, NEW n, n = Len(stack), NEW f, NEW x, Releasing(n, f, x), ReleasedIn(x),
         heap[x].mem = CurrMemory => heap[x].ref_count > 1,
         NEW g, g = [f EXCEPT !.i = @ + 1], stack' = Top(stack, g)
  PROVE  RefsInv'
<1>1. Typed /\ CallsSound /\ Counted
  BY DEF RefsInv
<1>2. /\ n \in Calls /\ f \in Frame /\ f = Call(n)
      /\ f.obj # NULL /\ Pending(f.obj) /\ f.i \in Nat /\ f.i + 1 <= Len(heap[f.obj].refs) /\ x \in DOMAIN heap
  BY DEF Releasing
<1>3. g \in Frame /\ g.obj = f.obj /\ g.i = f.i + 1 /\ g.queue = f.queue /\ Places(g) = Places(f)
  <2>1. g \in Frame /\ g.obj = f.obj /\ g.i = f.i + 1 /\ g.queue = f.queue
        /\ g.queue_start = f.queue_start /\ g.queue_size = f.queue_size
    BY <1>2 DEF Frame
  <2> QED
    BY <2>1 DEF Places
<1>4. /\ stack' \in Seq(Frame) /\ Calls' = Calls /\ Call(n)' = g
      /\ \A d \in Calls : d # n => Call(d)' = Call(d)
  BY <1>1, <1>3, TopNext
<1>5. ObjectsStay /\ RootsStay /\ m'.state = m.state
  BY DEF ReleasedIn
<1>6. /\ ElementsLive' /\ StdRefs' /\ TryRefs' /\ NormalStd'
      /\ OneReleased(f, x)
  <2>1. CallsNext(n, g)
    BY <1>4 DEF CallsNext
  <2> QED
    BY <2>1, <1>3, <1>5, ReleaseOne
<1>7. \A y : InRings(y)' = InRings(y)
  <2> TAKE y
  <2>1. \A d \in Calls : Places(Call(d)') = Places(Call(d)) /\ Call(d)'.queue = Call(d).queue
    BY <1>2, <1>3, <1>4
  <2> QED
    BY <2>1, <1>4 DEF InRings
<1>8. Typed'
  BY <1>1, <1>4, <1>5 DEF Typed, ReleasedIn, ObjectsStay, RootsStay
<1>9. CallsSound'
  <2>0. \A y \in DOMAIN heap : heap'[y].refs = heap[y].refs
    BY <1>5 DEF ObjectsStay
  <2>1. \A y : Pending(y) => Pending(y)' /\ heap'[y].refs = heap[y].refs
    BY <2>0, <1>1, PendingStays DEF Pending
  <2>2. ASSUME NEW d \in Calls
        PROVE  /\ Call(d)'.obj = NULL => Call(d)'.i = 0
               /\ Call(d)'.obj # NULL => Pending(Call(d)'.obj) /\ Call(d)'.i <= Len(heap[Call(d)'.obj].refs)
               /\ \A q \in Places(Call(d)') : Pending(Call(d)'.queue[q])
    <3>1. CASE d = n
      <4>1. Call(d)' = g /\ Call(d) = f
        BY <3>1, <1>2, <1>4
      <4>2. \A q \in Places(f) : Pending(f.queue[q])
        BY <1>1, <1>2 DEF CallsSound
      <4> QED
        BY <4>1, <4>2, <1>2, <1>3
    <3>2. CASE d # n
      BY <3>2, <1>1, <1>4 DEF CallsSound
    <3> QED
      BY <3>1, <3>2
  <2> QED
    BY <2>1, <2>2, <1>4 DEF CallsSound
<1>10. Counted'
  <2> SUFFICES ASSUME NEW y \in DOMAIN heap
               PROVE  heap'[y].ref_count = roots[y] + Cardinality(InObjects(y)') + Cardinality(InRings(y)') + Cardinality(InLoops(y)')
    BY <1>5 DEF Counted, RootsStay, ObjectsStay
  <2>1. /\ IsFiniteSet(InObjects(y)) /\ Cardinality(InObjects(y)) \in Nat
        /\ Cardinality(InRings(y)) \in Nat /\ Cardinality(InLoops(y)) \in Nat
        /\ roots[y] \in Nat /\ heap[y].ref_count \in Nat
    BY <1>1, CountedFinite, ObjectFacts
  <2>2. heap[y].ref_count = roots[y] + Cardinality(InObjects(y)) + Cardinality(InRings(y)) + Cardinality(InLoops(y))
    BY <1>1 DEF Counted
  <2>3. CASE y = x /\ heap[x].mem = CurrMemory
    <3>1. Cardinality(InObjects(y)') = Cardinality(InObjects(y)) - 1
      BY <1>6, <2>1, <2>3, OneLess DEF OneReleased
    <3>2. heap'[y].ref_count = heap[y].ref_count - 1
      BY <2>3 DEF ReleasedIn
    <3> QED
      BY <1>6, <1>7, <2>1, <2>2, <3>1, <3>2 DEF OneReleased
  <2>4. CASE ~(y = x /\ heap[x].mem = CurrMemory)
    <3>1. heap'[y].ref_count = heap[y].ref_count
      BY <2>4 DEF ReleasedIn
    <3> QED
      BY <1>6, <1>7, <2>2, <2>4, <3>1 DEF OneReleased
  <2> QED
    BY <2>3, <2>4
<1> QED
  BY <1>6, <1>8, <1>9, <1>10 DEF RefsInv

\* The frame when its loop has passed an element.
Passed(f) == [f EXCEPT !.i = @ + 1]

\* An object queued takes the place after the last.
LEMMA QueuedFrame ==
  ASSUME NEW f \in Frame, f.queue_size < MAX_QUEUE_SIZE, NEW x \in Block,
         NEW g, g = Queued(Passed(f), x)
  PROVE  /\ g \in Frame /\ g.obj = f.obj /\ g.i = f.i + 1
         /\ \E q \in 0 .. MAX_QUEUE_SIZE - 1 :
              q \notin Places(f) /\ Places(g) = Places(f) \cup {q} /\ g.queue = [f.queue EXCEPT ![q] = x]
<1> DEFINE s == f.queue_start
           q == (s + f.queue_size) % MAX_QUEUE_SIZE
           f1 == Passed(f)
<1>1. /\ s \in 0 .. MAX_QUEUE_SIZE - 1 /\ f.queue_size \in 0 .. MAX_QUEUE_SIZE - 1
      /\ f.queue \in [0 .. MAX_QUEUE_SIZE - 1 -> Block \cup {NULL}]
      /\ f.obj \in Block \cup {NULL} /\ f.i \in Nat
      /\ MAX_QUEUE_SIZE \in Nat /\ MAX_QUEUE_SIZE > 0
  BY QueueAssumption DEF Frame
<1>2. q = IF s + f.queue_size < MAX_QUEUE_SIZE THEN s + f.queue_size ELSE s + f.queue_size - MAX_QUEUE_SIZE
  <2>1. s \in 0 .. MAX_QUEUE_SIZE - 1 /\ f.queue_size \in 0 .. MAX_QUEUE_SIZE
    BY <1>1
  <2> HIDE DEF s
  <2> QED
    BY <2>1, WrapPlace
<1> HIDE DEF q
<1>3. q \in 0 .. MAX_QUEUE_SIZE - 1
  BY <1>1, <1>2
<1>4. /\ f1 \in Frame /\ f1.obj = f.obj /\ f1.i = f.i + 1 /\ f1.queue = f.queue
      /\ f1.queue_start = s /\ f1.queue_size = f.queue_size
  BY <1>1 DEF Frame, Passed
<1> HIDE DEF f1
<1>5. g = [f1 EXCEPT !.queue[q] = x, !.queue_size = @ + 1]
  BY <1>4 DEF Queued, q, f1
<1>6. /\ g.obj = f.obj /\ g.i = f.i + 1 /\ g.queue = [f.queue EXCEPT ![q] = x]
      /\ g.queue_start = s /\ g.queue_size = f.queue_size + 1
  BY <1>4, <1>5 DEF Frame
<1>7. g \in Frame
  <2>1. [f.queue EXCEPT ![q] = x] \in [0 .. MAX_QUEUE_SIZE - 1 -> Block \cup {NULL}]
    BY <1>1, <1>3
  <2>2. f.queue_size + 1 \in 0 .. MAX_QUEUE_SIZE
    BY <1>1
  <2> QED
    BY <1>1, <1>4, <1>5, <2>1, <2>2 DEF Frame
<1>8. q \notin Places(f) /\ Places(g) = Places(f) \cup {q}
  <2>1. /\ Places(f) \subseteq 0 .. MAX_QUEUE_SIZE - 1
        /\ \A p \in 0 .. MAX_QUEUE_SIZE - 1 :
              p \in Places(f) <=> \/ s <= p /\ p < s + f.queue_size
                                  \/ p + MAX_QUEUE_SIZE < s + f.queue_size
    BY PlacesAre
  <2>2. /\ Places(g) \subseteq 0 .. MAX_QUEUE_SIZE - 1
        /\ \A p \in 0 .. MAX_QUEUE_SIZE - 1 :
              p \in Places(g) <=> \/ s <= p /\ p < s + (f.queue_size + 1)
                                  \/ p + MAX_QUEUE_SIZE < s + (f.queue_size + 1)
    BY <1>6, <1>7, PlacesAre
  <2> HIDE DEF s
  <2>3. ASSUME NEW p \in 0 .. MAX_QUEUE_SIZE - 1
        PROVE  p \in Places(g) <=> p \in Places(f) \/ p = q
    <3> DEFINE k == f.queue_size
    <3>1. s \in Nat /\ k \in Nat /\ p \in Nat /\ MAX_QUEUE_SIZE \in Nat /\ s < MAX_QUEUE_SIZE /\ p < MAX_QUEUE_SIZE
          /\ k < MAX_QUEUE_SIZE
      BY <1>1
    <3>2. p \in Places(f) <=> (s <= p /\ p < s + k) \/ p + MAX_QUEUE_SIZE < s + k
      BY <2>1
    <3>3. p \in Places(g) <=> (s <= p /\ p < s + (k + 1)) \/ p + MAX_QUEUE_SIZE < s + (k + 1)
      BY <2>2
    <3>4. q = IF s + k < MAX_QUEUE_SIZE THEN s + k ELSE s + k - MAX_QUEUE_SIZE
      BY <1>2
    <3> HIDE DEF k
    <3>5. CASE s + k < MAX_QUEUE_SIZE
      BY <3>1, <3>2, <3>3, <3>4, <3>5
    <3>6. CASE ~(s + k < MAX_QUEUE_SIZE)
      BY <3>1, <3>2, <3>3, <3>4, <3>6
    <3> QED
      BY <3>5, <3>6
  <2>4. q \notin Places(f)
    BY <2>1, <1>1, <1>2, <1>3
  <2> QED
    BY <2>1, <2>2, <2>3, <2>4, <1>3
<1> QED
  BY <1>3, <1>6, <1>7, <1>8

\* The element is the last reference to what it refers to, which is queued.
LEMMA QueueKeeps ==
  ASSUME RefsInv, stack # <<>>, NEW n, n = Len(stack), NEW f, NEW x, Releasing(n, f, x), ReleasedIn(x),
         heap[x].mem = CurrMemory, heap[x].ref_count = 1, f.queue_size < MAX_QUEUE_SIZE,
         NEW g, g = Queued(Passed(f), x), stack' = Top(stack, g)
  PROVE  RefsInv'
<1>1. Typed /\ CallsSound /\ Counted
  BY DEF RefsInv
<1>2. /\ n \in Calls /\ f \in Frame /\ f = Call(n)
      /\ f.obj # NULL /\ Pending(f.obj) /\ f.i \in Nat /\ f.i + 1 <= Len(heap[f.obj].refs) /\ x \in DOMAIN heap
  BY DEF Releasing
<1>3. x \in Block
  BY <1>1, <1>2, ObjectFacts
<1>4. g \in Frame /\ g.obj = f.obj /\ g.i = f.i + 1
  BY <1>2, <1>3, QueuedFrame
<1>5. PICK q \in 0 .. MAX_QUEUE_SIZE - 1 :
        q \notin Places(f) /\ Places(g) = Places(f) \cup {q} /\ g.queue = [f.queue EXCEPT ![q] = x]
  BY <1>2, <1>3, QueuedFrame
<1>6. /\ stack' \in Seq(Frame) /\ Calls' = Calls /\ Call(n)' = g
      /\ \A d \in Calls : d # n => Call(d)' = Call(d)
  BY <1>1, <1>4, TopNext
<1>7. ObjectsStay /\ RootsStay /\ m'.state = m.state
  BY DEF ReleasedIn
<1>8. ElementsLive' /\ StdRefs' /\ TryRefs' /\ NormalStd' /\ OneReleased(f, x)
  <2>1. CallsNext(n, g)
    BY <1>6 DEF CallsNext
  <2> QED
    BY <2>1, <1>4, <1>7, ReleaseOne
<1>9. f.queue \in [0 .. MAX_QUEUE_SIZE - 1 -> Block \cup {NULL}] /\ Places(f) \subseteq 0 .. MAX_QUEUE_SIZE - 1
  BY <1>2, PlacesAre DEF Frame
<1>10. g.queue[q] = x /\ \A p \in 0 .. MAX_QUEUE_SIZE - 1 : p # q => g.queue[p] = f.queue[p]
  BY <1>5, <1>9
<1>11. Typed'
  BY <1>1, <1>6, <1>7 DEF Typed, ReleasedIn, ObjectsStay, RootsStay
<1>12. CallsSound'
  <2>0. \A y \in DOMAIN heap : heap'[y].refs = heap[y].refs
    BY <1>7 DEF ObjectsStay
  <2>1. \A y : Pending(y) => Pending(y)' /\ heap'[y].refs = heap[y].refs
    BY <2>0, <1>1, PendingStays DEF Pending
  <2>2. ASSUME NEW d \in Calls
        PROVE  /\ Call(d)'.obj = NULL => Call(d)'.i = 0
               /\ Call(d)'.obj # NULL => Pending(Call(d)'.obj) /\ Call(d)'.i <= Len(heap[Call(d)'.obj].refs)
               /\ \A p \in Places(Call(d)') : Pending(Call(d)'.queue[p])
    <3>1. CASE d = n
      <4>1. Call(d)' = g /\ Call(d) = f
        BY <3>1, <1>2, <1>6
      <4>2. \A p \in Places(f) : Pending(f.queue[p])
        BY <1>1, <1>2 DEF CallsSound
      <4>3. Pending(x)
        BY <1>2 DEF Pending
      <4>4. \A p \in Places(g) : Pending(g.queue[p])
        BY <4>2, <4>3, <1>5, <1>9, <1>10
      <4> QED
        BY <4>1, <4>4, <1>2, <1>4
    <3>2. CASE d # n
      BY <3>2, <1>1, <1>6 DEF CallsSound
    <3> QED
      BY <3>1, <3>2
  <2> QED
    BY <2>1, <2>2, <1>6 DEF CallsSound
<1>13. Counted'
  <2> SUFFICES ASSUME NEW y \in DOMAIN heap
               PROVE  heap'[y].ref_count = roots[y] + Cardinality(InObjects(y)') + Cardinality(InRings(y)') + Cardinality(InLoops(y)')
    BY <1>7 DEF Counted, RootsStay, ObjectsStay
  <2>1. /\ IsFiniteSet(InObjects(y)) /\ Cardinality(InObjects(y)) \in Nat
        /\ IsFiniteSet(InRings(y)) /\ Cardinality(InRings(y)) \in Nat /\ Cardinality(InLoops(y)) \in Nat
        /\ roots[y] \in Nat /\ heap[y].ref_count \in Nat
    BY <1>1, CountedFinite, ObjectFacts
  <2>2. heap[y].ref_count = roots[y] + Cardinality(InObjects(y)) + Cardinality(InRings(y)) + Cardinality(InLoops(y))
    BY <1>1 DEF Counted
  <2>3. heap'[y].ref_count = heap[y].ref_count
    BY DEF ReleasedIn
  <2>4. ASSUME NEW d \in Calls, NEW p \in 0 .. MAX_QUEUE_SIZE - 1
        PROVE  (p \in Places(Call(d)') /\ Call(d)'.queue[p] = y) <=>
               ((p \in Places(Call(d)) /\ Call(d).queue[p] = y) \/ (d = n /\ p = q /\ y = x))
    <3>1. CASE d = n
      <4>1. Call(d) = f /\ Call(d)' = g
        BY <3>1, <1>2, <1>6
      <4>2. CASE p = q
        BY <3>1, <4>1, <4>2, <1>5, <1>10
      <4>3. CASE p # q
        BY <3>1, <4>1, <4>3, <1>5, <1>10
      <4> QED
        BY <4>2, <4>3
    <3>2. CASE d # n
      BY <3>2, <1>6
    <3> QED
      BY <3>1, <3>2
  <2>5. CASE y = x
    <3>1. Cardinality(InObjects(y)') = Cardinality(InObjects(y)) - 1
      BY <1>8, <2>1, <2>5, OneLess DEF OneReleased
    <3>2. InRings(y)' = InRings(y) \cup {<<n, q>>}
      BY <2>4, <2>5, <1>2, <1>6 DEF InRings
    <3>3. <<n, q>> \notin InRings(y)
      BY <1>2, <1>5 DEF InRings
    <3>4. Cardinality(InRings(y)') = Cardinality(InRings(y)) + 1
      BY <2>1, <3>2, <3>3, OneMore
    <3> QED
      BY <1>8, <2>1, <2>2, <2>3, <3>1, <3>4 DEF OneReleased
  <2>6. CASE y # x
    <3>1. InRings(y)' = InRings(y)
      BY <2>4, <2>6, <1>6 DEF InRings
    <3> QED
      BY <1>8, <2>2, <2>3, <2>6, <3>1 DEF OneReleased
  <2> QED
    BY <2>5, <2>6
<1> QED
  BY <1>8, <1>11, <1>12, <1>13 DEF RefsInv

\* An object takes the place of the oldest of a full ring.
LEMMA ReplacedFrame ==
  ASSUME NEW f \in Frame, f.queue_size = MAX_QUEUE_SIZE, NEW x \in Block,
         NEW g, g = Replaced(Passed(f), x), NEW p, p = f.queue_start
  PROVE  /\ g \in Frame /\ g.obj = f.obj /\ g.i = f.i + 1 /\ p \in 0 .. MAX_QUEUE_SIZE - 1
         /\ Places(f) = 0 .. MAX_QUEUE_SIZE - 1 /\ Places(g) = 0 .. MAX_QUEUE_SIZE - 1
         /\ g.queue = [f.queue EXCEPT ![p] = x]
<1> DEFINE f1 == Passed(f)
<1>1. /\ p \in 0 .. MAX_QUEUE_SIZE - 1
      /\ f.queue \in [0 .. MAX_QUEUE_SIZE - 1 -> Block \cup {NULL}]
      /\ f.obj \in Block \cup {NULL} /\ f.i \in Nat
      /\ MAX_QUEUE_SIZE \in Nat /\ MAX_QUEUE_SIZE > 0
  BY QueueAssumption DEF Frame
<1>2. (p + 1) % MAX_QUEUE_SIZE \in 0 .. MAX_QUEUE_SIZE - 1
  BY <1>1, Advance
<1>3. /\ f1 \in Frame /\ f1.obj = f.obj /\ f1.i = f.i + 1 /\ f1.queue = f.queue
      /\ f1.queue_start = p /\ f1.queue_size = f.queue_size
  BY <1>1 DEF Frame, Passed
<1> HIDE DEF f1
<1>4. g = [f1 EXCEPT !.queue[p] = x, !.queue_start = (@ + 1) % MAX_QUEUE_SIZE]
  BY <1>3 DEF Replaced, f1
<1>5. /\ g.obj = f.obj /\ g.i = f.i + 1 /\ g.queue = [f.queue EXCEPT ![p] = x]
      /\ g.queue_start = (p + 1) % MAX_QUEUE_SIZE /\ g.queue_size = f.queue_size
  BY <1>3, <1>4 DEF Frame
<1>6. g \in Frame
  <2>1. [f.queue EXCEPT ![p] = x] \in [0 .. MAX_QUEUE_SIZE - 1 -> Block \cup {NULL}]
    BY <1>1
  <2> QED
    BY <1>1, <1>2, <1>3, <1>4, <2>1 DEF Frame
<1>7. ASSUME NEW h \in Frame, h.queue_size = MAX_QUEUE_SIZE PROVE Places(h) = 0 .. MAX_QUEUE_SIZE - 1
  <2>1. /\ h.queue_start \in 0 .. MAX_QUEUE_SIZE - 1 /\ Places(h) \subseteq 0 .. MAX_QUEUE_SIZE - 1
        /\ \A q \in 0 .. MAX_QUEUE_SIZE - 1 :
             q \in Places(h) <=> \/ h.queue_start <= q /\ q < h.queue_start + h.queue_size
                                 \/ q + MAX_QUEUE_SIZE < h.queue_start + h.queue_size
    BY PlacesAre
  <2>2. ASSUME NEW q \in 0 .. MAX_QUEUE_SIZE - 1 PROVE q \in Places(h)
    <3>1. q < h.queue_start + h.queue_size
      BY <1>1, <1>7, <2>1
    <3>2. h.queue_start <= q \/ q + MAX_QUEUE_SIZE < h.queue_start + h.queue_size
      BY <1>1, <1>7, <2>1
    <3> QED
      BY <2>1, <3>1, <3>2
  <2> QED
    BY <2>1, <2>2
<1>8. g.queue_size = MAX_QUEUE_SIZE
  BY <1>5
<1> QED
  BY <1>1, <1>5, <1>6, <1>7, <1>8

\* The ring of a call that begins has one object.
LEMMA NewFrameFacts ==
  ASSUME NEW x \in Block
  PROVE  /\ NewFrame(x) \in Frame /\ NewFrame(x).obj = NULL /\ NewFrame(x).i = 0
         /\ Places(NewFrame(x)) = {0} /\ NewFrame(x).queue[0] = x /\ 0 \in 0 .. MAX_QUEUE_SIZE - 1
<1>1. MAX_QUEUE_SIZE \in Nat /\ MAX_QUEUE_SIZE > 0 /\ 0 \in 0 .. MAX_QUEUE_SIZE - 1
  BY QueueAssumption
<1> DEFINE h == NewFrame(x)
<1>2. h \in Frame /\ h.obj = NULL /\ h.i = 0 /\ h.queue[0] = x /\ h.queue_start = 0 /\ h.queue_size = 1
  BY <1>1 DEF NewFrame, Frame
<1> HIDE DEF h
<1>3. /\ Places(h) \subseteq 0 .. MAX_QUEUE_SIZE - 1
      /\ \A q \in 0 .. MAX_QUEUE_SIZE - 1 :
           q \in Places(h) <=> \/ h.queue_start <= q /\ q < h.queue_start + h.queue_size
                               \/ q + MAX_QUEUE_SIZE < h.queue_start + h.queue_size
  BY <1>2, PlacesAre
<1>4. \A q \in 0 .. MAX_QUEUE_SIZE - 1 : q \in Places(h) <=> q = 0
  BY <1>1, <1>2, <1>3
<1>5. Places(h) = {0}
  BY <1>1, <1>3, <1>4
<1> QED
  BY <1>1, <1>2, <1>5 DEF h

\* A call begins within the innermost one, whose frame changes.
LEMMA PushNext ==
  ASSUME Typed, stack # <<>>, NEW n, n = Len(stack), NEW g \in Frame, NEW h \in Frame,
         stack' = Push(Top(stack, g), h)
  PROVE  /\ stack' \in Seq(Frame)
         /\ Calls' = Calls \cup {n + 1} /\ n + 1 \notin Calls /\ n \in Calls
         /\ Call(n)' = g /\ Call(n + 1)' = h
         /\ \A d \in Calls : d # n => Call(d)' = Call(d)
<1> DEFINE s == Top(stack, g)
<1>1. stack \in Seq(Frame) /\ Calls = 1 .. Len(stack)
  BY CallFacts DEF Typed
<1>2. /\ s \in Seq(Frame) /\ Len(s) = Len(stack) /\ Len(stack) \in Nat /\ Len(stack) > 0
      /\ s[1] = g
      /\ \A j \in 1 .. Len(stack) : j # 1 => s[j] = stack[j]
  BY <1>1, TopFacts
<1> HIDE DEF s
<1>3. /\ stack' \in Seq(Frame) /\ Len(stack') = Len(s) + 1
      /\ stack'[1] = h
      /\ \A j \in 1 .. Len(s) : stack'[j + 1] = s[j]
  BY <1>2, PushFacts DEF s
<1>4. n \in Nat /\ n > 0 /\ Len(stack) = n /\ Len(s) = n /\ Len(stack') = n + 1
  BY <1>2, <1>3
<1>5. Calls' = 1 .. n + 1
  BY <1>4 DEF Calls
<1>6. Call(n)' = g
  <2>1. Len(stack') + 1 - n = 1 + 1
    BY <1>4
  <2> QED
    BY <1>2, <1>3, <1>4, <2>1 DEF Call
<1>7. Call(n + 1)' = h
  <2>1. Len(stack') + 1 - (n + 1) = 1
    BY <1>4
  <2> QED
    BY <1>3, <2>1 DEF Call
<1>8. ASSUME NEW d \in Calls, d # n PROVE Call(d)' = Call(d)
  <2>1. n + 1 - d \in 1 .. n /\ n + 1 - d # 1 /\ Len(stack') + 1 - d = (n + 1 - d) + 1
    BY <1>1, <1>4, <1>8
  <2>2. stack'[(n + 1 - d) + 1] = s[n + 1 - d]
    BY <1>3, <1>4, <2>1
  <2>3. s[n + 1 - d] = stack[n + 1 - d]
    BY <1>2, <1>4, <2>1
  <2> QED
    BY <1>4, <2>1, <2>2, <2>3 DEF Call
<1>9. Calls' = Calls \cup {n + 1} /\ n + 1 \notin Calls /\ n \in Calls
  BY <1>1, <1>4, <1>5
<1> QED
  BY <1>3, <1>6, <1>7, <1>8, <1>9

\* The ring is full: the object takes the place of the oldest, for which a call
\* begins. The two are not the same object: it would have two references left.
LEMMA ReplaceKeeps ==
  ASSUME RefsInv, stack # <<>>, NEW n, n = Len(stack), NEW f, NEW x, Releasing(n, f, x), ReleasedIn(x),
         heap[x].mem = CurrMemory, heap[x].ref_count = 1, f.queue_size = MAX_QUEUE_SIZE,
         NEW g, g = Replaced(Passed(f), x), NEW o, o = f.queue[f.queue_start],
         stack' = Push(Top(stack, g), NewFrame(o))
  PROVE  RefsInv'
<1>1. Typed /\ CallsSound /\ Counted
  BY DEF RefsInv
<1>2. /\ n \in Calls /\ f \in Frame /\ f = Call(n)
      /\ f.obj # NULL /\ Pending(f.obj) /\ f.i \in Nat /\ f.i + 1 <= Len(heap[f.obj].refs) /\ x \in DOMAIN heap
  BY DEF Releasing
<1>3. x \in Block
  BY <1>1, <1>2, ObjectFacts
<1>4. PICK p : p = f.queue_start
  OBVIOUS
<1>5. /\ g \in Frame /\ g.obj = f.obj /\ g.i = f.i + 1 /\ p \in 0 .. MAX_QUEUE_SIZE - 1
      /\ Places(f) = 0 .. MAX_QUEUE_SIZE - 1 /\ Places(g) = 0 .. MAX_QUEUE_SIZE - 1
      /\ g.queue = [f.queue EXCEPT ![p] = x]
  BY <1>2, <1>3, <1>4, ReplacedFrame
<1>6. f.queue \in [0 .. MAX_QUEUE_SIZE - 1 -> Block \cup {NULL}] /\ f.queue[p] = o
  BY <1>2, <1>4 DEF Frame
<1>7. g.queue[p] = x /\ \A q \in 0 .. MAX_QUEUE_SIZE - 1 : q # p => g.queue[q] = f.queue[q]
  BY <1>5, <1>6
<1>8. \A q \in 0 .. MAX_QUEUE_SIZE - 1 : Pending(f.queue[q])
  BY <1>1, <1>2, <1>5 DEF CallsSound
<1>9. Pending(o) /\ o \in DOMAIN heap /\ o \in Block
  BY <1>1, <1>5, <1>6, <1>8, ObjectFacts DEF Pending
<1>10. PICK h : h = NewFrame(o)
  OBVIOUS
<1>11. h \in Frame /\ h.obj = NULL /\ h.i = 0 /\ Places(h) = {0} /\ h.queue[0] = o /\ 0 \in 0 .. MAX_QUEUE_SIZE - 1
  BY <1>9, <1>10, NewFrameFacts
<1>12. /\ stack' \in Seq(Frame)
       /\ Calls' = Calls \cup {n + 1} /\ n + 1 \notin Calls
       /\ Call(n)' = g /\ Call(n + 1)' = h
       /\ \A d \in Calls : d # n => Call(d)' = Call(d)
  BY <1>1, <1>5, <1>10, <1>11, PushNext
<1>13. ObjectsStay /\ RootsStay /\ m'.state = m.state
  BY DEF ReleasedIn
<1>14. ElementsLive' /\ StdRefs' /\ TryRefs' /\ NormalStd' /\ OneReleased(f, x)
  <2>1. CallsNext(n, g)
    BY <1>11, <1>12 DEF CallsNext
  <2> QED
    BY <2>1, <1>5, <1>13, ReleaseOne
<1>15. Typed'
  BY <1>1, <1>12, <1>13 DEF Typed, ReleasedIn, ObjectsStay, RootsStay
<1>16. \A d \in Calls' : d = n + 1 \/ (d \in Calls /\ d # n + 1)
  BY <1>12
<1>17. CallsSound'
  <2>0. \A y \in DOMAIN heap : heap'[y].refs = heap[y].refs
    BY <1>13 DEF ObjectsStay
  <2>1. \A y : Pending(y) => Pending(y)' /\ heap'[y].refs = heap[y].refs
    BY <2>0, <1>1, PendingStays DEF Pending
  <2>2. ASSUME NEW d \in Calls'
        PROVE  /\ Call(d)'.obj = NULL => Call(d)'.i = 0
               /\ Call(d)'.obj # NULL => Pending(Call(d)'.obj) /\ Call(d)'.i <= Len(heap[Call(d)'.obj].refs)
               /\ \A q \in Places(Call(d)') : Pending(Call(d)'.queue[q])
    <3>1. CASE d = n
      <4>1. Call(d)' = g /\ Call(d) = f
        BY <3>1, <1>2, <1>12
      <4>2. Pending(x)
        BY <1>2 DEF Pending
      <4>3. \A q \in Places(g) : Pending(g.queue[q])
        BY <4>2, <1>5, <1>7, <1>8
      <4> QED
        BY <4>1, <4>3, <1>2, <1>5
    <3>2. CASE d = n + 1
      <4>1. Call(d)' = h
        BY <3>2, <1>12
      <4> QED
        BY <4>1, <1>9, <1>11
    <3>3. CASE d \in Calls /\ d # n
      BY <3>3, <1>1, <1>12 DEF CallsSound
    <3> QED
      BY <3>1, <3>2, <3>3, <1>16
  <2> QED
    BY <2>1, <2>2 DEF CallsSound
<1>18. x # o
  <2> SUFFICES ASSUME x = o PROVE FALSE
    OBVIOUS
  <2>1. /\ IsFiniteSet(InObjects(x)) /\ Cardinality(InObjects(x)) \in Nat
        /\ IsFiniteSet(InRings(x)) /\ Cardinality(InRings(x)) \in Nat /\ Cardinality(InLoops(x)) \in Nat
        /\ roots[x] \in Nat
    BY <1>1, <1>2, CountedFinite, ObjectFacts
  <2>2. 1 = roots[x] + Cardinality(InObjects(x)) + Cardinality(InRings(x)) + Cardinality(InLoops(x))
    BY <1>1, <1>2 DEF Counted
  <2>3. <<f.obj, f.i + 1>> \in InObjects(x)
    BY <1>2, <1>14 DEF OneReleased
  <2>4. <<n, p>> \in InRings(x)
    BY <1>2, <1>5, <1>6 DEF InRings
  <2>5. Cardinality(InObjects(x)) # 0 /\ Cardinality(InRings(x)) # 0
    BY <2>1, <2>3, <2>4, FS_EmptySet
  <2> QED
    BY <2>1, <2>2, <2>5
<1>19. Counted'
  <2> SUFFICES ASSUME NEW y \in DOMAIN heap
               PROVE  heap'[y].ref_count = roots[y] + Cardinality(InObjects(y)') + Cardinality(InRings(y)') + Cardinality(InLoops(y)')
    BY <1>13 DEF Counted, RootsStay, ObjectsStay
  <2>1. /\ IsFiniteSet(InObjects(y)) /\ Cardinality(InObjects(y)) \in Nat
        /\ IsFiniteSet(InRings(y)) /\ Cardinality(InRings(y)) \in Nat /\ Cardinality(InLoops(y)) \in Nat
        /\ roots[y] \in Nat /\ heap[y].ref_count \in Nat
    BY <1>1, CountedFinite, ObjectFacts
  <2>2. heap[y].ref_count = roots[y] + Cardinality(InObjects(y)) + Cardinality(InRings(y)) + Cardinality(InLoops(y))
    BY <1>1 DEF Counted
  <2>3. heap'[y].ref_count = heap[y].ref_count
    BY DEF ReleasedIn
  <2>4. ASSUME NEW d \in Calls', NEW q \in 0 .. MAX_QUEUE_SIZE - 1
        PROVE  (q \in Places(Call(d)') /\ Call(d)'.queue[q] = y) <=>
               \/ d \in Calls /\ q \in Places(Call(d)) /\ Call(d).queue[q] = y /\ ~(d = n /\ q = p)
               \/ d = n /\ q = p /\ y = x
               \/ d = n + 1 /\ q = 0 /\ y = o
    <3>1. CASE d = n
      <4>1. Call(d) = f /\ Call(d)' = g /\ d # n + 1 /\ d \in Calls
        BY <3>1, <1>2, <1>12
      <4>2. CASE q = p
        BY <3>1, <4>1, <4>2, <1>5, <1>7
      <4>3. CASE q # p
        BY <3>1, <4>1, <4>3, <1>5, <1>7
      <4> QED
        BY <4>2, <4>3
    <3>2. CASE d = n + 1
      <4>1. Call(d)' = h /\ d \notin Calls /\ d # n
        BY <3>2, <1>2, <1>12
      <4> QED
        BY <3>2, <4>1, <1>11
    <3>3. CASE d \in Calls /\ d # n
      <4>1. Call(d)' = Call(d) /\ d # n + 1
        BY <3>3, <1>12
      <4> QED
        BY <3>3, <4>1
    <3> QED
      BY <3>1, <3>2, <3>3, <1>16
  <2>5. InRings(y)' = {e \in Calls' \X (0 .. MAX_QUEUE_SIZE - 1) :
                         \/ e[1] \in Calls /\ e[2] \in Places(Call(e[1])) /\ Call(e[1]).queue[e[2]] = y /\ ~(e[1] = n /\ e[2] = p)
                         \/ e[1] = n /\ e[2] = p /\ y = x
                         \/ e[1] = n + 1 /\ e[2] = 0 /\ y = o}
    BY <2>4 DEF InRings
  <2>6. InRings(y) \ {<<n, p>>} = {e \in Calls \X (0 .. MAX_QUEUE_SIZE - 1) :
                         e[2] \in Places(Call(e[1])) /\ Call(e[1]).queue[e[2]] = y /\ ~(e[1] = n /\ e[2] = p)}
    BY DEF InRings
  <2>7. <<n, p>> \in InRings(y) <=> y = o
    BY <1>2, <1>5, <1>6 DEF InRings
  <2>8. CASE y = x
    <3>1. Cardinality(InObjects(y)') = Cardinality(InObjects(y)) - 1
      BY <1>2, <1>14, <2>1, <2>8, OneLess DEF OneReleased
    <3>2. InRings(y) \ {<<n, p>>} = InRings(y) /\ <<n, p>> \notin InRings(y)
      BY <2>7, <2>8, <1>18
    <3>3. InRings(y)' = (InRings(y) \ {<<n, p>>}) \cup {<<n, p>>}
      BY <2>5, <2>6, <2>8, <1>2, <1>5, <1>12, <1>18
    <3>4. Cardinality(InRings(y)') = Cardinality(InRings(y)) + 1
      BY <2>1, <3>2, <3>3, OneMore
    <3>5. InLoops(y)' = InLoops(y)
      BY <1>14 DEF OneReleased
    <3> QED
      BY <2>1, <2>2, <2>3, <3>1, <3>4, <3>5
  <2>9. CASE y = o
    <3>1. InRings(y)' = (InRings(y) \ {<<n, p>>}) \cup {<<n + 1, 0>>}
      BY <2>5, <2>6, <2>9, <1>2, <1>11, <1>12, <1>18
    <3>2. <<n + 1, 0>> \notin InRings(y) \ {<<n, p>>}
      BY <2>6, <1>12
    <3>3. IsFiniteSet(InRings(y) \ {<<n, p>>}) /\ Cardinality(InRings(y) \ {<<n, p>>}) = Cardinality(InRings(y)) - 1
      BY <2>1, <2>7, <2>9, OneLess
    <3>4. Cardinality(InRings(y)') = Cardinality(InRings(y)) - 1 + 1
      BY <3>1, <3>2, <3>3, OneMore
    <3> QED
      BY <1>14, <1>18, <2>1, <2>2, <2>3, <2>9, <3>4 DEF OneReleased
  <2>10. CASE y # x /\ y # o
    <3>1. InRings(y) \ {<<n, p>>} = InRings(y)
      BY <2>7, <2>10
    <3>2. InRings(y)' = InRings(y) \ {<<n, p>>}
      BY <2>5, <2>6, <2>10, <1>12
    <3> QED
      BY <1>14, <2>2, <2>3, <2>10, <3>1, <3>2 DEF OneReleased
  <2> QED
    BY <2>8, <2>9, <2>10
<1> QED
  BY <1>14, <1>15, <1>17, <1>19 DEF RefsInv

\* All elements of the frame's object are released: its block is.
LEMMA FreeKeeps ==
  ASSUME RefsInv, stack # <<>>, NEW n, n = Len(stack), NEW f, f = Head(stack),
         NEW o, o = f.obj, o # NULL, f.i = Len(heap[o].refs),
         m'.state = m.state, heap' = [x \in DOMAIN heap \ {o} |-> heap[x]], RootsStay,
         NEW g, g = [f EXCEPT !.obj = NULL, !.i = 0], stack' = Top(stack, g)
  PROVE  RefsInv'
<1>1. Typed /\ CallsSound /\ Counted /\ ElementsLive /\ StdRefs /\ TryRefs /\ NormalStd
  BY DEF RefsInv
<1>2. n \in Calls /\ f \in Frame /\ f = Call(n)
  BY <1>1, HeadCall
<1>3. Pending(o) /\ o \in DOMAIN heap /\ heap[o].ref_count = 1 /\ heap[o].mem = CurrMemory
  BY <1>1, <1>2 DEF CallsSound, Pending
<1>4. g \in Frame /\ g.obj = NULL /\ g.i = 0 /\ g.queue = f.queue /\ Places(g) = Places(f)
  <2>1. g \in Frame /\ g.obj = NULL /\ g.i = 0 /\ g.queue = f.queue
        /\ g.queue_start = f.queue_start /\ g.queue_size = f.queue_size
    BY <1>2 DEF Frame
  <2> QED
    BY <2>1 DEF Places
<1>5. /\ stack' \in Seq(Frame) /\ stack' # <<>> /\ Calls' = Calls /\ Call(n)' = g
      /\ \A d \in Calls : d # n => Call(d)' = Call(d)
  BY <1>1, <1>4, TopNext
<1>6. roots[o] = 0 /\ InObjects(o) = {} /\ InRings(o) = {} /\ InLoops(o) = {n}
  <2>1. /\ IsFiniteSet(InObjects(o)) /\ Cardinality(InObjects(o)) \in Nat
        /\ IsFiniteSet(InRings(o)) /\ Cardinality(InRings(o)) \in Nat
        /\ IsFiniteSet(InLoops(o)) /\ Cardinality(InLoops(o)) \in Nat
        /\ roots[o] \in Nat
    BY <1>1, <1>3, CountedFinite, ObjectFacts
  <2>2. 1 = roots[o] + Cardinality(InObjects(o)) + Cardinality(InRings(o)) + Cardinality(InLoops(o))
    BY <1>1, <1>3 DEF Counted
  <2>3. n \in InLoops(o)
    BY <1>2 DEF InLoops
  <2>4. Cardinality(InLoops(o)) # 0
    BY <2>1, <2>3, FS_EmptySet
  <2>5. roots[o] = 0 /\ Cardinality(InObjects(o)) = 0 /\ Cardinality(InRings(o)) = 0 /\ Cardinality(InLoops(o)) = 1
    BY <2>1, <2>2, <2>4
  <2>6. InObjects(o) = {} /\ InRings(o) = {}
    BY <2>1, <2>5, FS_EmptySet
  <2>7. PICK z : InLoops(o) = {z}
    BY <2>1, <2>5, FS_Singleton
  <2> QED
    BY <2>3, <2>5, <2>6, <2>7
<1>7. /\ DOMAIN heap' = DOMAIN heap \ {o}
      /\ \A y \in DOMAIN heap' : y \in DOMAIN heap /\ y # o /\ heap'[y] = heap[y] /\ roots'[y] = roots[y]
  BY DEF RootsStay
<1>8. \A y \in DOMAIN heap : y # NULL
  BY <1>1, ObjectFacts
<1>9. Elements' = {e \in Elements : e[1] # o}
  <2>1. Elements' = UNION {{y} \X DOMAIN heap'[y].refs : y \in DOMAIN heap'}
    BY DEF Elements
  <2>2. \A y \in DOMAIN heap' : heap'[y].refs = heap[y].refs
    BY <1>7
  <2>3. \A e : e \in Elements' <=> \E y \in DOMAIN heap \ {o} : e \in {y} \X DOMAIN heap[y].refs
    <3>1. \A e : e \in Elements' <=> \E y \in DOMAIN heap' : e \in {y} \X DOMAIN heap'[y].refs
      BY <2>1
    <3> QED
      BY <1>7, <2>2, <3>1
  <2>4. \A e : e \in Elements <=> \E y \in DOMAIN heap : e \in {y} \X DOMAIN heap[y].refs
    BY DEF Elements
  <2> QED
    BY <2>3, <2>4
<1>10. \A e \in Elements' : /\ e \in Elements /\ e[1] \in DOMAIN heap /\ e[1] # o /\ e[1] # NULL
                            /\ RefAt(e)' = RefAt(e) /\ heap'[e[1]] = heap[e[1]]
  BY <1>7, <1>8, <1>9, ElementFacts DEF RefAt
<1>11. \A e \in Elements : e[1] = o => Released(e[1], e[2])
  <2> SUFFICES ASSUME NEW e \in Elements, e[1] = o PROVE Released(e[1], e[2])
    OBVIOUS
  <2>1. e[2] \in DOMAIN heap[o].refs
    BY ElementFacts
  <2>2. e[2] <= f.i
    BY <1>1, <1>3, <2>1, ObjectFacts
  <2> QED
    BY <1>2, <2>2 DEF Released
<1>12. \A e \in Elements' : Released(e[1], e[2])' <=> Released(e[1], e[2])
  <2> TAKE e \in Elements'
  <2>1. \A d \in Calls : (Call(d)'.obj = e[1] /\ e[2] <= Call(d)'.i) <=> (Call(d).obj = e[1] /\ e[2] <= Call(d).i)
    <3> TAKE d \in Calls
    <3>1. CASE d = n
      <4>1. Call(d) = f /\ Call(d)' = g /\ e[1] # o /\ e[1] # NULL
        BY <3>1, <1>2, <1>5, <1>10
      <4> QED
        BY <4>1, <1>4
    <3>2. CASE d # n
      BY <3>2, <1>5
    <3> QED
      BY <3>1, <3>2
  <2> QED
    BY <2>1, <1>5 DEF Released
<1>13. \A e \in Elements' : ~Released(e[1], e[2]) => RefAt(e) # o
  <2> SUFFICES ASSUME NEW e \in Elements', ~Released(e[1], e[2]), RefAt(e) = o PROVE FALSE
    OBVIOUS
  <2>1. e \in Elements /\ e[1] \in DOMAIN heap
    BY <1>10
  <2>2. heap[e[1]].mem # heap[o].mem
    BY <1>6, <2>1 DEF InObjects, RefAt
  <2>3. heap[e[1]].mem \in {"std", "try"} /\ heap[o].mem \in {"std", "try"}
    BY <1>1, <1>3, <2>1, ObjectFacts DEF Memory
  <2>4. CASE heap[e[1]].mem = "std"
    BY <2>1, <2>2, <2>4, <1>1 DEF StdRefs
  <2>5. CASE heap[e[1]].mem = "try"
    <3>1. CurrMemory = "std" /\ m.state # "try"
      BY <2>2, <2>3, <2>5, <1>3 DEF CurrMemory
    <3>2. m.state = "copying"
      BY <3>1, <2>1, <2>5, <1>1 DEF NormalStd, Typed
    <3>3. heap[o].mem = "try"
      BY <3>2, <2>1, <2>5, <1>1 DEF TryRefs, Running
    <3> QED
      BY <3>3, <2>2, <2>5
  <2> QED
    BY <2>3, <2>4, <2>5
<1>14. ElementsLive' /\ StdRefs'
  <2>1. \A e \in Elements' : ~Released(e[1], e[2])' => RefAt(e) \in DOMAIN heap' /\ heap'[RefAt(e)] = heap[RefAt(e)]
    BY <1>1, <1>7, <1>10, <1>12, <1>13 DEF ElementsLive
  <2>2. ElementsLive'
    BY <1>10, <2>1 DEF ElementsLive
  <2>3. StdRefs'
    BY <1>1, <1>10, <1>12, <2>1 DEF StdRefs
  <2> QED
    BY <2>2, <2>3
<1>15. TryRefs'
  <2> SUFFICES ASSUME m.state = "copying", NEW e \in Elements', heap'[e[1]].mem = "try"
               PROVE  RefAt(e) \in DOMAIN heap' /\ heap'[RefAt(e)].mem = "try"
    BY <1>10 DEF TryRefs
  <2>1. RefAt(e) \in DOMAIN heap /\ heap[RefAt(e)].mem = "try"
    BY <1>1, <1>10 DEF TryRefs, Running
  <2>2. heap[o].mem = "std"
    BY <1>3 DEF CurrMemory
  <2> QED
    BY <1>7, <2>1, <2>2
<1>16. NormalStd'
  BY <1>1, <1>7 DEF NormalStd
<1>17. Typed'
  <2>1. IsFiniteSet(DOMAIN heap \ {o})
    BY <1>1, FS_RemoveElement DEF Typed
  <2> QED
    BY <1>1, <1>5, <1>7, <2>1 DEF Typed, RootsStay
<1> DEFINE Waits(y) == y \in DOMAIN heap' /\ heap'[y].ref_count = 1 /\ heap'[y].mem = CurrMemory'
<1>18. \A y : Pending(y) /\ y # o => Waits(y) /\ heap'[y].refs = heap[y].refs
  BY <1>7 DEF Pending, CurrMemory
<1>19. CallsSound'
  <2> SUFFICES ASSUME NEW d \in Calls
               PROVE  /\ Call(d)'.obj = NULL => Call(d)'.i = 0
                      /\ Call(d)'.obj # NULL => Waits(Call(d)'.obj) /\ Call(d)'.i <= Len(heap'[Call(d)'.obj].refs)
                      /\ \A q \in Places(Call(d)') : Waits(Call(d)'.queue[q])
    BY <1>5 DEF CallsSound, Pending
  <2> HIDE DEF Waits
  <2>1. \A q \in Places(Call(d)) : Waits(Call(d).queue[q])
    <3> TAKE q \in Places(Call(d))
    <3>1. Pending(Call(d).queue[q])
      BY <1>1 DEF CallsSound
    <3>2. q \in 0 .. MAX_QUEUE_SIZE - 1
      BY <1>1, CallFacts, PlacesAre
    <3>3. Call(d).queue[q] # o
      <4> DEFINE p == <<d, q>>
      <4>1. p \in Calls \X (0 .. MAX_QUEUE_SIZE - 1) /\ p[1] = d /\ p[2] = q
        BY <3>2
      <4> HIDE DEF p
      <4>2. p[2] \in Places(Call(p[1])) /\ Call(p[1]).queue[p[2]] = Call(d).queue[q]
        BY <4>1
      <4> QED
        BY <1>6, <4>1, <4>2 DEF InRings
    <3> QED
      BY <1>18, <3>1, <3>3
  <2>2. CASE d = n
    <3>1. Call(d) = f /\ Call(d)' = g
      BY <2>2, <1>2, <1>5
    <3> QED
      BY <3>1, <2>1, <1>4
  <2>3. CASE d # n
    <3>1. Call(d)' = Call(d)
      BY <2>3, <1>5
    <3>2. Call(d).obj # o
      BY <2>3, <1>6 DEF InLoops
    <3>3. Call(d).obj = NULL => Call(d).i = 0
      BY <1>1 DEF CallsSound
    <3>4. Call(d).obj # NULL => Pending(Call(d).obj) /\ Call(d).i <= Len(heap[Call(d).obj].refs)
      BY <1>1 DEF CallsSound
    <3> QED
      BY <3>1, <3>2, <3>3, <3>4, <2>1, <1>18
  <2> QED
    BY <2>2, <2>3
<1>20. Counted'
  <2> SUFFICES ASSUME NEW y \in DOMAIN heap'
               PROVE  heap'[y].ref_count = roots'[y] + Cardinality(InObjects(y)') + Cardinality(InRings(y)') + Cardinality(InLoops(y)')
    BY DEF Counted
  <2>1. y \in DOMAIN heap /\ y # o /\ y # NULL /\ heap'[y] = heap[y] /\ roots'[y] = roots[y]
    BY <1>7, <1>8
  <2>2. InObjects(y)' = InObjects(y)
    <3>1. InObjects(y)' = {e \in Elements' : heap'[e[1]].mem = heap'[y].mem /\ RefAt(e)' = y /\ ~Released(e[1], e[2])'}
      BY DEF InObjects, RefAt
    <3>2. InObjects(y) = {e \in Elements : heap[e[1]].mem = heap[y].mem /\ RefAt(e) = y /\ ~Released(e[1], e[2])}
      BY DEF InObjects, RefAt
    <3>3. \A e \in InObjects(y)' : e \in InObjects(y)
      BY <3>1, <3>2, <1>10, <1>12, <2>1
    <3>4. \A e \in InObjects(y) : e \in InObjects(y)'
      <4> TAKE e \in InObjects(y)
      <4>1. e \in Elements /\ e[1] # o
        BY <3>2, <1>11
      <4>2. e \in Elements'
        BY <4>1, <1>9
      <4> QED
        BY <4>2, <3>1, <3>2, <1>10, <1>12, <2>1
    <3> QED
      BY <3>3, <3>4
  <2>3. InRings(y)' = InRings(y)
    <3>1. \A d \in Calls : Places(Call(d)') = Places(Call(d)) /\ Call(d)'.queue = Call(d).queue
      BY <1>2, <1>4, <1>5
    <3> QED
      BY <3>1, <1>5 DEF InRings
  <2>4. InLoops(y)' = InLoops(y)
    <3>1. \A d \in Calls : Call(d)'.obj = y <=> Call(d).obj = y
      <4> TAKE d \in Calls
      <4>1. CASE d = n
        <5>1. Call(d) = f /\ Call(d)' = g
          BY <4>1, <1>2, <1>5
        <5> QED
          BY <5>1, <1>4, <2>1
      <4>2. CASE d # n
        BY <4>2, <1>5
      <4> QED
        BY <4>1, <4>2
    <3> QED
      BY <3>1, <1>5 DEF InLoops
  <2> QED
    BY <2>1, <2>2, <2>3, <2>4, <1>1 DEF Counted
<1> QED
  BY <1>14, <1>15, <1>16, <1>17, <1>19, <1>20 DEF RefsInv

\* The ring of the innermost call is empty: the call returns.
LEMMA ReturnKeeps ==
  ASSUME RefsInv, stack # <<>>, Head(stack).obj = NULL, Head(stack).queue_size = 0,
         m'.state = m.state, heap' = heap, RootsStay, stack' = Tail(stack)
  PROVE  RefsInv'
<1>0. PICK n : n = Len(stack)
  OBVIOUS
<1>1. Typed /\ CallsSound /\ Counted /\ ElementsLive /\ StdRefs /\ TryRefs /\ NormalStd
  BY DEF RefsInv
<1>2. /\ n \in Calls /\ Head(stack) = Call(n) /\ Call(n) \in Frame
      /\ Call(n).obj = NULL /\ Call(n).queue_size = 0
  BY <1>0, <1>1, HeadCall
<1>3. Places(Call(n)) = {}
  BY <1>2 DEF Places
<1>4. stack' \in Seq(Frame) /\ Calls' = Calls \ {n} /\ \A d \in Calls' : Call(d)' = Call(d) /\ d \in Calls
  <2>1. /\ stack \in Seq(Frame) /\ Calls = 1 .. n /\ n \in Nat
        /\ stack' \in Seq(Frame) /\ Len(stack') = n - 1 /\ n > 0
        /\ \A j \in 1 .. n - 1 : stack'[j] = stack[j + 1]
    BY <1>0, <1>1, CallFacts, ReturnFacts DEF Typed
  <2>2. Calls' = 1 .. n - 1
    BY <2>1 DEF Calls
  <2>3. ASSUME NEW d \in 1 .. n - 1 PROVE Call(d)' = Call(d)
    <3>1. n - d \in 1 .. n - 1 /\ Len(stack') + 1 - d = n - d /\ Len(stack) + 1 - d = (n - d) + 1
      BY <1>0, <2>1
    <3>2. stack'[n - d] = stack[(n - d) + 1]
      BY <2>1, <3>1
    <3> QED
      BY <3>1, <3>2 DEF Call
  <2> QED
    BY <2>1, <2>2, <2>3
<1>5. \A y, k : y # NULL => (Released(y, k)' <=> Released(y, k))
  BY <1>2, <1>4 DEF Released
<1>6. \A e \in Elements : Released(e[1], e[2])' <=> Released(e[1], e[2])
  <2>1. \A e \in Elements : e[1] # NULL
    BY <1>1, ElementFacts, ObjectFacts
  <2> QED
    BY <2>1, <1>5
<1>7. ObjectsStay
  BY DEF ObjectsStay
<1>8. ElementsLive' /\ StdRefs' /\ TryRefs' /\ NormalStd'
  BY <1>6, <1>7, LiveStays
<1>9. Typed'
  BY <1>1, <1>4 DEF Typed, RootsStay
<1>10. CallsSound'
  <2>1. \A y : Pending(y)' <=> Pending(y)
    BY DEF Pending, CurrMemory
  <2> QED
    BY <2>1, <1>1, <1>4 DEF CallsSound
<1>11. Counted'
  <2> SUFFICES ASSUME NEW y \in DOMAIN heap
               PROVE  heap[y].ref_count = roots[y] + Cardinality(InObjects(y)') + Cardinality(InRings(y)') + Cardinality(InLoops(y)')
    BY DEF Counted, RootsStay
  <2>1. InObjects(y)' = InObjects(y)
    <3>1. Elements' = Elements /\ \A e \in Elements : RefAt(e)' = RefAt(e) /\ heap'[e[1]].mem = heap[e[1]].mem
      BY <1>1, <1>7, ElementsStay
    <3> QED
      BY <3>1, <1>6 DEF InObjects
  <2>2. InRings(y)' = InRings(y)
    <3>1. \A p \in Calls \X (0 .. MAX_QUEUE_SIZE - 1) : p[2] \in Places(Call(p[1])) => p[1] \in Calls'
      BY <1>3, <1>4
    <3> QED
      BY <3>1, <1>4 DEF InRings
  <2>3. InLoops(y)' = InLoops(y)
    <3>1. y # NULL
      BY <1>1, ObjectFacts
    <3>2. \A d \in Calls : Call(d).obj = y => d \in Calls'
      BY <3>1, <1>2, <1>4
    <3> QED
      BY <3>2, <1>4 DEF InLoops
  <2> QED
    BY <2>1, <2>2, <2>3, <1>1 DEF Counted
<1> QED
  BY <1>8, <1>9, <1>10, <1>11 DEF RefsInv

\* What a step of delete_obj does, by what the innermost call is at.
NextStep(f) == f.obj = NULL /\ f.queue_size > 0
ElementStep(f) == f.obj # NULL /\ f.i < Len(heap[f.obj].refs)
FreeStep(f) == f.obj # NULL /\ f.i = Len(heap[f.obj].refs)
ReturnStep(f) == f.obj = NULL /\ f.queue_size = 0

\* A step of delete_obj takes an object off the ring, releases an element, frees
\* the object or returns.
LEMMA DeleteCases ==
  ASSUME RefsInv, DeleteStep
  PROVE  LET f == Head(stack)
         IN  /\ stack # <<>> /\ RootsStay
             /\ NextStep(f) \/ ElementStep(f) \/ FreeStep(f) \/ ReturnStep(f)
             /\ NextStep(f) => m' = m /\ heap' = heap /\ stack' = NextObj(m, heap, stack).stack
             /\ ElementStep(f) => /\ m' = ReleaseElem(m, heap, stack).m
                                  /\ heap' = ReleaseElem(m, heap, stack).heap
                                  /\ stack' = ReleaseElem(m, heap, stack).stack
             /\ FreeStep(f) => /\ m' = free_obj(m, f.obj, obj_mem_size(heap[f.obj]))
                               /\ heap' = [x \in DOMAIN heap \ {f.obj} |-> heap[x]]
                               /\ stack' = Top(stack, [f EXCEPT !.obj = NULL, !.i = 0])
             /\ ReturnStep(f) => m' = m /\ heap' = heap /\ stack' = Tail(stack)
<1> DEFINE f == Head(stack)
           next == delete_obj(m, heap, stack)
<1>1. /\ stack # <<>> /\ m' = next.m /\ heap' = next.heap /\ stack' = next.stack
      /\ roots' = Restrict(roots, DOMAIN next.heap)
  BY DEF DeleteStep, Running
<1>2. RootsStay
  BY <1>1 DEF RootsStay, Restrict
<1>3. Typed /\ CallsSound
  BY DEF RefsInv
<1>4. PICK n : n = Len(stack)
  OBVIOUS
<1>5. n \in Calls /\ f \in Frame /\ f = Call(n)
  BY <1>1, <1>3, <1>4, HeadCall
<1>6. f.queue_size \in Nat /\ f.i \in Nat
  BY <1>5, QueueAssumption DEF Frame
<1>7. f.obj # NULL => Len(heap[f.obj].refs) \in Nat /\ f.i <= Len(heap[f.obj].refs)
  BY <1>3, <1>5, ObjectFacts DEF CallsSound, Pending
<1>8. NextStep(f) \/ ElementStep(f) \/ FreeStep(f) \/ ReturnStep(f)
  BY <1>6, <1>7 DEF NextStep, ElementStep, FreeStep, ReturnStep
<1>9. NextStep(f) => m' = m /\ heap' = heap /\ stack' = NextObj(m, heap, stack).stack
  <2> HAVE NextStep(f)
  <2>1. next = NextObj(m, heap, stack)
    BY DEF NextStep, delete_obj
  <2> QED
    BY <1>1, <2>1 DEF NextObj, To
<1>10. ElementStep(f) => next = ReleaseElem(m, heap, stack)
  BY <1>6, <1>7 DEF ElementStep, delete_obj
<1>11. FreeStep(f) => next = FreeObj(m, heap, stack)
  BY <1>6, <1>7 DEF FreeStep, delete_obj
<1>12. ReturnStep(f) => next = To(m, heap, Tail(stack))
  BY <1>6 DEF ReturnStep, delete_obj
<1>13. FreeStep(f) => /\ m' = free_obj(m, f.obj, obj_mem_size(heap[f.obj]))
                      /\ heap' = [x \in DOMAIN heap \ {f.obj} |-> heap[x]]
                      /\ stack' = Top(stack, [f EXCEPT !.obj = NULL, !.i = 0])
  BY <1>1, <1>11 DEF FreeObj, To
<1>14. ReturnStep(f) => m' = m /\ heap' = heap /\ stack' = Tail(stack)
  BY <1>1, <1>12 DEF To
<1>15. ElementStep(f) => /\ m' = ReleaseElem(m, heap, stack).m
                         /\ heap' = ReleaseElem(m, heap, stack).heap
                         /\ stack' = ReleaseElem(m, heap, stack).stack
  BY <1>1, <1>10
<1> QED
  BY <1>1, <1>2, <1>8, <1>9, <1>13, <1>14, <1>15

\* The element that is next is released, whatever it is the case of.
LEMMA ElementStepKeeps ==
  ASSUME RefsInv, stack # <<>>, ElementStep(Head(stack)), RootsStay, m' = ReleaseElem(m, heap, stack).m,
         heap' = ReleaseElem(m, heap, stack).heap, stack' = ReleaseElem(m, heap, stack).stack
  PROVE  RefsInv' /\ m' = m /\ ObjectsStay
<1>0. PICK n : n = Len(stack)
  OBVIOUS
<1>1. PICK f : f = Head(stack)
  OBVIOUS
<1>2. PICK x : x = Head(Unreleased(heap, f))
  OBVIOUS
<1>3. Typed
  BY DEF RefsInv
<1>4. Releasing(n, f, x)
  BY <1>0, <1>1, <1>2, NextElement DEF ElementStep
<1>5. x \in DOMAIN heap /\ f \in Frame
  BY <1>4 DEF Releasing
<1>6. heap[x].ref_count \in Nat /\ heap[x].ref_count > 0
  BY <1>3, <1>5, ObjectFacts
<1>7. is_gc_obj(m, heap[x]) <=> heap[x].mem = CurrMemory
  BY DEF is_gc_obj, CurrMemory
<1> DEFINE g == Passed(f)
           down == [heap EXCEPT ![x].ref_count = Decremented(heap, x)]
           result == ReleaseElem(m, heap, stack)
<1>8. result =
        IF ~is_gc_obj(m, heap[x]) THEN To(m, heap, Top(stack, g))
        ELSE To(m, down, IF heap[x].ref_count > 1 THEN Top(stack, g)
                         ELSE IF f.queue_size = MAX_QUEUE_SIZE
                         THEN Push(Top(stack, Replaced(g, x)), NewFrame(f.queue[f.queue_start]))
                         ELSE Top(stack, Queued(g, x)))
  BY <1>1, <1>2 DEF ReleaseElem, Passed
<1> HIDE DEF g, down, result
<1>9. m' = result.m /\ heap' = result.heap /\ stack' = result.stack
  BY DEF result
<1>10. CASE heap[x].mem # CurrMemory
  <2>1. result = To(m, heap, Top(stack, g))
    BY <1>7, <1>8, <1>10
  <2>2. m' = m /\ heap' = heap /\ stack' = Top(stack, g)
    BY <1>9, <2>1 DEF To
  <2>3. ReleasedIn(x)
    <3>1. \A y \in DOMAIN heap : heap[y] \in Object
      BY <1>3, ObjectFacts
    <3>2. ObjectsStay
      BY <2>2 DEF ObjectsStay
    <3> QED
      BY <1>10, <2>2, <3>1, <3>2 DEF ReleasedIn
  <2>4. g = [f EXCEPT !.i = @ + 1]
    BY DEF g, Passed
  <2>5. RefsInv'
    BY <1>0, <1>4, <1>10, <2>2, <2>3, <2>4, PassKeeps
  <2> QED
    BY <2>2, <2>3, <2>5 DEF ReleasedIn
<1>11. CASE heap[x].mem = CurrMemory
  <2>1. m' = m /\ heap' = down /\ stack' = (IF heap[x].ref_count > 1 THEN Top(stack, g)
                         ELSE IF f.queue_size = MAX_QUEUE_SIZE
                         THEN Push(Top(stack, Replaced(g, x)), NewFrame(f.queue[f.queue_start]))
                         ELSE Top(stack, Queued(g, x)))
    BY <1>7, <1>8, <1>9, <1>11 DEF To
  <2>2. ReleasedIn(x)
    BY <1>3, <1>5, <1>11, <2>1, CountGoesDown DEF down
  <2>3. CASE heap[x].ref_count > 1
    <3>1. stack' = Top(stack, g) /\ g = [f EXCEPT !.i = @ + 1]
      BY <2>1, <2>3 DEF g, Passed
    <3>2. RefsInv'
      BY <1>0, <1>4, <2>2, <2>3, <3>1, PassKeeps
    <3> QED
      BY <2>1, <2>2, <3>2 DEF ReleasedIn
  <2>4. CASE ~(heap[x].ref_count > 1) /\ f.queue_size = MAX_QUEUE_SIZE
    <3>1. heap[x].ref_count = 1
      BY <1>6, <2>4
    <3>2. PICK h : h = Replaced(Passed(f), x)
      OBVIOUS
    <3>3. PICK o : o = f.queue[f.queue_start]
      OBVIOUS
    <3>4. stack' = Push(Top(stack, h), NewFrame(o))
      BY <2>1, <2>4, <3>2, <3>3 DEF g
    <3>5. RefsInv'
      BY <1>0, <1>4, <1>11, <2>2, <2>4, <3>1, <3>2, <3>3, <3>4, ReplaceKeeps
    <3> QED
      BY <2>1, <2>2, <3>5 DEF ReleasedIn
  <2>5. CASE ~(heap[x].ref_count > 1) /\ f.queue_size # MAX_QUEUE_SIZE
    <3>1. heap[x].ref_count = 1 /\ f.queue_size < MAX_QUEUE_SIZE
      BY <1>5, <1>6, <2>5, QueueAssumption DEF Frame
    <3>2. PICK h : h = Queued(Passed(f), x)
      OBVIOUS
    <3>3. stack' = Top(stack, h)
      BY <2>1, <2>5, <3>2 DEF g
    <3>4. RefsInv'
      BY <1>0, <1>4, <1>11, <2>2, <3>1, <3>2, <3>3, QueueKeeps
    <3> QED
      BY <2>1, <2>2, <3>4 DEF ReleasedIn
  <2> QED
    BY <2>3, <2>4, <2>5
<1> QED
  BY <1>10, <1>11

\* A step of a deletion, wherever it is.
THEOREM DeleteStepKeeps ==
  ASSUME RefsInv, DeleteStep, m'.state = m.state
  PROVE  RefsInv'
<1>1. PICK f : f = Head(stack)
  OBVIOUS
<1>2. /\ stack # <<>> /\ RootsStay
      /\ NextStep(f) \/ ElementStep(f) \/ FreeStep(f) \/ ReturnStep(f)
  BY <1>1, DeleteCases
<1>3. CASE NextStep(f)
  <2>1. heap' = heap /\ stack' = NextObj(m, heap, stack).stack
    BY <1>1, <1>3, DeleteCases
  <2> QED
    BY <1>1, <1>2, <1>3, <2>1, NextObjKeeps DEF NextStep
<1>4. CASE ElementStep(f)
  <2>1. /\ m' = ReleaseElem(m, heap, stack).m /\ heap' = ReleaseElem(m, heap, stack).heap
        /\ stack' = ReleaseElem(m, heap, stack).stack
    BY <1>1, <1>4, DeleteCases
  <2> QED
    BY <1>1, <1>2, <1>4, <2>1, ElementStepKeeps
<1>5. CASE FreeStep(f)
  <2>1. PICK n : n = Len(stack)
    OBVIOUS
  <2>2. PICK o : o = f.obj
    OBVIOUS
  <2>3. PICK g : g = [f EXCEPT !.obj = NULL, !.i = 0]
    OBVIOUS
  <2>4. heap' = [x \in DOMAIN heap \ {o} |-> heap[x]] /\ stack' = Top(stack, g)
    BY <1>1, <1>5, <2>2, <2>3, DeleteCases
  <2>5. o # NULL /\ f.i = Len(heap[o].refs)
    BY <1>5, <2>2 DEF FreeStep
  <2> QED
    BY <1>1, <1>2, <2>1, <2>2, <2>3, <2>4, <2>5, FreeKeeps
<1>6. CASE ReturnStep(f)
  <2>1. heap' = heap /\ stack' = Tail(stack)
    BY <1>1, <1>6, DeleteCases
  <2> QED
    BY <1>1, <1>2, <1>6, <2>1, ReturnKeeps DEF ReturnStep
<1> QED
  BY <1>2, <1>3, <1>4, <1>5, <1>6

-----------------------------------------------------------------------------
(* The steps of the program: no deletion is under way. *)

\* The elements of the objects of h, and those that refer to x and are counted.
ElementsOf(h) == UNION {{y} \X DOMAIN h[y].refs : y \in DOMAIN h}
RefersTo(h, e) == h[e[1]].refs[e[2]]
CountedIn(h, x) == {e \in ElementsOf(h) : h[e[1]].mem = h[x].mem /\ RefersTo(h, e) = x}

\* The invariant when no deletion is under way.
IdleInv(state, h, r) ==
  /\ state \in {"normal", "try", "copying"}
  /\ DOMAIN h \subseteq Block /\ (\A x \in DOMAIN h : h[x] \in Object) /\ IsFiniteSet(DOMAIN h)
  /\ DOMAIN r = DOMAIN h /\ \A x \in DOMAIN h : r[x] \in Nat
  /\ \A x \in DOMAIN h : h[x].ref_count = r[x] + Cardinality(CountedIn(h, x))
  /\ \A e \in ElementsOf(h) :
       /\ RefersTo(h, e) \in DOMAIN h
       /\ h[e[1]].mem = "std" => h[RefersTo(h, e)].mem = "std"
  /\ state = "normal" => \A x \in DOMAIN h : h[x].mem = "std"

\* Between deletions references are only in objects and with the program.
LEMMA IdleOfRefs ==
  ASSUME RefsInv, stack = <<>>
  PROVE  IdleInv(m.state, heap, roots)
<1>1. Typed /\ Counted /\ ElementsLive /\ StdRefs /\ NormalStd
  BY DEF RefsInv
<1>2. (\A y, k : ~Released(y, k)) /\ \A x : InRings(x) = {} /\ InLoops(x) = {}
  BY Idle
<1>3. Elements = ElementsOf(heap) /\ \A e : RefAt(e) = RefersTo(heap, e)
  BY DEF Elements, ElementsOf, RefAt, RefersTo
<1>4. \A x : InObjects(x) = CountedIn(heap, x)
  BY <1>2, <1>3 DEF InObjects, CountedIn, RefAt, RefersTo
<1>5. Cardinality({}) = 0
  BY FS_EmptySet
<1>6. ASSUME NEW x \in DOMAIN heap PROVE heap[x].ref_count = roots[x] + Cardinality(CountedIn(heap, x))
  <2>1. heap[x].ref_count = roots[x] + Cardinality(InObjects(x)) + Cardinality(InRings(x)) + Cardinality(InLoops(x))
    BY <1>1 DEF Counted
  <2>2. roots[x] \in Nat /\ Cardinality(InObjects(x)) \in Nat
    BY <1>1, CountedFinite, ObjectFacts
  <2>3. heap[x].ref_count = roots[x] + Cardinality(InObjects(x))
    BY <2>1, <2>2, <1>2, <1>5
  <2> QED
    BY <2>3, <1>4
<1>7. ASSUME NEW e \in ElementsOf(heap)
      PROVE  /\ RefersTo(heap, e) \in DOMAIN heap
             /\ heap[e[1]].mem = "std" => heap[RefersTo(heap, e)].mem = "std"
  BY <1>1, <1>2, <1>3 DEF ElementsLive, StdRefs
<1>8. \A x \in DOMAIN heap : roots[x] \in Nat
  BY <1>1 DEF Typed
<1> QED
  BY <1>1, <1>6, <1>7, <1>8 DEF IdleInv, Typed, NormalStd

\* What holds between deletions is the invariant of an empty call stack.
LEMMA RefsOfIdle ==
  ASSUME IdleInv(m'.state, heap', roots'), stack' = <<>>
  PROVE  RefsInv'
<1> USE DEF IdleInv
<1>1. (\A y, k : ~Released(y, k)') /\ (\A x : InRings(x)' = {} /\ InLoops(x)' = {}) /\ Calls' = {}
  BY Idle
<1>2. Elements' = ElementsOf(heap') /\ \A e : RefAt(e)' = RefersTo(heap', e)
  BY DEF Elements, ElementsOf, RefAt, RefersTo
<1>3. \A x : InObjects(x)' = CountedIn(heap', x)
  BY <1>1, <1>2 DEF InObjects, CountedIn, RefAt, RefersTo
<1>4. stack' \in Seq(Frame)
  OBVIOUS
<1>5. Typed'
  BY <1>4 DEF Typed
<1>6. CallsSound'
  BY <1>1 DEF CallsSound
<1>7. Counted'
  <2>1. Cardinality({}) = 0
    BY FS_EmptySet
  <2> SUFFICES ASSUME NEW x \in DOMAIN heap'
               PROVE  heap'[x].ref_count = roots'[x] + Cardinality(InObjects(x)') + Cardinality(InRings(x)') + Cardinality(InLoops(x)')
    BY DEF Counted
  <2>2. heap'[x].ref_count = roots'[x] + Cardinality(CountedIn(heap', x))
    OBVIOUS
  <2>3. IsFiniteSet(CountedIn(heap', x))
    <3>1. \A y \in DOMAIN heap' : heap'[y].refs \in Seq(Block)
      BY DEF Object
    <3>2. IsFiniteSet(ElementsOf(heap'))
      BY <3>1, FiniteElements DEF ElementsOf
    <3> QED
      BY <3>2, FS_Subset DEF CountedIn
  <2>4. Cardinality(CountedIn(heap', x)) \in Nat /\ roots'[x] \in Nat
    BY <2>3, FS_CardinalityType
  <2>5. heap'[x].ref_count = roots'[x] + Cardinality(CountedIn(heap', x)) + 0 + 0
    BY <2>2, <2>4
  <2> QED
    BY <2>5, <2>1, <1>1, <1>3
<1>8. ElementsLive' /\ StdRefs'
  BY <1>2 DEF ElementsLive, StdRefs
<1>9. TryRefs'
  BY DEF TryRefs, Running
<1>10. NormalStd'
  BY DEF NormalStd
<1> QED
  BY <1>5, <1>6, <1>7, <1>8, <1>9, <1>10 DEF RefsInv

\* In an idle state too: what is counted is finite, and what an element is.
LEMMA IdleFacts ==
  ASSUME NEW state, NEW h, NEW r, IdleInv(state, h, r)
  PROVE  /\ \A x : IsFiniteSet(CountedIn(h, x)) /\ Cardinality(CountedIn(h, x)) \in Nat
         /\ \A x \in DOMAIN h : /\ x \in Block /\ h[x].mem \in Memory /\ h[x].ref_count \in Nat /\ h[x].ref_count > 0
                                /\ h[x].refs \in Seq(Block) /\ Len(h[x].refs) \in Nat
                                /\ DOMAIN h[x].refs = 1 .. Len(h[x].refs) /\ r[x] \in Nat
         /\ \A e \in ElementsOf(h) : e = <<e[1], e[2]>> /\ e[1] \in DOMAIN h /\ e[2] \in DOMAIN h[e[1]].refs
         /\ \A y \in DOMAIN h : \A k \in DOMAIN h[y].refs : <<y, k>> \in ElementsOf(h)
<1> USE DEF IdleInv
<1>1. \A x \in DOMAIN h : /\ x \in Block /\ h[x].mem \in Memory /\ h[x].ref_count \in Nat /\ h[x].ref_count > 0
                          /\ h[x].refs \in Seq(Block) /\ r[x] \in Nat
  BY DEF Object
<1>2. \A x \in DOMAIN h : Len(h[x].refs) \in Nat /\ DOMAIN h[x].refs = 1 .. Len(h[x].refs)
  BY <1>1
<1>3. IsFiniteSet(ElementsOf(h))
  BY <1>1, FiniteElements DEF ElementsOf
<1>4. \A x : IsFiniteSet(CountedIn(h, x))
  BY <1>3, FS_Subset DEF CountedIn
<1>5. \A x : Cardinality(CountedIn(h, x)) \in Nat
  BY <1>4, FS_CardinalityType
<1>6. /\ \A e \in ElementsOf(h) : e = <<e[1], e[2]>> /\ e[1] \in DOMAIN h /\ e[2] \in DOMAIN h[e[1]].refs
      /\ \A y \in DOMAIN h : \A k \in DOMAIN h[y].refs : <<y, k>> \in ElementsOf(h)
  BY DEF ElementsOf
<1> QED
  BY <1>1, <1>2, <1>4, <1>5, <1>6

\* Counts change and references do not.
LEMMA SameReferences ==
  ASSUME NEW h, NEW h2, DOMAIN h2 = DOMAIN h,
         \A x \in DOMAIN h : h2[x].refs = h[x].refs /\ h2[x].mem = h[x].mem
  PROVE  /\ ElementsOf(h2) = ElementsOf(h)
         /\ \A e \in ElementsOf(h) : e[1] \in DOMAIN h /\ RefersTo(h2, e) = RefersTo(h, e)
         /\ \A x \in DOMAIN h : CountedIn(h2, x) = CountedIn(h, x)
<1>1. ElementsOf(h2) = ElementsOf(h)
  BY DEF ElementsOf
<1>2. \A e \in ElementsOf(h) : e[1] \in DOMAIN h
  BY DEF ElementsOf
<1>3. \A e \in ElementsOf(h) : RefersTo(h2, e) = RefersTo(h, e)
  BY <1>2 DEF RefersTo
<1> QED
  BY <1>1, <1>2, <1>3 DEF CountedIn

\* The program takes a reference to an object, or gives back one of several.
LEMMA RecountKeeps ==
  ASSUME NEW state, NEW h, NEW r, IdleInv(state, h, r), NEW x \in DOMAIN h,
         NEW c \in Nat \ {0}, NEW q \in Nat, c - q = h[x].ref_count - r[x]
  PROVE  IdleInv(state, [h EXCEPT ![x].ref_count = c], [r EXCEPT ![x] = q])
<1> DEFINE h2 == [h EXCEPT ![x].ref_count = c]
           r2 == [r EXCEPT ![x] = q]
<1>1. DOMAIN h2 = DOMAIN h /\ DOMAIN r2 = DOMAIN h
  BY DEF IdleInv
<1>2. /\ \A y \in DOMAIN h : y # x => h2[y] = h[y] /\ r2[y] = r[y]
      /\ h2[x] = [h[x] EXCEPT !.ref_count = c] /\ r2[x] = q
  BY DEF IdleInv
<1>3. \A y \in DOMAIN h : h[y] \in Object
  BY DEF IdleInv
<1>4. h2[x] \in Object /\ h2[x].refs = h[x].refs /\ h2[x].mem = h[x].mem /\ h2[x].ref_count = c
  BY <1>2, <1>3 DEF Object
<1>5. \A y \in DOMAIN h : h2[y] \in Object /\ h2[y].refs = h[y].refs /\ h2[y].mem = h[y].mem
  BY <1>2, <1>3, <1>4
<1> HIDE DEF h2, r2
<1>6. /\ ElementsOf(h2) = ElementsOf(h)
      /\ \A e \in ElementsOf(h) : e[1] \in DOMAIN h /\ RefersTo(h2, e) = RefersTo(h, e)
      /\ \A y \in DOMAIN h : CountedIn(h2, y) = CountedIn(h, y)
  BY <1>1, <1>5, SameReferences
<1>7. ASSUME NEW y \in DOMAIN h PROVE h2[y].ref_count = r2[y] + Cardinality(CountedIn(h2, y)) /\ r2[y] \in Nat
  <2>1. h[y].ref_count = r[y] + Cardinality(CountedIn(h, y)) /\ r[y] \in Nat
    BY DEF IdleInv
  <2>2. Cardinality(CountedIn(h, y)) \in Nat /\ h[y].ref_count \in Nat
    BY IdleFacts
  <2>3. CASE y = x
    <3>1. PICK k \in Nat : k = Cardinality(CountedIn(h, x))
      BY <2>2, <2>3
    <3>2. PICK a \in Nat : a = h[x].ref_count
      BY <2>2, <2>3
    <3>3. PICK b \in Nat : b = r[x]
      BY <2>1, <2>3
    <3>4. a = b + k /\ c - q = a - b
      BY <2>1, <2>3, <3>1, <3>2, <3>3
    <3>5. c = q + k
      BY <3>4
    <3>6. Cardinality(CountedIn(h2, x)) = k
      BY <1>6, <3>1
    <3>7. h2[x].ref_count = c /\ r2[x] = q
      BY <1>2, <1>4
    <3> QED
      BY <2>3, <3>5, <3>6, <3>7
  <2>4. CASE y # x
    BY <1>2, <1>6, <2>1, <2>4
  <2> QED
    BY <2>3, <2>4
<1>8. ASSUME NEW e \in ElementsOf(h2)
      PROVE  /\ RefersTo(h2, e) \in DOMAIN h2
             /\ h2[e[1]].mem = "std" => h2[RefersTo(h2, e)].mem = "std"
  <2>1. RefersTo(h, e) \in DOMAIN h /\ (h[e[1]].mem = "std" => h[RefersTo(h, e)].mem = "std")
    BY <1>6, <1>8 DEF IdleInv
  <2> QED
    BY <2>1, <1>1, <1>5, <1>6, <1>8
<1>9. /\ state \in {"normal", "try", "copying"} /\ DOMAIN h2 \subseteq Block /\ IsFiniteSet(DOMAIN h2)
      /\ state = "normal" => \A y \in DOMAIN h2 : h2[y].mem = "std"
  BY <1>1, <1>5 DEF IdleInv
<1>10. IdleInv(state, h2, r2)
  BY <1>1, <1>5, <1>7, <1>8, <1>9 DEF IdleInv
<1> QED
  BY <1>10 DEF h2, r2

\* The last reference the program had goes into a sequence, as its last element.
LEMMA AppendKeeps ==
  ASSUME NEW state, NEW h, NEW r, IdleInv(state, h, r), NEW x \in DOMAIN h, NEW y \in DOMAIN h,
         r[y] > 0, h[y].mem = h[x].mem
  PROVE  IdleInv(state, [h EXCEPT ![x].size = @ + 1, ![x].refs = Append(@, y)], [r EXCEPT ![y] = @ - 1])
<1> DEFINE h2 == [h EXCEPT ![x].size = @ + 1, ![x].refs = Append(@, y)]
           r2 == [r EXCEPT ![y] = @ - 1]
<1>0. PICK n \in Nat : n = Len(h[x].refs)
  BY IdleFacts
<1> DEFINE e0 == <<x, n + 1>>
<1>1. DOMAIN h2 = DOMAIN h /\ DOMAIN r2 = DOMAIN h
  BY DEF IdleInv
<1>2. /\ \A z \in DOMAIN h : z # x => h2[z] = h[z]
      /\ h2[x] = [h[x] EXCEPT !.size = @ + 1, !.refs = Append(@, y)]
      /\ r2[y] = r[y] - 1 /\ \A z \in DOMAIN h : z # y => r2[z] = r[z]
  BY DEF IdleInv
<1>3. (\A z \in DOMAIN h : h[z] \in Object) /\ y \in Block
  BY DEF IdleInv
<1>4. /\ h2[x] \in Object /\ h2[x].mem = h[x].mem /\ h2[x].ref_count = h[x].ref_count
      /\ h2[x].refs = Append(h[x].refs, y)
  <2>1. /\ h[x].refs \in Seq(Block) /\ h[x].size \in Nat \ {0}
        /\ Append(h[x].refs, y) \in Seq(Block) /\ h[x].size + 1 \in Nat \ {0}
    BY <1>3 DEF Object
  <2>2. h2[x].refs = Append(h[x].refs, y) /\ h2[x].size = h[x].size + 1
    BY <1>2, <1>3 DEF Object
  <2> QED
    BY <1>2, <1>3, <2>1, <2>2 DEF Object
<1>5. /\ \A z \in DOMAIN h : h2[z] \in Object /\ h2[z].mem = h[z].mem /\ h2[z].ref_count = h[z].ref_count
      /\ \A z \in DOMAIN h : z # x => h2[z].refs = h[z].refs
  BY <1>2, <1>3, <1>4
<1>6. /\ h[x].refs \in Seq(Block) /\ DOMAIN h[x].refs = 1 .. n /\ DOMAIN h2[x].refs = 1 .. n + 1
      /\ h2[x].refs[n + 1] = y /\ \A k \in 1 .. n : h2[x].refs[k] = h[x].refs[k]
  <2>1. h[x].refs \in Seq(Block)
    BY <1>3 DEF Object
  <2> QED
    BY <2>1, <1>0, <1>4
<1> HIDE DEF h2, r2
<1>7. e0[1] = x /\ e0[2] = n + 1
  OBVIOUS
<1>8. ElementsOf(h2) = ElementsOf(h) \cup {e0} /\ e0 \notin ElementsOf(h)
  <2>1. ASSUME NEW e \in ElementsOf(h2) PROVE e \in ElementsOf(h) \cup {e0}
    <3>1. PICK z \in DOMAIN h2 : e \in {z} \X DOMAIN h2[z].refs
      BY DEF ElementsOf
    <3>2. PICK k \in DOMAIN h2[z].refs : e = <<z, k>>
      BY <3>1
    <3>3. CASE z # x
      BY <3>2, <3>3, <1>1, <1>5, IdleFacts
    <3>4. CASE z = x /\ k # n + 1
      <4>1. k \in 1 .. n
        BY <3>2, <3>4, <1>6
      <4> QED
        BY <4>1, <3>2, <3>4, <1>6, IdleFacts
    <3>5. CASE z = x /\ k = n + 1
      BY <3>2, <3>5
    <3> QED
      BY <3>3, <3>4, <3>5
  <2>2. ASSUME NEW e \in ElementsOf(h) PROVE e \in ElementsOf(h2)
    <3>1. e = <<e[1], e[2]>> /\ e[1] \in DOMAIN h /\ e[2] \in DOMAIN h[e[1]].refs
      BY IdleFacts
    <3>2. e[2] \in DOMAIN h2[e[1]].refs
      <4>1. CASE e[1] = x
        <5>1. e[2] \in 1 .. n
          BY <3>1, <4>1, <1>6
        <5>2. e[2] \in 1 .. n + 1
          BY <5>1
        <5> QED
          BY <5>2, <4>1, <1>6
      <4>2. CASE e[1] # x
        BY <3>1, <4>2, <1>5
      <4> QED
        BY <4>1, <4>2
    <3> QED
      BY <3>1, <3>2, <1>1 DEF ElementsOf
  <2>3. e0 \in ElementsOf(h2)
    <3>1. n + 1 \in 1 .. n + 1
      OBVIOUS
    <3> QED
      BY <3>1, <1>1, <1>6 DEF ElementsOf
  <2>4. e0 \notin ElementsOf(h)
    <3>1. n + 1 \notin 1 .. n
      OBVIOUS
    <3> HIDE DEF e0
    <3> QED
      BY <3>1, <1>6, <1>7, IdleFacts
  <2> HIDE DEF e0
  <2> QED
    BY <2>1, <2>2, <2>3, <2>4
<1> HIDE DEF e0
<1>9. RefersTo(h2, e0) = y /\ \A e \in ElementsOf(h) : RefersTo(h2, e) = RefersTo(h, e)
  <2>1. RefersTo(h2, e0) = y
    BY <1>6, <1>7 DEF RefersTo
  <2>2. ASSUME NEW e \in ElementsOf(h) PROVE RefersTo(h2, e) = RefersTo(h, e)
    <3>1. e[1] \in DOMAIN h /\ e[2] \in DOMAIN h[e[1]].refs
      BY IdleFacts
    <3>2. CASE e[1] = x
      <4>1. e[2] \in 1 .. n
        BY <3>1, <3>2, <1>6
      <4> QED
        BY <4>1, <3>2, <1>6 DEF RefersTo
    <3>3. CASE e[1] # x
      BY <3>1, <3>3, <1>5 DEF RefersTo
    <3> QED
      BY <3>2, <3>3
  <2> QED
    BY <2>1, <2>2
<1>10. /\ \A e \in ElementsOf(h) : e[1] \in DOMAIN h
       /\ \A z \in DOMAIN h : CountedIn(h2, z) = IF z = y THEN CountedIn(h, z) \cup {e0} ELSE CountedIn(h, z)
       /\ e0 \notin CountedIn(h, y)
  <2>1. \A e \in ElementsOf(h) : e[1] \in DOMAIN h
    BY IdleFacts
  <2>2. \A z \in DOMAIN h, e \in ElementsOf(h) :
          h2[e[1]].mem = h2[z].mem /\ RefersTo(h2, e) = z <=> h[e[1]].mem = h[z].mem /\ RefersTo(h, e) = z
    BY <2>1, <1>5, <1>9
  <2>3. \A z \in DOMAIN h : h2[e0[1]].mem = h2[z].mem /\ RefersTo(h2, e0) = z <=> z = y
    BY <1>5, <1>7, <1>9
  <2> QED
    BY <2>1, <2>2, <2>3, <1>8 DEF CountedIn
<1>11. ASSUME NEW z \in DOMAIN h PROVE h2[z].ref_count = r2[z] + Cardinality(CountedIn(h2, z)) /\ r2[z] \in Nat
  <2>1. h[z].ref_count = r[z] + Cardinality(CountedIn(h, z)) /\ r[z] \in Nat
    BY DEF IdleInv
  <2>2. IsFiniteSet(CountedIn(h, z)) /\ Cardinality(CountedIn(h, z)) \in Nat /\ h[z].ref_count \in Nat
    BY IdleFacts
  <2>3. CASE z = y
    <3>1. Cardinality(CountedIn(h2, z)) = Cardinality(CountedIn(h, z)) + 1
      BY <1>10, <2>2, <2>3, OneMore
    <3> QED
      BY <1>2, <1>5, <2>1, <2>2, <2>3, <3>1
  <2>4. CASE z # y
    BY <1>2, <1>5, <1>10, <2>1, <2>4
  <2> QED
    BY <2>3, <2>4
<1>12. ASSUME NEW e \in ElementsOf(h2)
       PROVE  /\ RefersTo(h2, e) \in DOMAIN h2
              /\ h2[e[1]].mem = "std" => h2[RefersTo(h2, e)].mem = "std"
  <2>1. CASE e \in ElementsOf(h)
    <3>1. RefersTo(h, e) \in DOMAIN h /\ (h[e[1]].mem = "std" => h[RefersTo(h, e)].mem = "std")
      BY <2>1 DEF IdleInv
    <3> QED
      BY <3>1, <1>1, <1>5, <1>9, <1>10, <2>1
  <2>2. CASE e = e0
    BY <2>2, <1>1, <1>5, <1>7, <1>9
  <2> QED
    BY <2>1, <2>2, <1>8
<1>13. /\ state \in {"normal", "try", "copying"} /\ DOMAIN h2 \subseteq Block /\ IsFiniteSet(DOMAIN h2)
       /\ state = "normal" => \A z \in DOMAIN h2 : h2[z].mem = "std"
  BY <1>1, <1>5 DEF IdleInv
<1>14. IdleInv(state, h2, r2)
  BY <1>1, <1>5, <1>11, <1>12, <1>13 DEF IdleInv
<1> QED
  BY <1>14 DEF h2, r2

\* The elements of a block that refer to an object.
ElementsTo(b, refs, z) == {<<b, k>> : k \in {j \in DOMAIN refs : refs[j] = z}}

\* The references an object is made of refer to each object as often as it is
\* counted down by.
LEMMA TimesFacts ==
  ASSUME NEW refs \in Seq(Block), NEW b, NEW z
  PROVE  /\ IsFiniteSet(ElementsTo(b, refs, z))
         /\ Cardinality(ElementsTo(b, refs, z)) = Times(refs, z)
         /\ Times(refs, z) \in Nat
<1> DEFINE S == {k \in DOMAIN refs : refs[k] = z}
           T == {<<b, k>> : k \in S}
           f == [k \in S |-> <<b, k>>]
<1>1. IsFiniteSet(S)
  <2>1. DOMAIN refs = 1 .. Len(refs) /\ Len(refs) \in Nat
    OBVIOUS
  <2>2. IsFiniteSet(DOMAIN refs)
    BY <2>1, IntervalSize
  <2> QED
    BY <2>2, FS_Subset
<1>2. f \in Bijection(S, T)
  <2>1. f \in [S -> T] /\ (\A t \in T : \E k \in S : f[k] = t) /\ \A j, k \in S : f[j] = f[k] => j = k
    OBVIOUS
  <2> HIDE DEF f, S, T
  <2> QED
    BY <2>1 DEF Bijection, Injection, Surjection, IsInjective
<1>3. ExistsBijection(S, T)
  BY <1>2 DEF ExistsBijection
<1>4. IsFiniteSet(T) /\ Cardinality(T) = Cardinality(S) /\ Cardinality(S) \in Nat
  <2> HIDE DEF S, T
  <2> QED
    BY <1>1, <1>3, FS_Bijection, FS_CardinalityType
<1> QED
  BY <1>4 DEF Times, ElementsTo

\* An object is made of references the program owned.
LEMMA BuildKeeps ==
  ASSUME NEW state, NEW h, NEW r, IdleInv(state, h, r), NEW b \in Block, b \notin DOMAIN h,
         NEW o \in Object, o.ref_count = 1, o.mem = (IF state = "try" THEN "try" ELSE "std"),
         \A k \in DOMAIN o.refs : o.refs[k] \in DOMAIN h /\ (h[o.refs[k]].mem = "try" => state = "try"),
         NEW h2, h2 = [x \in DOMAIN h \cup {b} |-> IF x = b THEN o ELSE h[x]],
         NEW r2, DOMAIN r2 = DOMAIN h2, r2[b] = 1,
         \A x \in DOMAIN h : r2[x] = (IF h[x].mem = o.mem THEN r[x] - Times(o.refs, x) ELSE r[x]) /\ r2[x] >= 0
  PROVE  IdleInv(state, h2, r2)
<1> DEFINE New == {b} \X DOMAIN o.refs
           N(z) == ElementsTo(b, o.refs, z)
<1>1. DOMAIN h2 = DOMAIN h \cup {b} /\ h2[b] = o /\ \A x \in DOMAIN h : h2[x] = h[x]
  OBVIOUS
<1>2. o.refs \in Seq(Block) /\ o.mem \in Memory
  BY DEF Object
<1>3. \A e \in New : e[1] = b /\ e[2] \in DOMAIN o.refs /\ e = <<b, e[2]>>
  OBVIOUS
<1>4. ElementsOf(h2) = ElementsOf(h) \cup New
  BY <1>1 DEF ElementsOf
<1>5. \A e \in ElementsOf(h) : e[1] \in DOMAIN h /\ e[1] # b
  BY IdleFacts
<1>6. /\ \A e \in ElementsOf(h) : RefersTo(h2, e) = RefersTo(h, e) /\ RefersTo(h2, e) \in DOMAIN h
      /\ \A e \in New : RefersTo(h2, e) = o.refs[e[2]] /\ RefersTo(h2, e) \in DOMAIN h
  <2>1. \A e \in ElementsOf(h) : RefersTo(h2, e) = RefersTo(h, e)
    BY <1>1, <1>5 DEF RefersTo
  <2>2. \A e \in ElementsOf(h) : RefersTo(h, e) \in DOMAIN h
    BY DEF IdleInv
  <2>3. ASSUME NEW e \in New PROVE RefersTo(h2, e) = o.refs[e[2]] /\ RefersTo(h2, e) \in DOMAIN h
    BY <1>1, <1>3, <2>3 DEF RefersTo
  <2> QED
    BY <2>1, <2>2, <2>3
<1>7. CountedIn(h2, b) = {}
  BY <1>4, <1>6 DEF CountedIn
<1>8. ASSUME NEW z \in DOMAIN h
      PROVE  CountedIn(h2, z) = CountedIn(h, z) \cup (IF h[z].mem = o.mem THEN N(z) ELSE {})
  <2>1. ASSUME NEW e \in CountedIn(h2, z)
        PROVE  e \in CountedIn(h, z) \cup (IF h[z].mem = o.mem THEN N(z) ELSE {})
    <3>1. e \in ElementsOf(h2) /\ h2[e[1]].mem = h2[z].mem /\ RefersTo(h2, e) = z
      BY DEF CountedIn
    <3>2. CASE e \in ElementsOf(h)
      BY <3>1, <3>2, <1>1, <1>5, <1>6 DEF CountedIn
    <3>3. CASE e \in New
      <4>1. h[z].mem = o.mem
        BY <3>1, <3>3, <1>1, <1>3
      <4>2. e = <<b, e[2]>> /\ e[2] \in DOMAIN o.refs /\ o.refs[e[2]] = z
        BY <3>1, <3>3, <1>3, <1>6
      <4> QED
        BY <4>1, <4>2 DEF ElementsTo
    <3> QED
      BY <3>1, <3>2, <3>3, <1>4
  <2>2. ASSUME NEW e \in CountedIn(h, z) PROVE e \in CountedIn(h2, z)
    <3>1. e \in ElementsOf(h) /\ h[e[1]].mem = h[z].mem /\ RefersTo(h, e) = z
      BY DEF CountedIn
    <3> QED
      BY <3>1, <1>1, <1>4, <1>5, <1>6 DEF CountedIn
  <2>3. ASSUME h[z].mem = o.mem, NEW e \in N(z) PROVE e \in CountedIn(h2, z)
    <3>1. PICK k \in DOMAIN o.refs : e = <<b, k>> /\ o.refs[k] = z
      BY <2>3 DEF ElementsTo
    <3>2. e \in New /\ e[1] = b /\ e[2] = k
      BY <3>1
    <3> HIDE DEF New
    <3> QED
      BY <3>1, <3>2, <2>3, <1>1, <1>4, <1>6 DEF CountedIn
  <2> QED
    BY <2>1, <2>2, <2>3
<1>9. ASSUME NEW z \in DOMAIN h PROVE CountedIn(h, z) \cap N(z) = {}
  <2>1. \A e \in CountedIn(h, z) : e[1] # b
    BY <1>5 DEF CountedIn
  <2>2. \A e \in N(z) : e[1] = b
    BY DEF ElementsTo
  <2> QED
    BY <2>1, <2>2
<1>10. ASSUME NEW z \in DOMAIN h
       PROVE  h2[z].ref_count = r2[z] + Cardinality(CountedIn(h2, z)) /\ r2[z] \in Nat
  <2>1. h[z].ref_count = r[z] + Cardinality(CountedIn(h, z)) /\ r[z] \in Nat /\ h2[z] = h[z]
    BY <1>1 DEF IdleInv
  <2>2. IsFiniteSet(CountedIn(h, z)) /\ Cardinality(CountedIn(h, z)) \in Nat
    BY IdleFacts
  <2>3. IsFiniteSet(N(z)) /\ Cardinality(N(z)) = Times(o.refs, z) /\ Times(o.refs, z) \in Nat
    BY <1>2, TimesFacts
  <2>4. CASE h[z].mem = o.mem
    <3>1. Cardinality(CountedIn(h2, z)) = Cardinality(CountedIn(h, z)) + Cardinality(N(z))
      <4>1. CountedIn(h2, z) = CountedIn(h, z) \cup N(z) /\ CountedIn(h, z) \cap N(z) = {}
        BY <2>4, <1>8, <1>9
      <4>2. Cardinality({}) = 0
        BY FS_EmptySet
      <4>3. Cardinality(CountedIn(h, z) \cup N(z)) =
              Cardinality(CountedIn(h, z)) + Cardinality(N(z)) - Cardinality(CountedIn(h, z) \cap N(z))
        <5> HIDE DEF N
        <5> QED
          BY <2>2, <2>3, FS_Union
      <4>4. Cardinality(CountedIn(h2, z)) = Cardinality(CountedIn(h, z)) + Cardinality(N(z)) - 0
        BY <4>1, <4>2, <4>3
      <4> HIDE DEF N
      <4> QED
        BY <4>4, <2>2, <2>3
    <3>2. r2[z] = r[z] - Times(o.refs, z) /\ r2[z] >= 0
      BY <2>4
    <3> HIDE DEF N
    <3> QED
      BY <2>1, <2>2, <2>3, <3>1, <3>2
  <2>5. CASE h[z].mem # o.mem
    <3>1. CountedIn(h2, z) = CountedIn(h, z) /\ r2[z] = r[z]
      BY <2>5, <1>8
    <3> QED
      BY <3>1, <2>1
  <2> QED
    BY <2>4, <2>5
<1>11. h2[b].ref_count = r2[b] + Cardinality(CountedIn(h2, b)) /\ r2[b] \in Nat
  <2>1. Cardinality(CountedIn(h2, b)) = 0
    BY <1>7, FS_EmptySet
  <2>2. h2[b].ref_count = 1
    BY <1>1
  <2> QED
    BY <2>1, <2>2
<1>12. ASSUME NEW e \in ElementsOf(h2)
       PROVE  /\ RefersTo(h2, e) \in DOMAIN h2
              /\ h2[e[1]].mem = "std" => h2[RefersTo(h2, e)].mem = "std"
  <2>1. CASE e \in ElementsOf(h)
    <3>1. h[e[1]].mem = "std" => h[RefersTo(h, e)].mem = "std"
      BY <2>1 DEF IdleInv
    <3> QED
      BY <3>1, <2>1, <1>1, <1>5, <1>6
  <2>2. CASE e \in New
    <3>1. RefersTo(h2, e) = o.refs[e[2]] /\ RefersTo(h2, e) \in DOMAIN h /\ e[1] = b /\ e[2] \in DOMAIN o.refs
      BY <2>2, <1>3, <1>6
    <3>2. h[RefersTo(h2, e)].mem \in Memory
      BY <3>1, IdleFacts
    <3>3. o.mem = "std" => state # "try"
      OBVIOUS
    <3>4. h[RefersTo(h2, e)].mem = "try" => state = "try"
      BY <3>1
    <3> QED
      BY <3>1, <3>2, <3>3, <3>4, <1>1 DEF Memory
  <2> QED
    BY <2>1, <2>2, <1>4
<1>13. /\ state \in {"normal", "try", "copying"} /\ DOMAIN h2 \subseteq Block
       /\ \A x \in DOMAIN h2 : h2[x] \in Object
       /\ state = "normal" => \A x \in DOMAIN h2 : h2[x].mem = "std"
  BY <1>1 DEF IdleInv
<1>14. IsFiniteSet(DOMAIN h2)
  <2>1. IsFiniteSet(DOMAIN h)
    BY DEF IdleInv
  <2> QED
    BY <2>1, <1>1, FS_AddElement
<1>15. \A z \in DOMAIN h2 : h2[z].ref_count = r2[z] + Cardinality(CountedIn(h2, z)) /\ r2[z] \in Nat
  BY <1>1, <1>10, <1>11
<1> QED
  BY <1>12, <1>13, <1>14, <1>15 DEF IdleInv

\* At the end of a transaction the program forgets the objects made in it.
LEMMA StdKeeps ==
  ASSUME NEW state, NEW h, NEW r, IdleInv(state, h, r),
         NEW std, std = {x \in DOMAIN h : h[x].mem = "std"}
  PROVE  IdleInv("normal", Restrict(h, std), Restrict(r, std))
<1> DEFINE h2 == Restrict(h, std)
           r2 == Restrict(r, std)
<1>1. /\ DOMAIN h2 = std /\ DOMAIN r2 = std /\ std \subseteq DOMAIN h
      /\ \A x \in std : h2[x] = h[x] /\ r2[x] = r[x]
  BY DEF Restrict, IdleInv
<1> HIDE DEF h2, r2
<1>2. /\ ElementsOf(h2) \subseteq ElementsOf(h)
      /\ \A e \in ElementsOf(h2) : e[1] \in std
      /\ \A e \in ElementsOf(h) : e[1] \in std => e \in ElementsOf(h2)
  <2>1. ASSUME NEW e \in ElementsOf(h2) PROVE e \in ElementsOf(h) /\ e[1] \in std
    BY <1>1 DEF ElementsOf
  <2>2. ASSUME NEW e \in ElementsOf(h), e[1] \in std PROVE e \in ElementsOf(h2)
    <3>1. e = <<e[1], e[2]>> /\ e[2] \in DOMAIN h[e[1]].refs
      BY IdleFacts
    <3> QED
      BY <3>1, <2>2, <1>1 DEF ElementsOf
  <2> QED
    BY <2>1, <2>2
<1>3. \A e \in ElementsOf(h2) : RefersTo(h2, e) = RefersTo(h, e)
  BY <1>1, <1>2 DEF RefersTo
<1>4. ASSUME NEW x \in std PROVE CountedIn(h2, x) = CountedIn(h, x)
  <2>1. \A e \in ElementsOf(h) : h[e[1]].mem = "std" => e[1] \in std
    BY IdleFacts
  <2> QED
    BY <2>1, <1>1, <1>2, <1>3 DEF CountedIn
<1>5. ASSUME NEW x \in std PROVE h2[x].ref_count = r2[x] + Cardinality(CountedIn(h2, x)) /\ r2[x] \in Nat
  BY <1>1, <1>4 DEF IdleInv
<1>6. ASSUME NEW e \in ElementsOf(h2)
      PROVE  /\ RefersTo(h2, e) \in std
             /\ h2[e[1]].mem = "std" => h2[RefersTo(h2, e)].mem = "std"
  <2>1. RefersTo(h, e) \in DOMAIN h /\ (h[e[1]].mem = "std" => h[RefersTo(h, e)].mem = "std")
    BY <1>2 DEF IdleInv
  <2>2. RefersTo(h, e) \in std
    BY <2>1, <1>2
  <2> QED
    BY <2>2, <1>1, <1>3
<1>7. IsFiniteSet(std) /\ std \subseteq Block /\ \A x \in std : h2[x] \in Object /\ h2[x].mem = "std"
  <2>1. IsFiniteSet(DOMAIN h) /\ DOMAIN h \subseteq Block /\ \A x \in DOMAIN h : h[x] \in Object
    BY DEF IdleInv
  <2> QED
    BY <2>1, <1>1, FS_Subset
<1>8. IdleInv("normal", h2, r2)
  BY <1>1, <1>5, <1>6, <1>7 DEF IdleInv
<1> QED
  BY <1>8 DEF h2, r2

\* Nothing has been made yet.
LEMMA NothingMade ==
  IdleInv("normal", <<>>, <<>>)
<1>1. DOMAIN <<>> = {}
  OBVIOUS
<1>2. ElementsOf(<<>>) = {}
  BY <1>1 DEF ElementsOf
<1>3. IsFiniteSet({})
  BY FS_EmptySet
<1> QED
  BY <1>1, <1>2, <1>3 DEF IdleInv
\* The deletion of an object begins: the last reference to it was the program's.
LEMMA StartKeeps ==
  ASSUME RefsInv, stack = <<>>, NEW x \in DOMAIN heap, roots[x] > 0, heap[x].ref_count = 1, heap[x].mem = CurrMemory,
         m.state = "copying" => ~TryRefersTo("std"),
         m' = m, heap' = heap, roots' = [roots EXCEPT ![x] = @ - 1], stack' = <<NewFrame(x)>>
  PROVE  RefsInv'
<1>1. Typed /\ CallsSound /\ Counted /\ ElementsLive /\ StdRefs /\ NormalStd
  BY DEF RefsInv
<1>2. x \in Block /\ DOMAIN roots = DOMAIN heap /\ \A y \in DOMAIN heap : roots[y] \in Nat
  BY <1>1 DEF Typed
<1>3. PICK f : f = NewFrame(x)
  OBVIOUS
<1>4. /\ f \in Frame /\ f.obj = NULL /\ f.i = 0 /\ Places(f) = {0} /\ f.queue[0] = x
      /\ 0 \in 0 .. MAX_QUEUE_SIZE - 1
  BY <1>2, <1>3, NewFrameFacts
<1>5. stack' = <<f>> /\ stack' \in Seq(Frame) /\ Len(stack') = 1
  BY <1>3, <1>4
<1>6. Calls' = {1} /\ Call(1)' = f
  <2>1. Calls' = 1 .. 1
    BY <1>5 DEF Calls
  <2>2. Len(stack') + 1 - 1 = 1
    BY <1>5
  <2>3. Call(1)' = f
    BY <1>5, <2>2 DEF Call
  <2>4. 1 .. 1 = {1}
    OBVIOUS
  <2> QED
    BY <2>1, <2>3, <2>4
<1>7. \A d \in Calls' : d = 1 /\ Call(d)' = f
  BY <1>6
<1>8. CurrMemory' = CurrMemory /\ Elements' = Elements /\ \A e : RefAt(e)' = RefAt(e)
  BY DEF CurrMemory, Elements, RefAt
<1>9. /\ roots'[x] = roots[x] - 1 /\ DOMAIN roots' = DOMAIN heap
      /\ \A y \in DOMAIN heap : y # x => roots'[y] = roots[y]
  BY <1>2
<1>10. \A y \in DOMAIN heap : roots'[y] \in Nat
  BY <1>2, <1>9
<1>11. Typed'
  BY <1>1, <1>5, <1>9, <1>10 DEF Typed
<1>12. \A e \in Elements : ~Released(e[1], e[2]) /\ ~Released(e[1], e[2])'
  <2> TAKE e \in Elements
  <2>1. e[1] \in DOMAIN heap
    BY ElementFacts
  <2>2. e[1] # NULL
    BY <1>1, <2>1, ObjectFacts
  <2>3. ~Released(e[1], e[2])'
    BY <1>4, <1>7, <2>2 DEF Released
  <2> QED
    BY <2>3, Idle
<1>13. Pending(x)'
  BY <1>8 DEF Pending
<1>14. CallsSound'
  <2> SUFFICES ASSUME NEW d \in Calls'
               PROVE  /\ (Call(d).obj = NULL)' => (Call(d).i = 0)'
                      /\ (Call(d).obj # NULL)' =>
                            Pending(Call(d).obj)' /\ (Call(d).i <= Len(heap[Call(d).obj].refs))'
                      /\ \A p \in Places(Call(d))' : Pending(Call(d).queue[p])'
    BY DEF CallsSound
  <2>1. Call(d)' = f
    BY <1>7
  <2>2. Places(Call(d))' = {0}
    BY <2>1, <1>4 DEF Places
  <2> QED
    BY <1>4, <1>13, <2>1, <2>2 DEF Pending
<1>15. Counted'
  <2> SUFFICES ASSUME NEW y \in DOMAIN heap
               PROVE  heap[y].ref_count =
                        roots'[y] + Cardinality(InObjects(y)') + Cardinality(InRings(y)') + Cardinality(InLoops(y)')
    BY DEF Counted
  <2>1. heap[y].ref_count =
          roots[y] + Cardinality(InObjects(y)) + Cardinality(InRings(y)) + Cardinality(InLoops(y))
    BY <1>1 DEF Counted
  <2>2. InRings(y) = {} /\ InLoops(y) = {}
    BY Idle
  <2>3. InObjects(y)' = InObjects(y)
    BY <1>8, <1>12 DEF InObjects, RefAt
  <2>4. InLoops(y)' = {}
    <3>1. y # NULL
      BY <1>1, ObjectFacts
    <3> QED
      BY <3>1, <1>4, <1>7 DEF InLoops
  <2>5. Cardinality({}) = 0
    BY FS_EmptySet
  <2>6. Cardinality(InObjects(y)) \in Nat
    BY <1>1, CountedFinite
  <2>7. CASE y = x
    <3> DEFINE q == <<1, 0>>
    <3>1. q[1] = 1 /\ q[2] = 0 /\ q \in Calls' \X (0 .. MAX_QUEUE_SIZE - 1)
      BY <1>4, <1>6
    <3>2. InRings(x)' = {q}
      <4>1. ASSUME NEW p \in InRings(x)' PROVE p = q
        <5>1. p \in Calls' \X (0 .. MAX_QUEUE_SIZE - 1) /\ p[2] \in Places(Call(p[1]))'
          BY DEF InRings
        <5>2. p[1] = 1 /\ Call(p[1])' = f
          BY <5>1, <1>7
        <5>3. Places(Call(p[1]))' = {0}
          BY <5>2, <1>4 DEF Places
        <5>4. p[2] = 0 /\ p = <<p[1], p[2]>>
          BY <5>1, <5>3
        <5> QED
          BY <5>2, <5>4
      <4>2. q \in InRings(x)'
        <5>1. Call(q[1])' = f
          BY <3>1, <1>6
        <5>2. Places(Call(q[1]))' = {0}
          BY <5>1, <1>4 DEF Places
        <5> HIDE DEF q
        <5> QED
          BY <3>1, <5>1, <5>2, <1>4 DEF InRings
      <4> QED
        BY <4>1, <4>2
    <3>3. Cardinality({q}) = 1
      BY FS_Singleton
    <3>4. Cardinality(InRings(x)') = 1
      BY <3>2, <3>3
    <3>5. roots[x] = 1 /\ Cardinality(InObjects(x)) = 0
      <4>1. 1 = roots[x] + Cardinality(InObjects(x)) + 0 + 0
        BY <2>1, <2>2, <2>5, <2>7
      <4> QED
        BY <4>1, <2>6, <2>7, <1>2
    <3>6. roots'[x] = 0 /\ Cardinality(InObjects(x)') = 0 /\ Cardinality(InLoops(x)') = 0
      <4>1. roots'[x] = 0
        BY <3>5, <1>9
      <4>2. Cardinality(InObjects(x)') = Cardinality(InObjects(x))
        BY <2>3, <2>7
      <4>3. Cardinality(InLoops(x)') = 0
        BY <2>4, <2>5, <2>7
      <4> QED
        BY <4>1, <4>2, <4>3, <3>5
    <3> QED
      BY <2>7, <3>4, <3>6
  <2>8. CASE y # x
    <3>1. InRings(y)' = {}
      <4> SUFFICES ASSUME NEW p \in InRings(y)' PROVE FALSE
        OBVIOUS
      <4>1. p \in Calls' \X (0 .. MAX_QUEUE_SIZE - 1) /\ p[2] \in Places(Call(p[1]))' /\ Call(p[1])'.queue[p[2]] = y
        BY DEF InRings
      <4>2. Call(p[1])' = f
        BY <4>1, <1>7
      <4>3. Places(Call(p[1]))' = {0}
        BY <4>2, <1>4 DEF Places
      <4> QED
        BY <4>1, <4>2, <4>3, <1>4, <2>8
    <3>2. roots'[y] = roots[y]
      BY <1>9, <2>8
    <3> QED
      BY <3>1, <3>2, <2>1, <2>2, <2>3, <2>4
  <2> QED
    BY <2>7, <2>8
<1>16. ElementsLive' /\ StdRefs'
  <2>1. ElementsLive'
    BY <1>1, <1>8, <1>12 DEF ElementsLive
  <2>2. StdRefs'
    BY <1>1, <1>8, <1>12 DEF StdRefs
  <2> QED
    BY <2>1, <2>2
<1>17. NormalStd'
  BY <1>1 DEF NormalStd
<1>18. TryRefs'
  <2> SUFFICES ASSUME m.state = "copying", NEW e \in Elements, heap[e[1]].mem = "try"
               PROVE  RefAt(e) \in DOMAIN heap /\ heap[RefAt(e)].mem = "try"
    BY <1>8 DEF TryRefs
  <2>1. RefAt(e) \in DOMAIN heap
    BY <1>1, <1>12 DEF ElementsLive
  <2>2. heap[RefAt(e)].mem # "std"
    <3>1. e[1] \in DOMAIN heap /\ e[2] \in DOMAIN heap[e[1]].refs
      BY ElementFacts
    <3>2. e[1] \in InMemory(heap, "try")
      BY <3>1 DEF InMemory
    <3>3. ~TryRefersTo("std")
      OBVIOUS
    <3> QED
      BY <3>1, <3>2, <3>3 DEF TryRefersTo, RefAt
  <2>3. heap[RefAt(e)].mem \in Memory
    BY <2>1, <1>1, ObjectFacts
  <2> QED
    BY <2>1, <2>2, <2>3 DEF Memory
<1> QED
  BY <1>11, <1>14, <1>15, <1>16, <1>17, <1>18 DEF RefsInv

-----------------------------------------------------------------------------
(* What the allocator and the blocks in use, of which blocks gives the      *)
(* bytes and the memory, have to do with each other.                        *)
CodesOf(blocks) == [x \in DOMAIN blocks |-> [code |-> min_size_code(blocks[x].bytes), mem |-> blocks[x].mem]]
BytesOf(blocks) == [x \in DOMAIN blocks |-> blocks[x].bytes]
StdOf(blocks) == {x \in DOMAIN blocks : blocks[x].mem = "std"}

BlocksTyped(blocks) ==
  /\ IsFiniteSet(DOMAIN blocks)
  /\ \A x \in DOMAIN blocks :
       /\ blocks[x] \in [bytes : Nat, mem : Memory]
       /\ blocks[x].bytes <= size_code_size(min_size_code(blocks[x].bytes))

Tracked(a, blocks) ==
  /\ AllocInv(a, CodesOf(blocks)) /\ BlocksTyped(blocks)
  /\ a.live_objs = StdOf(blocks)
  /\ a.live_mem_usage = Total(BytesOf(blocks), StdOf(blocks))

\* The objects and the buffers, of which there is one at a time, as blocks.
BlocksOf(h, b) ==
  [x \in DOMAIN h \cup DOMAIN b |->
     IF x \in DOMAIN h THEN [bytes |-> obj_mem_size(h[x]), mem |-> h[x].mem] ELSE b[x]]

BuffersTyped(h, b) ==
  /\ DOMAIN b \subseteq Block /\ \A x \in DOMAIN b : b[x] \in [bytes : BufferSize, mem : Memory]
  /\ DOMAIN h \cap DOMAIN b = {}
  /\ \A x, y \in DOMAIN b : x = y

MemInv == Tracked(m, BlocksOf(heap, buffers)) /\ BuffersTyped(heap, buffers)

IInv == RefsInv /\ MemInv
-----------------------------------------------------------------------------
(* The blocks in use, as they come and go. *)

\* The sizes of the standard blocks have a sum.
LEMMA StdSummed ==
  ASSUME NEW blocks, BlocksTyped(blocks)
  PROVE  Summed(StdOf(blocks), BytesOf(blocks))
<1>1. StdOf(blocks) \in SUBSET DOMAIN blocks
  BY DEF StdOf
<1>2. IsFiniteSet(StdOf(blocks))
  BY <1>1, FS_Subset DEF BlocksTyped
<1>3. \A x \in DOMAIN blocks : BytesOf(blocks)[x] \in Nat
  BY DEF BlocksTyped, BytesOf
<1> QED
  BY <1>1, <1>2, <1>3 DEF Summed

\* A block is added to those in use.
LEMMA BlockAdded ==
  ASSUME NEW blocks, BlocksTyped(blocks), NEW x, x \notin DOMAIN blocks, NEW bytes \in Nat, NEW mem \in Memory,
         bytes <= size_code_size(min_size_code(bytes)),
         NEW more, more = [y \in DOMAIN blocks \cup {x} |-> IF y = x THEN [bytes |-> bytes, mem |-> mem] ELSE blocks[y]]
  PROVE  /\ BlocksTyped(more)
         /\ CodesOf(more) = Taken(CodesOf(blocks), x, min_size_code(bytes), mem)
         /\ mem = "std" => /\ StdOf(more) = StdOf(blocks) \cup {x}
                           /\ Total(BytesOf(more), StdOf(more)) = Total(BytesOf(blocks), StdOf(blocks)) + bytes
         /\ mem = "try" => /\ StdOf(more) = StdOf(blocks)
                           /\ Total(BytesOf(more), StdOf(more)) = Total(BytesOf(blocks), StdOf(blocks))
<1>1. /\ DOMAIN more = DOMAIN blocks \cup {x} /\ more[x] = [bytes |-> bytes, mem |-> mem]
      /\ \A y \in DOMAIN blocks : more[y] = blocks[y] /\ y # x
  OBVIOUS
<1>2. BlocksTyped(more)
  <2>1. IsFiniteSet(DOMAIN more)
    BY <1>1, FS_AddElement DEF BlocksTyped
  <2>2. \A y \in DOMAIN blocks : /\ blocks[y] \in [bytes : Nat, mem : Memory]
                                 /\ blocks[y].bytes <= size_code_size(min_size_code(blocks[y].bytes))
    BY DEF BlocksTyped
  <2>3. more[x] \in [bytes : Nat, mem : Memory] /\ more[x].bytes = bytes
    BY <1>1
  <2> QED
    BY <1>1, <2>1, <2>2, <2>3 DEF BlocksTyped
<1>3. CodesOf(more) = Taken(CodesOf(blocks), x, min_size_code(bytes), mem)
  <2>1. DOMAIN CodesOf(blocks) = DOMAIN blocks
    BY DEF CodesOf
  <2>2. \A y \in DOMAIN more : [code |-> min_size_code(more[y].bytes), mem |-> more[y].mem] =
          IF y = x THEN [code |-> min_size_code(bytes), mem |-> mem] ELSE CodesOf(blocks)[y]
    BY <1>1 DEF CodesOf
  <2> QED
    BY <1>1, <2>1, <2>2 DEF CodesOf, Taken
<1>4. Summed(StdOf(more), BytesOf(more))
  BY <1>2, StdSummed
<1>5. Total(BytesOf(blocks), StdOf(blocks)) \in Nat
  BY StdSummed, TotalFacts
<1>6. Total(BytesOf(more), StdOf(blocks)) = Total(BytesOf(blocks), StdOf(blocks))
  <2>1. \A y \in StdOf(blocks) : BytesOf(more)[y] = BytesOf(blocks)[y]
    BY <1>1 DEF StdOf, BytesOf
  <2> QED
    BY <2>1, SameTotal
<1>7. CASE mem = "std"
  <2>1. StdOf(more) = StdOf(blocks) \cup {x} /\ x \notin StdOf(blocks)
    BY <1>1, <1>7 DEF StdOf
  <2>2. x \in StdOf(more) /\ StdOf(more) \ {x} = StdOf(blocks)
    BY <2>1
  <2>3. BytesOf(more)[x] = bytes
    BY <1>1 DEF BytesOf
  <2>4. Total(BytesOf(more), StdOf(more)) = BytesOf(more)[x] + Total(BytesOf(more), StdOf(more) \ {x})
    <3>1. PICK f : f = BytesOf(more)
      OBVIOUS
    <3>2. PICK S : S = StdOf(more)
      OBVIOUS
    <3>3. Summed(S, f) /\ x \in S
      BY <1>4, <2>2, <3>1, <3>2
    <3>4. Total(f, S) = f[x] + Total(f, S \ {x})
      BY <3>3, TotalFacts
    <3> QED
      BY <3>1, <3>2, <3>4
  <2> QED
    BY <1>2, <1>3, <1>5, <1>6, <1>7, <2>1, <2>2, <2>3, <2>4
<1>8. CASE mem = "try"
  <2>1. StdOf(more) = StdOf(blocks)
    BY <1>1, <1>8 DEF StdOf
  <2> QED
    BY <1>2, <1>3, <1>6, <1>8, <2>1
<1> QED
  BY <1>7, <1>8 DEF Memory

\* A block is taken from those in use.
LEMMA BlockRemoved ==
  ASSUME NEW blocks, BlocksTyped(blocks), NEW x \in DOMAIN blocks,
         NEW fewer, fewer = [y \in DOMAIN blocks \ {x} |-> blocks[y]]
  PROVE  /\ BlocksTyped(fewer)
         /\ CodesOf(fewer) = Without(CodesOf(blocks), x)
         /\ blocks[x].mem = "std" =>
              /\ StdOf(fewer) = StdOf(blocks) \ {x}
              /\ Total(BytesOf(fewer), StdOf(fewer)) = Total(BytesOf(blocks), StdOf(blocks)) - blocks[x].bytes
         /\ blocks[x].mem = "try" =>
              /\ StdOf(fewer) = StdOf(blocks)
              /\ Total(BytesOf(fewer), StdOf(fewer)) = Total(BytesOf(blocks), StdOf(blocks))
<1>1. DOMAIN fewer = DOMAIN blocks \ {x} /\ \A y \in DOMAIN fewer : fewer[y] = blocks[y]
  OBVIOUS
<1>2. BlocksTyped(fewer)
  <2>1. IsFiniteSet(DOMAIN fewer)
    BY <1>1, FS_RemoveElement DEF BlocksTyped
  <2> QED
    BY <1>1, <2>1 DEF BlocksTyped
<1>3. CodesOf(fewer) = Without(CodesOf(blocks), x)
  <2>1. DOMAIN CodesOf(blocks) = DOMAIN blocks
    BY DEF CodesOf
  <2>2. \A y \in DOMAIN fewer : [code |-> min_size_code(fewer[y].bytes), mem |-> fewer[y].mem] = CodesOf(blocks)[y]
    BY <1>1 DEF CodesOf
  <2> QED
    BY <1>1, <2>1, <2>2 DEF CodesOf, Without
<1>4. Summed(StdOf(blocks), BytesOf(blocks))
  BY StdSummed
<1>5. Total(BytesOf(fewer), StdOf(fewer)) = Total(BytesOf(blocks), StdOf(fewer))
  <2>1. \A y \in StdOf(fewer) : BytesOf(fewer)[y] = BytesOf(blocks)[y]
    BY <1>1 DEF StdOf, BytesOf
  <2> QED
    BY <2>1, SameTotal
<1>6. blocks[x].bytes \in Nat /\ blocks[x].mem \in Memory /\ BytesOf(blocks)[x] = blocks[x].bytes
  BY DEF BlocksTyped, BytesOf
<1>7. CASE blocks[x].mem = "std"
  <2>1. StdOf(fewer) = StdOf(blocks) \ {x} /\ x \in StdOf(blocks)
    BY <1>1, <1>7 DEF StdOf
  <2>2. Total(BytesOf(blocks), StdOf(blocks)) = BytesOf(blocks)[x] + Total(BytesOf(blocks), StdOf(blocks) \ {x})
        /\ Total(BytesOf(blocks), StdOf(blocks) \ {x}) \in Nat
    BY <1>4, <2>1, TotalFacts
  <2>3. Total(BytesOf(fewer), StdOf(fewer)) = Total(BytesOf(blocks), StdOf(blocks)) - blocks[x].bytes
    <3>1. PICK rest \in Nat : rest = Total(BytesOf(blocks), StdOf(blocks) \ {x})
      BY <2>2
    <3>2. Total(BytesOf(blocks), StdOf(blocks)) = blocks[x].bytes + rest
      BY <1>6, <2>2, <3>1
    <3>3. Total(BytesOf(fewer), StdOf(fewer)) = rest
      BY <1>5, <2>1, <3>1
    <3>4. PICK bytes \in Nat : bytes = blocks[x].bytes
      BY <1>6
    <3>5. rest = (bytes + rest) - bytes
      BY <3>1, <3>4
    <3> QED
      BY <3>2, <3>3, <3>4, <3>5
  <2> QED
    BY <1>2, <1>3, <1>7, <2>1, <2>3
<1>8. CASE blocks[x].mem = "try"
  <2>1. StdOf(fewer) = StdOf(blocks)
    BY <1>1, <1>8 DEF StdOf
  <2> QED
    BY <1>2, <1>3, <1>5, <1>8, <2>1
<1> QED
  BY <1>6, <1>7, <1>8 DEF Memory

\* new_obj gives out a block that is not in use. The bytes counted may be more
\* than those asked for, if their blocks are of the same size.
LEMMA TakeBlock ==
  ASSUME NEW a, NEW blocks, Tracked(a, blocks), NEW bytes \in Nat, Fits(bytes), CanAlloc(a, bytes),
         NEW counted \in Nat, min_size_code(counted) = min_size_code(bytes),
         counted <= size_code_size(min_size_code(counted)),
         NEW x, x = new_obj(a, bytes, counted).block, NEW a2, a2 = new_obj(a, bytes, counted).m,
         NEW mem, mem = (IF a.state = "try" THEN "try" ELSE "std"),
         NEW more, more = [y \in DOMAIN blocks \cup {x} |-> IF y = x THEN [bytes |-> counted, mem |-> mem] ELSE blocks[y]]
  PROVE  x \in Block /\ x \notin DOMAIN blocks /\ a2.state = a.state /\ Tracked(a2, more)
<1>1. AllocInv(a, CodesOf(blocks)) /\ BlocksTyped(blocks) /\ a.live_objs = StdOf(blocks)
      /\ a.live_mem_usage = Total(BytesOf(blocks), StdOf(blocks))
  BY DEF Tracked
<1>2. a.curr_pool = mem /\ mem \in Memory
  BY <1>1 DEF AllocInv, Modes, Memory
<1>3. counted \in Int
  OBVIOUS
<1>4. /\ x \in Block /\ x \notin DOMAIN CodesOf(blocks)
      /\ AllocInv(a2, Taken(CodesOf(blocks), x, min_size_code(bytes), mem))
      /\ a2.state = a.state
      /\ a2.live_objs = IF a.state = "try" THEN a.live_objs ELSE a.live_objs \cup {x}
      /\ a2.live_mem_usage = IF a.state = "try" THEN a.live_mem_usage ELSE a.live_mem_usage + counted
  <2>1. PICK used : used = CodesOf(blocks)
    OBVIOUS
  <2>2. AllocInv(a, used)
    BY <1>1, <2>1
  <2>3. Obtained(a, used, bytes, counted, x, a2)
    BY ONLY <1>3, <2>2, bytes \in Nat, Fits(bytes), CanAlloc(a, bytes), NewObjKeeps,
            x = new_obj(a, bytes, counted).block, a2 = new_obj(a, bytes, counted).m
  <2> QED
    BY <1>2, <2>1, <2>3 DEF Obtained
<1>5. x \notin DOMAIN blocks
  BY <1>4 DEF CodesOf
<1>6. /\ BlocksTyped(more)
      /\ CodesOf(more) = Taken(CodesOf(blocks), x, min_size_code(counted), mem)
      /\ mem = "std" => /\ StdOf(more) = StdOf(blocks) \cup {x}
                        /\ Total(BytesOf(more), StdOf(more)) = Total(BytesOf(blocks), StdOf(blocks)) + counted
      /\ mem = "try" => /\ StdOf(more) = StdOf(blocks)
                        /\ Total(BytesOf(more), StdOf(more)) = Total(BytesOf(blocks), StdOf(blocks))
  BY <1>1, <1>2, <1>5, BlockAdded
<1>7. AllocInv(a2, CodesOf(more))
  BY <1>4, <1>6
<1>8. CASE a.state = "try"
  BY <1>1, <1>4, <1>5, <1>6, <1>7, <1>8 DEF Tracked
<1>9. CASE a.state # "try"
  BY <1>1, <1>4, <1>5, <1>6, <1>7, <1>9 DEF Tracked
<1> QED
  BY <1>8, <1>9

\* free_obj takes back a block in use that is of the memory in use.
LEMMA GiveBlock ==
  ASSUME NEW a, NEW blocks, Tracked(a, blocks), NEW x \in DOMAIN blocks,
         blocks[x].mem = (IF a.state = "try" THEN "try" ELSE "std"),
         NEW bytes, bytes = blocks[x].bytes, NEW a2, a2 = free_obj(a, x, bytes),
         NEW fewer, fewer = [y \in DOMAIN blocks \ {x} |-> blocks[y]]
  PROVE  a2.state = a.state /\ Tracked(a2, fewer)
<1>1. AllocInv(a, CodesOf(blocks)) /\ BlocksTyped(blocks) /\ a.live_objs = StdOf(blocks)
      /\ a.live_mem_usage = Total(BytesOf(blocks), StdOf(blocks))
  BY DEF Tracked
<1>2. bytes \in Int
  BY <1>1 DEF BlocksTyped
<1>3. x \in DOMAIN CodesOf(blocks) /\ CodesOf(blocks)[x].code = min_size_code(bytes)
      /\ CodesOf(blocks)[x].mem = a.curr_pool
  BY <1>1 DEF CodesOf, AllocInv, Modes
<1>4. /\ AllocInv(a2, Without(CodesOf(blocks), x)) /\ a2.state = a.state
      /\ a2.live_objs = IF a.state = "try" THEN a.live_objs ELSE a.live_objs \ {x}
      /\ a2.live_mem_usage = IF a.state = "try" THEN a.live_mem_usage ELSE a.live_mem_usage - bytes
  <2>1. PICK used : used = CodesOf(blocks)
    OBVIOUS
  <2>2. AllocInv(a, used) /\ x \in DOMAIN used /\ used[x].code = min_size_code(bytes) /\ used[x].mem = a.curr_pool
    BY <1>1, <1>3, <2>1
  <2>3. /\ AllocInv(free_obj(a, x, bytes), Without(used, x))
        /\ free_obj(a, x, bytes).state = a.state
        /\ free_obj(a, x, bytes).live_objs = IF a.state = "try" THEN a.live_objs ELSE a.live_objs \ {x}
        /\ free_obj(a, x, bytes).live_mem_usage =
             IF a.state = "try" THEN a.live_mem_usage ELSE a.live_mem_usage - bytes
    BY <1>2, <2>2, FreeObjKeeps
  <2> QED
    BY <2>1, <2>3
<1>5. /\ BlocksTyped(fewer)
      /\ CodesOf(fewer) = Without(CodesOf(blocks), x)
      /\ blocks[x].mem = "std" =>
           /\ StdOf(fewer) = StdOf(blocks) \ {x}
           /\ Total(BytesOf(fewer), StdOf(fewer)) = Total(BytesOf(blocks), StdOf(blocks)) - blocks[x].bytes
      /\ blocks[x].mem = "try" =>
           /\ StdOf(fewer) = StdOf(blocks)
           /\ Total(BytesOf(fewer), StdOf(fewer)) = Total(BytesOf(blocks), StdOf(blocks))
  BY <1>1, BlockRemoved
<1>6. CASE a.state = "try"
  BY <1>1, <1>4, <1>5, <1>6 DEF Tracked
<1>7. CASE a.state # "try"
  BY <1>1, <1>4, <1>5, <1>7 DEF Tracked
<1> QED
  BY <1>6, <1>7

\* The end of a transaction takes back all the blocks of it.
LEMMA ForgetBlocks ==
  ASSUME NEW a, NEW blocks, Tracked(a, blocks),
         NEW a2, \/ a.state = "copying" /\ a2 = return_to_normal_state(a)
                 \/ a.state = "try" /\ a2 = abort_try_state(a),
         NEW fewer, fewer = [y \in StdOf(blocks) |-> blocks[y]]
  PROVE  a2.state = "normal" /\ Tracked(a2, fewer)
<1>1. AllocInv(a, CodesOf(blocks)) /\ BlocksTyped(blocks) /\ a.live_objs = StdOf(blocks)
      /\ a.live_mem_usage = Total(BytesOf(blocks), StdOf(blocks))
  BY DEF Tracked
<1>2. AllocInv(a2, StdOnly(CodesOf(blocks))) /\ TryReleased(a, a2)
  BY <1>1, ReleaseAllKeeps
<1>3. a2.state = "normal" /\ a2.live_objs = a.live_objs /\ a2.live_mem_usage = a.live_mem_usage
  BY <1>2 DEF TryReleased
<1>4. DOMAIN fewer = StdOf(blocks) /\ \A y \in DOMAIN fewer : fewer[y] = blocks[y]
  OBVIOUS
<1>5. CodesOf(fewer) = StdOnly(CodesOf(blocks))
  <2>1. {y \in DOMAIN CodesOf(blocks) : CodesOf(blocks)[y].mem = "std"} = StdOf(blocks)
    BY DEF CodesOf, StdOf
  <2>2. \A y \in StdOf(blocks) :
          [code |-> min_size_code(fewer[y].bytes), mem |-> fewer[y].mem] = CodesOf(blocks)[y]
    BY <1>4 DEF CodesOf, StdOf
  <2> QED
    BY <1>4, <2>1, <2>2 DEF CodesOf, StdOnly
<1>6. BlocksTyped(fewer)
  <2>1. StdOf(blocks) \in SUBSET DOMAIN blocks
    BY DEF StdOf
  <2>2. IsFiniteSet(DOMAIN fewer)
    BY <1>1, <1>4, <2>1, FS_Subset DEF BlocksTyped
  <2> QED
    BY <1>1, <1>4, <2>1, <2>2 DEF BlocksTyped
<1>7. StdOf(fewer) = StdOf(blocks)
  BY <1>4 DEF StdOf
<1>8. Total(BytesOf(fewer), StdOf(blocks)) = Total(BytesOf(blocks), StdOf(blocks))
  <2>1. \A y \in StdOf(blocks) : BytesOf(fewer)[y] = BytesOf(blocks)[y]
    BY <1>4 DEF BytesOf, StdOf
  <2> QED
    BY <2>1, SameTotal
<1> QED
  BY <1>1, <1>2, <1>3, <1>5, <1>6, <1>7, <1>8 DEF Tracked

\* The other changes of state leave the blocks alone.
LEMMA SwitchBlocks ==
  ASSUME NEW a, NEW blocks, Tracked(a, blocks),
         NEW a2, \/ a.state = "normal" /\ a2 = enter_try_state(a)
                 \/ a.state = "try" /\ a2 = enter_copy_state(a)
                 \/ a.state = "copying" /\ a2 = restore_try_state(a)
  PROVE  Tracked(a2, blocks) /\ a2.state \in {"try", "copying"}
<1>1. AllocInv(a, CodesOf(blocks))
  BY DEF Tracked
<1>2. AllocInv(a2, CodesOf(blocks))
  BY <1>1, SwitchKeeps
<1>3. a \in AllocatorFields
  BY <1>1 DEF AllocInv
<1>4. a2.live_objs = a.live_objs /\ a2.live_mem_usage = a.live_mem_usage /\ a2.state \in {"try", "copying"}
  BY <1>3 DEF enter_try_state, enter_copy_state, restore_try_state, AllocatorFields
<1> QED
  BY <1>2, <1>4 DEF Tracked

\* Nothing has been given out yet.
LEMMA NoBlocks ==
  Tracked(NoMemory, <<>>)
<1>1. DOMAIN <<>> = {} /\ DOMAIN CodesOf(<<>>) = {} /\ StdOf(<<>>) = {}
  BY DEF CodesOf, StdOf
<1>2. AllocInv(NoMemory, CodesOf(<<>>))
  BY <1>1, NoMemoryInv
<1>3. BlocksTyped(<<>>)
  BY <1>1, FS_EmptySet DEF BlocksTyped
<1>4. Total(BytesOf(<<>>), {}) = 0
  BY <1>1, <1>3, StdSummed, TotalFacts
<1>5. NoMemory.live_objs = {} /\ NoMemory.live_mem_usage = 0
  BY DEF NoMemory
<1> QED
  BY <1>1, <1>2, <1>3, <1>4, <1>5 DEF Tracked
-----------------------------------------------------------------------------
(* Sizes of objects. *)

\* The bytes of an object are a number, and at least two words of a sequence.
LEMMA ObjectBytes ==
  ASSUME NEW kind \in Kinds, NEW size \in Nat \ {0}
  PROVE  mem_size(kind, size) \in Nat /\ (kind = "seq" => mem_size(kind, size) = 16 + 16 * size)
<1>1. CASE kind = "seq"
  BY <1>1 DEF mem_size
<1>2. CASE kind = "set"
  BY <1>2 DEF mem_size
<1>3. CASE kind = "map"
  BY <1>3 DEF mem_size
<1>4. CASE kind = "tern"
  BY <1>4 DEF mem_size
<1>5. CASE kind = "tag"
  BY <1>5 DEF mem_size
<1> QED
  BY <1>1, <1>2, <1>3, <1>4, <1>5 DEF Kinds

\* A product by a multiple of 16 is one.
LEMMA Sixteens ==
  ASSUME NEW i \in Nat, NEW j \in Nat, i % 16 = 0
  PROVE  \E k \in Nat : i * j = 16 * k
<1>1. PICK q \in Nat : i = 16 * q
  <2>1. i = 16 * (i \div 16) + (i % 16) /\ i \div 16 \in Nat
    OBVIOUS
  <2> QED
    BY <2>1
<1>2. q * j \in Nat
  BY <1>1, Products
<1>3. i * j = 16 * (q * j)
  BY <1>1
<1> QED
  BY <1>2, <1>3

\* A sequence that takes the whole of its block is of the size of the block.
LEMMA SequenceWhole ==
  ASSUME NEW code \in Codes, size_code_size(code) >= 32
  PROVE  /\ seq_capacity(size_code_size(code)) \in Nat \ {0}
         /\ 16 + 16 * seq_capacity(size_code_size(code)) = size_code_size(code)
<1>1. \E k \in Nat : size_code_size(code) = 16 * k
  <2>1. CASE code \in PooledCode
    <3>1. size_code_size(code) = SMALLEST * pow2[code] /\ code \in Nat
      BY <2>1, Sizes
    <3>2. pow2[code] \in Nat
      BY <3>1, Pow2Grows
    <3> QED
      BY <3>1, <3>2, Sixteens, Constants, AlignmentAssumption
  <2>2. CASE code \in LargeCode
    <3>1. size_code_size(code) = PAGE * (-code) /\ -code \in Nat
      BY <2>2, Sizes, LargeCodes
    <3> QED
      BY <3>1, Sixteens, Constants, AlignmentAssumption
  <2> QED
    BY <2>1, <2>2 DEF Codes
<1>2. PICK k \in Nat : size_code_size(code) = 16 * k
  BY <1>1
<1>3. k >= 2
  BY <1>2
<1>4. (16 * k - 32) \div 16 = k - 2
  BY <1>2, <1>3
<1>5. seq_capacity(size_code_size(code)) = (k - 2) + 1
  BY <1>2, <1>4 DEF seq_capacity
<1> QED
  BY <1>2, <1>3, <1>5

-----------------------------------------------------------------------------
(* The steps of the program. *)

\* A reference that may go into an object.
LEMMA ReferencesFacts ==
  ASSUME RefsInv, NEW refs \in References
  PROVE  /\ refs \in Seq(Block)
         /\ \A k \in DOMAIN refs : refs[k] \in DOMAIN heap /\ (heap[refs[k]].mem = "try" => m.state = "try")
<1>1. PICK n \in 0 .. MAX_REFS : refs \in [1 .. n -> Given]
  BY DEF References
<1>2. n \in Nat
  BY <1>1, ProgramAssumption
<1>3. \A k \in DOMAIN refs : refs[k] \in Given
  BY <1>1
<1>4. DOMAIN heap \subseteq Block
  BY DEF RefsInv, Typed
<1>5. Given \subseteq Block
  BY <1>4 DEF Given
<1>6. refs \in [1 .. n -> Block]
  BY <1>1, <1>5
<1> QED
  BY <1>2, <1>3, <1>6 DEF Given

\* The size of a block that new_obj gives a new object.
LEMMA NewObjectBytes ==
  ASSUME NEW kind, NEW size, <<kind, size>> \in Shape,
         NEW asked, asked = mem_size(kind, size),
         NEW given, given = (IF kind = "seq" THEN size_code_size(min_size_code(asked)) ELSE asked),
         NEW mem \in Memory, NEW refs \in Seq(Block),
         NEW o, o = [kind |-> kind, mem |-> mem, ref_count |-> 1, size |-> size,
                     capacity |-> IF kind = "seq" THEN seq_capacity(given) ELSE 0, refs |-> refs]
  PROVE  /\ asked \in Nat /\ Fits(asked) /\ given \in Nat
         /\ min_size_code(given) = min_size_code(asked) /\ given <= size_code_size(min_size_code(given))
         /\ o \in Object /\ obj_mem_size(o) = given
<1>1. kind \in Kinds /\ size \in Nat \ {0} /\ Fits(asked)
  BY ProgramAssumption, LargestAssumption
<1>2. asked \in Nat /\ (kind = "seq" => asked >= 32)
  BY <1>1, ObjectBytes
<1>3. min_size_code(asked) \in Codes /\ asked <= size_code_size(min_size_code(asked))
  BY <1>1, <1>2, CodeFits
<1>4. size_code_size(min_size_code(asked)) \in Nat
  BY <1>3, Sizes
<1>5. CASE kind = "seq"
  <2>1. given = size_code_size(min_size_code(asked)) /\ given >= 32
    BY <1>2, <1>3, <1>4, <1>5
  <2>2. min_size_code(given) = min_size_code(asked)
    BY <1>1, <1>2, <2>1, CodeOfWhole
  <2>3. seq_capacity(given) \in Nat \ {0} /\ 16 + 16 * seq_capacity(given) = given
    BY <1>3, <2>1, SequenceWhole
  <2>4. o \in Object
    BY <1>1, <1>5, <2>3 DEF Object
  <2>5. obj_mem_size(o) = mem_size("seq", seq_capacity(given))
    BY <1>5 DEF obj_mem_size
  <2>6. mem_size("seq", seq_capacity(given)) = 16 + 16 * seq_capacity(given)
    BY <2>3, ObjectBytes DEF Kinds
  <2> QED
    BY <1>1, <1>2, <1>4, <2>1, <2>2, <2>3, <2>4, <2>5, <2>6
<1>6. CASE kind # "seq"
  <2>1. o \in Object
    BY <1>1, <1>6 DEF Object
  <2>2. obj_mem_size(o) = asked /\ given = asked
    BY <1>6 DEF obj_mem_size
  <2> QED
    BY <1>1, <1>2, <1>3, <2>1, <2>2
<1> QED
  BY <1>5, <1>6

\* A new object is not another block, and its references go into it.
LEMMA BuildStepKeeps ==
  ASSUME IInv, NEW kind, NEW size, <<kind, size>> \in Shape, NEW refs \in References, Build(kind, size, refs)
  PROVE  IInv'
<1> DEFINE asked == mem_size(kind, size)
           given == IF kind = "seq" THEN size_code_size(min_size_code(asked)) ELSE asked
           made == new_obj(m, asked, given)
           obj == [kind |-> kind, mem |-> CurrMemory, ref_count |-> 1, size |-> size,
                   capacity |-> IF kind = "seq" THEN seq_capacity(given) ELSE 0, refs |-> refs]
           Left(x) == IF is_gc_obj(m, heap[x]) THEN roots[x] - Times(refs, x) ELSE roots[x]
           b == made.block
           blocks == BlocksOf(heap, buffers)
           more == [y \in DOMAIN blocks \cup {b} |->
                      IF y = b THEN [bytes |-> given, mem |-> CurrMemory] ELSE blocks[y]]
<1>1. /\ stack = <<>> /\ stack' = stack /\ buffers' = buffers
      /\ CanAlloc(m, asked)
      /\ \A x \in DOMAIN heap : Left(x) >= 0
      /\ m' = made.m
      /\ heap' = [x \in DOMAIN heap \cup {b} |-> IF x = b THEN obj ELSE heap[x]]
      /\ roots' = [x \in DOMAIN heap' |-> IF x = b THEN 1 ELSE Left(x)]
  BY DEF Build, Running
<1>2. RefsInv /\ Tracked(m, blocks) /\ BuffersTyped(heap, buffers)
  BY DEF IInv, MemInv
<1>3. CurrMemory = (IF m.state = "try" THEN "try" ELSE "std") /\ CurrMemory \in Memory
  BY DEF CurrMemory, Memory
<1>4. refs \in Seq(Block) /\ \A k \in DOMAIN refs :
        refs[k] \in DOMAIN heap /\ (heap[refs[k]].mem = "try" => m.state = "try")
  BY <1>2, ReferencesFacts
<1>5. /\ asked \in Nat /\ Fits(asked) /\ given \in Nat
      /\ min_size_code(given) = min_size_code(asked) /\ given <= size_code_size(min_size_code(given))
      /\ obj \in Object /\ obj_mem_size(obj) = given
  BY <1>3, <1>4, NewObjectBytes
<1>6. b \in Block /\ b \notin DOMAIN blocks /\ m'.state = m.state /\ Tracked(m', more)
  <2> HIDE DEF asked, given, blocks
  <2> QED
    BY <1>1, <1>2, <1>3, <1>5, TakeBlock
<1>7. DOMAIN blocks = DOMAIN heap \cup DOMAIN buffers
  BY DEF BlocksOf
<1>8. obj.ref_count = 1 /\ obj.mem = CurrMemory /\ obj.refs = refs
  OBVIOUS
<1> HIDE DEF obj, made, asked, given, b
<1>9. RefsInv'
  <2>1. IdleInv(m.state, heap, roots)
    BY <1>1, <1>2, IdleOfRefs
  <2>2. b \notin DOMAIN heap
    BY <1>6, <1>7
  <2>3. DOMAIN roots' = DOMAIN heap' /\ roots'[b] = 1
    BY <1>1
  <2>4. \A x \in DOMAIN heap :
          roots'[x] = (IF heap[x].mem = obj.mem THEN roots[x] - Times(obj.refs, x) ELSE roots[x]) /\ roots'[x] >= 0
    <3> TAKE x \in DOMAIN heap
    <3>1. roots'[x] = Left(x) /\ Left(x) >= 0
      BY <1>1, <2>2
    <3> QED
      BY <3>1, <1>3, <1>8 DEF is_gc_obj
  <2>5. IdleInv(m.state, heap', roots')
    <3>1. PICK h : h = heap
      OBVIOUS
    <3>2. PICK r : r = roots
      OBVIOUS
    <3>3. PICK h2 : h2 = heap'
      OBVIOUS
    <3>4. PICK r2 : r2 = roots'
      OBVIOUS
    <3>5. PICK state : state = m.state
      OBVIOUS
    <3>6. IdleInv(state, h, r) /\ b \in Block /\ b \notin DOMAIN h
      BY <1>6, <2>1, <2>2, <3>1, <3>2, <3>5
    <3>7. obj \in Object /\ obj.ref_count = 1 /\ obj.mem = (IF state = "try" THEN "try" ELSE "std")
      BY <1>3, <1>5, <1>8, <3>5
    <3>8. \A k \in DOMAIN obj.refs : obj.refs[k] \in DOMAIN h /\ (h[obj.refs[k]].mem = "try" => state = "try")
      BY <1>4, <1>8, <3>1, <3>5
    <3>9. h2 = [x \in DOMAIN h \cup {b} |-> IF x = b THEN obj ELSE h[x]]
      BY <1>1, <3>1, <3>3
    <3>10. DOMAIN r2 = DOMAIN h2 /\ r2[b] = 1
      BY <2>3, <3>3, <3>4
    <3>11. \A x \in DOMAIN h :
             r2[x] = (IF h[x].mem = obj.mem THEN r[x] - Times(obj.refs, x) ELSE r[x]) /\ r2[x] >= 0
      BY <2>4, <3>1, <3>2, <3>4
    <3>12. IdleInv(state, h2, r2)
      BY <3>6, <3>7, <3>8, <3>9, <3>10, <3>11, BuildKeeps
    <3> QED
      BY <3>3, <3>4, <3>5, <3>12
  <2>6. stack' = <<>>
    BY <1>1
  <2>7. IdleInv(m'.state, heap', roots')
    BY <1>6, <2>5
  <2> QED
    BY <2>6, <2>7, RefsOfIdle
<1>10. MemInv'
  <2>1. BlocksOf(heap', buffers') = more
    <3>1. DOMAIN heap' = DOMAIN heap \cup {b} /\ heap'[b] = obj /\ \A x \in DOMAIN heap : x # b => heap'[x] = heap[x]
      BY <1>1
    <3>2. DOMAIN heap' \cup DOMAIN buffers' = DOMAIN blocks \cup {b}
      BY <3>1, <1>1, <1>7
    <3>3. ASSUME NEW x \in DOMAIN blocks \cup {b}
          PROVE  (IF x \in DOMAIN heap' THEN [bytes |-> obj_mem_size(heap'[x]), mem |-> heap'[x].mem] ELSE buffers'[x])
                  = IF x = b THEN [bytes |-> given, mem |-> CurrMemory] ELSE blocks[x]
      <4>1. CASE x = b
        BY <4>1, <3>1, <1>5, <1>8
      <4>2. CASE x # b /\ x \in DOMAIN heap
        <5>1. blocks[x] = [bytes |-> obj_mem_size(heap[x]), mem |-> heap[x].mem]
          BY <4>2 DEF BlocksOf
        <5>2. x \in DOMAIN heap' /\ heap'[x] = heap[x]
          BY <4>2, <3>1
        <5> QED
          BY <4>2, <5>1, <5>2
      <4>3. CASE x # b /\ x \notin DOMAIN heap
        <5>1. x \in DOMAIN buffers
          BY <4>3, <1>7
        <5>2. blocks[x] = buffers[x]
          BY <4>3, <5>1 DEF BlocksOf
        <5>3. x \notin DOMAIN heap' /\ buffers'[x] = buffers[x]
          BY <4>3, <3>1, <1>1
        <5> QED
          BY <4>3, <5>2, <5>3
      <4> QED
        BY <4>1, <4>2, <4>3
    <3> HIDE DEF blocks
    <3> QED
      BY <3>2, <3>3 DEF BlocksOf
  <2>2. BuffersTyped(heap', buffers')
    BY <1>1, <1>2, <1>6, <1>7 DEF BuffersTyped
  <2> QED
    BY <1>6, <2>1, <2>2 DEF MemInv
<1> QED
  BY <1>9, <1>10 DEF IInv

\* What is unchanged when only counts and references of objects change.
LEMMA SameBlocks ==
  ASSUME MemInv, m' = m, buffers' = buffers, DOMAIN heap' = DOMAIN heap,
         \A x \in DOMAIN heap : obj_mem_size(heap'[x]) = obj_mem_size(heap[x]) /\ heap'[x].mem = heap[x].mem
  PROVE  MemInv'
<1>1. BlocksOf(heap', buffers') = BlocksOf(heap, buffers)
  <2>1. DOMAIN heap' \cup DOMAIN buffers' = DOMAIN heap \cup DOMAIN buffers
    OBVIOUS
  <2>2. \A x \in DOMAIN heap \cup DOMAIN buffers :
          (IF x \in DOMAIN heap' THEN [bytes |-> obj_mem_size(heap'[x]), mem |-> heap'[x].mem] ELSE buffers'[x])
          = IF x \in DOMAIN heap THEN [bytes |-> obj_mem_size(heap[x]), mem |-> heap[x].mem] ELSE buffers[x]
    OBVIOUS
  <2> QED
    BY <2>1, <2>2 DEF BlocksOf
<1>2. BuffersTyped(heap', buffers')
  BY DEF MemInv, BuffersTyped
<1> QED
  BY <1>1, <1>2 DEF MemInv

\* Releasing an element changes the count of an object and not its size.
LEMMA ElementSizes ==
  ASSUME heap' = ReleaseElem(m, heap, stack).heap, DOMAIN heap' = DOMAIN heap,
         \A x \in DOMAIN heap : heap[x] \in Object
  PROVE  \A x \in DOMAIN heap : obj_mem_size(heap'[x]) = obj_mem_size(heap[x])
<1> DEFINE y == Head(Unreleased(heap, Head(stack)))
           down == [heap EXCEPT ![y].ref_count = Decremented(heap, y)]
<1>1. heap' = heap \/ heap' = down
  BY DEF ReleaseElem, To
<1>2. ASSUME NEW x \in DOMAIN heap, heap' = down PROVE obj_mem_size(heap'[x]) = obj_mem_size(heap[x])
  <2>1. CASE x = y
    <3>1. heap'[x] = [heap[x] EXCEPT !.ref_count = Decremented(heap, y)]
      BY <1>2, <2>1
    <3> HIDE DEF y, down
    <3>2. /\ heap'[x].kind = heap[x].kind /\ heap'[x].size = heap[x].size
          /\ heap'[x].capacity = heap[x].capacity
      BY <3>1 DEF Object
    <3> QED
      BY <3>2 DEF obj_mem_size
  <2>2. CASE x # y
    <3>1. heap'[x] = heap[x]
      BY <1>2, <2>2
    <3> QED
      BY <3>1
  <2> QED
    BY <2>1, <2>2
<1> QED
  BY <1>1, <1>2

\* Where a step of delete_obj leaves the allocator alone.
LEMMA SameMemory ==
  ASSUME IInv, m' = m, buffers' = buffers, heap' = heap
  PROVE  MemInv'
BY SameBlocks DEF IInv

\* The deletion of objects goes on: an object is given back with the size and
\* to the memory it was given out with.
LEMMA DeleteKeeps ==
  ASSUME IInv, DeleteStep
  PROVE  IInv'
<1>1. PICK f : f = Head(stack)
  OBVIOUS
<1>2. RefsInv /\ MemInv /\ buffers' = buffers
  BY DEF IInv, DeleteStep
<1>3. /\ stack # <<>> /\ RootsStay
      /\ NextStep(f) \/ ElementStep(f) \/ FreeStep(f) \/ ReturnStep(f)
  BY <1>1, <1>2, DeleteCases
<1>4. Typed /\ CallsSound
  BY <1>2 DEF RefsInv
<1>5. CASE NextStep(f) \/ ReturnStep(f)
  <2>1. m' = m /\ heap' = heap
    BY <1>1, <1>2, <1>5, DeleteCases
  <2>2. MemInv'
    BY <1>2, <2>1, SameMemory
  <2>3. RefsInv'
    BY <1>2, <2>1, DeleteStepKeeps
  <2> QED
    BY <2>2, <2>3 DEF IInv
<1>6. CASE ElementStep(f)
  <2>1. /\ m' = ReleaseElem(m, heap, stack).m /\ heap' = ReleaseElem(m, heap, stack).heap
        /\ stack' = ReleaseElem(m, heap, stack).stack
    BY <1>1, <1>2, <1>6, DeleteCases
  <2>2. RefsInv' /\ m' = m /\ ObjectsStay
    BY <1>1, <1>2, <1>3, <1>6, <2>1, ElementStepKeeps
  <2>3. DOMAIN heap' = DOMAIN heap /\ \A x \in DOMAIN heap : heap'[x].mem = heap[x].mem
    BY <2>2 DEF ObjectsStay
  <2>4. \A x \in DOMAIN heap : obj_mem_size(heap'[x]) = obj_mem_size(heap[x])
    BY <1>4, <2>1, <2>3, ElementSizes DEF Typed
  <2>5. MemInv'
    BY <1>2, <2>2, <2>3, <2>4, SameBlocks
  <2> QED
    BY <2>2, <2>5 DEF IInv
<1>7. CASE FreeStep(f)
  <2>1. PICK o : o = f.obj
    OBVIOUS
  <2>2. PICK bytes : bytes = obj_mem_size(heap[o])
    OBVIOUS
  <2>3. m' = free_obj(m, o, bytes) /\ heap' = [x \in DOMAIN heap \ {o} |-> heap[x]]
    BY <1>1, <1>2, <1>7, <2>1, <2>2, DeleteCases
  <2>4. Pending(o)
    <3>1. PICK n : n = Len(stack)
      OBVIOUS
    <3>2. n \in Calls /\ f = Call(n)
      BY <1>1, <1>3, <1>4, <3>1, HeadCall
    <3> QED
      BY <3>2, <1>4, <1>7, <2>1 DEF CallsSound, FreeStep
  <2>5. o \in DOMAIN heap /\ heap[o].mem = (IF m.state = "try" THEN "try" ELSE "std")
    BY <2>4 DEF Pending, CurrMemory
  <2> DEFINE blocks == BlocksOf(heap, buffers)
             fewer == [y \in DOMAIN blocks \ {o} |-> blocks[y]]
  <2>6. DOMAIN blocks = DOMAIN heap \cup DOMAIN buffers /\ Tracked(m, blocks)
    BY <1>2 DEF BlocksOf, MemInv
  <2>7. blocks[o] = [bytes |-> bytes, mem |-> heap[o].mem]
    BY <2>2, <2>5 DEF BlocksOf
  <2>8. m'.state = m.state /\ Tracked(m', fewer)
    <3>1. o \in DOMAIN blocks /\ blocks[o].mem = (IF m.state = "try" THEN "try" ELSE "std") /\ bytes = blocks[o].bytes
      BY <2>5, <2>6, <2>7
    <3> HIDE DEF blocks
    <3> QED
      BY <2>3, <2>6, <3>1, GiveBlock
  <2>9. BuffersTyped(heap, buffers)
    BY <1>2 DEF MemInv
  <2>10. o \notin DOMAIN buffers
    BY <2>5, <2>9 DEF BuffersTyped
  <2>11. BlocksOf(heap', buffers') = fewer
    <3>1. DOMAIN heap' = DOMAIN heap \ {o} /\ \A x \in DOMAIN heap' : heap'[x] = heap[x]
      BY <2>3
    <3>2. DOMAIN heap' \cup DOMAIN buffers' = DOMAIN blocks \ {o}
      BY <1>2, <2>6, <2>10, <3>1
    <3>3. \A x \in DOMAIN blocks \ {o} :
            (IF x \in DOMAIN heap' THEN [bytes |-> obj_mem_size(heap'[x]), mem |-> heap'[x].mem] ELSE buffers'[x])
            = blocks[x]
      BY <1>2, <2>6, <3>1 DEF BlocksOf
    <3> HIDE DEF blocks
    <3> QED
      BY <3>2, <3>3 DEF BlocksOf
  <2>12. BuffersTyped(heap', buffers')
    BY <1>2, <2>3, <2>9 DEF BuffersTyped
  <2>13. MemInv'
    BY <2>8, <2>11, <2>12 DEF MemInv
  <2>14. RefsInv'
    BY <1>2, <2>8, DeleteStepKeeps
  <2> QED
    BY <2>13, <2>14 DEF IInv
<1> QED
  BY <1>3, <1>5, <1>6, <1>7

\* A count says nothing of a size.
LEMMA CountOnly ==
  ASSUME NEW h, \A y \in DOMAIN h : h[y] \in Object, NEW x, NEW c, NEW h2, h2 = [h EXCEPT ![x].ref_count = c]
  PROVE  DOMAIN h2 = DOMAIN h
         /\ \A y \in DOMAIN h : obj_mem_size(h2[y]) = obj_mem_size(h[y]) /\ h2[y].mem = h[y].mem
<1>1. ASSUME NEW y \in DOMAIN h PROVE obj_mem_size(h2[y]) = obj_mem_size(h[y]) /\ h2[y].mem = h[y].mem
  <2>1. h2[y].kind = h[y].kind /\ h2[y].size = h[y].size /\ h2[y].capacity = h[y].capacity /\ h2[y].mem = h[y].mem
    BY DEF Object
  <2> QED
    BY <2>1 DEF obj_mem_size
<1> QED
  BY <1>1

\* A reference is taken.
LEMMA AddRefKeeps ==
  ASSUME IInv, NEW x \in DOMAIN heap, AddRef(x)
  PROVE  IInv'
<1>1. /\ stack = <<>> /\ stack' = <<>> /\ m' = m /\ buffers' = buffers
      /\ heap' = [heap EXCEPT ![x].ref_count = @ + 1] /\ roots' = [roots EXCEPT ![x] = @ + 1]
  BY DEF AddRef, Running
<1>2. IdleInv(m.state, heap, roots)
  BY <1>1, IdleOfRefs DEF IInv
<1>3. PICK c \in Nat \ {0} : c = heap[x].ref_count + 1
  BY <1>2, IdleFacts
<1>4. PICK q \in Nat : q = roots[x] + 1
  BY <1>2, IdleFacts
<1>5. c - q = heap[x].ref_count - roots[x]
  BY <1>2, <1>3, <1>4, IdleFacts
<1>6. heap' = [heap EXCEPT ![x].ref_count = c] /\ roots' = [roots EXCEPT ![x] = q]
  BY <1>1, <1>3, <1>4
<1>7. IdleInv(m.state, heap', roots')
  BY <1>2, <1>5, <1>6, RecountKeeps
<1>8. RefsInv'
  BY <1>1, <1>7, RefsOfIdle
<1>9. \A y \in DOMAIN heap : obj_mem_size(heap'[y]) = obj_mem_size(heap[y]) /\ heap'[y].mem = heap[y].mem
  <2>1. \A y \in DOMAIN heap : heap[y] \in Object
    BY <1>2 DEF IdleInv
  <2> QED
    BY <2>1, <1>6, CountOnly
<1>10. MemInv'
  BY <1>1, <1>9, SameBlocks DEF IInv
<1> QED
  BY <1>8, <1>10 DEF IInv

\* A sequence takes one more element: its size is that of its block.
LEMMA Append1Keeps ==
  ASSUME IInv, NEW x \in DOMAIN heap, NEW y \in DOMAIN heap, Append1(x, y)
  PROVE  IInv'
<1>1. /\ stack = <<>> /\ stack' = <<>> /\ m' = m /\ buffers' = buffers
      /\ heap[x].kind = "seq" /\ roots[y] > 0 /\ is_gc_obj(m, heap[x]) /\ is_gc_obj(m, heap[y])
      /\ heap' = [heap EXCEPT ![x].size = @ + 1, ![x].refs = Append(@, y)]
      /\ roots' = [roots EXCEPT ![y] = @ - 1]
  BY DEF Append1, Running
<1>2. IdleInv(m.state, heap, roots)
  BY <1>1, IdleOfRefs DEF IInv
<1>3. heap[y].mem = heap[x].mem
  BY <1>1 DEF is_gc_obj
<1>4. IdleInv(m.state, heap', roots')
  BY <1>1, <1>2, <1>3, AppendKeeps
<1>5. RefsInv'
  BY <1>1, <1>4, RefsOfIdle
<1>6. DOMAIN heap' = DOMAIN heap
      /\ \A z \in DOMAIN heap : obj_mem_size(heap'[z]) = obj_mem_size(heap[z]) /\ heap'[z].mem = heap[z].mem
  <2>1. DOMAIN heap' = DOMAIN heap /\ \A z \in DOMAIN heap : z # x => heap'[z] = heap[z]
    BY <1>1
  <2>2. heap'[x] = [heap[x] EXCEPT !.size = @ + 1, !.refs = Append(@, y)]
    BY <1>1
  <2>3. heap[x] \in Object
    BY <1>2 DEF IdleInv
  <2>4. heap'[x].kind = "seq" /\ heap'[x].capacity = heap[x].capacity /\ heap'[x].mem = heap[x].mem
    BY <1>1, <2>2, <2>3 DEF Object
  <2>5. obj_mem_size(heap'[x]) = obj_mem_size(heap[x])
    BY <1>1, <2>4 DEF obj_mem_size
  <2> QED
    BY <2>1, <2>4, <2>5
<1>7. MemInv'
  BY <1>1, <1>6, SameBlocks DEF IInv
<1> QED
  BY <1>5, <1>7 DEF IInv

\* A reference is given back: the object is counted down, or its deletion begins.
LEMMA DropKeeps ==
  ASSUME IInv, NEW x \in DOMAIN heap, Drop(x)
  PROVE  IInv'
<1>1. /\ stack = <<>> /\ m' = m /\ buffers' = buffers
      /\ m.state = "copying" => ~TryRefersTo("std")
      /\ is_gc_obj(m, heap[x]) /\ roots[x] > 0
      /\ roots' = [roots EXCEPT ![x] = @ - 1]
      /\ heap[x].ref_count = 1 => stack' = <<NewFrame(x)>> /\ heap' = heap
      /\ heap[x].ref_count # 1 => heap' = [heap EXCEPT ![x].ref_count = @ - 1] /\ stack' = stack
  BY DEF Drop, Running
<1>2. IdleInv(m.state, heap, roots) /\ RefsInv /\ MemInv
  BY <1>1, IdleOfRefs DEF IInv
<1>3. CASE heap[x].ref_count = 1
  <2>1. heap[x].mem = CurrMemory
    BY <1>1 DEF is_gc_obj, CurrMemory
  <2>2. stack' = <<NewFrame(x)>> /\ heap' = heap
    BY <1>1, <1>3
  <2>3. RefsInv'
    BY <1>1, <1>2, <1>3, <2>1, <2>2, StartKeeps
  <2>4. MemInv'
    BY <1>1, <2>2, SameMemory
  <2> QED
    BY <2>3, <2>4 DEF IInv
<1>4. CASE heap[x].ref_count # 1
  <2>1. heap' = [heap EXCEPT ![x].ref_count = @ - 1] /\ stack' = <<>>
    BY <1>1, <1>4
  <2>2. PICK c \in Nat \ {0} : c = heap[x].ref_count - 1
    <3>1. heap[x].ref_count \in Nat /\ heap[x].ref_count > 0
      BY <1>2, IdleFacts
    <3>2. heap[x].ref_count - 1 \in Nat \ {0}
      BY <3>1, <1>4
    <3> QED
      BY <3>2
  <2>3. roots[x] \in Nat /\ heap[x].ref_count \in Nat
    BY <1>2, IdleFacts
  <2>4. PICK q \in Nat : q = roots[x] - 1
    <3>1. roots[x] - 1 \in Nat
      BY <1>1, <2>3
    <3> QED
      BY <3>1
  <2>5. c - q = heap[x].ref_count - roots[x]
    BY <2>2, <2>3, <2>4
  <2>6. heap' = [heap EXCEPT ![x].ref_count = c] /\ roots' = [roots EXCEPT ![x] = q]
    BY <1>1, <2>1, <2>2, <2>4
  <2>7. IdleInv(m.state, heap', roots')
    BY <1>2, <2>5, <2>6, RecountKeeps
  <2>8. RefsInv'
    BY <1>1, <2>1, <2>7, RefsOfIdle
  <2>9. DOMAIN heap' = DOMAIN heap
        /\ \A y \in DOMAIN heap : obj_mem_size(heap'[y]) = obj_mem_size(heap[y]) /\ heap'[y].mem = heap[y].mem
    <3>1. \A y \in DOMAIN heap : heap[y] \in Object
      BY <1>2 DEF IdleInv
    <3> QED
      BY <3>1, <2>6, CountOnly
  <2>10. MemInv'
    BY <1>1, <1>2, <2>9, SameBlocks
  <2> QED
    BY <2>8, <2>10 DEF IInv
<1> QED
  BY <1>3, <1>4

\* The steps that leave objects and references alone.
LEMMA ObjectsAlone ==
  ASSUME RefsInv, stack = <<>>, stack' = <<>>, heap' = heap, roots' = roots,
         m'.state = m.state \/ m'.state \in {"try", "copying"}
  PROVE  RefsInv'
<1>1. IdleInv(m.state, heap, roots)
  BY IdleOfRefs
<1>2. IdleInv(m'.state, heap', roots')
  BY <1>1 DEF IdleInv
<1> QED
  BY <1>2, RefsOfIdle

\* A buffer of a size that new_obj has a block for.
LEMMA BufferFits ==
  ASSUME NEW bytes \in BufferSize
  PROVE  bytes \in Nat /\ Fits(bytes) /\ bytes <= size_code_size(min_size_code(bytes))
<1>1. bytes \in Nat /\ Fits(bytes)
  BY ProgramAssumption, LargestAssumption
<1> QED
  BY <1>1, CodeFits

\* A buffer is allocated.
LEMMA NewBufferKeeps ==
  ASSUME IInv, NEW bytes \in BufferSize, NewBuffer(bytes)
  PROVE  IInv'
<1> DEFINE made == new_obj(m, bytes, bytes)
           b == made.block
           blocks == BlocksOf(heap, buffers)
           more == [y \in DOMAIN blocks \cup {b} |->
                      IF y = b THEN [bytes |-> bytes, mem |-> CurrMemory] ELSE blocks[y]]
<1>1. /\ stack = <<>> /\ stack' = <<>> /\ heap' = heap /\ roots' = roots
      /\ DOMAIN buffers = {} /\ CanAlloc(m, bytes) /\ m' = made.m
      /\ buffers' = [c \in {b} |-> [bytes |-> bytes, mem |-> CurrMemory]]
  BY DEF NewBuffer, Running
<1>2. RefsInv /\ Tracked(m, blocks) /\ BuffersTyped(heap, buffers)
  BY DEF IInv, MemInv
<1>3. CurrMemory = (IF m.state = "try" THEN "try" ELSE "std") /\ CurrMemory \in Memory
  BY DEF CurrMemory, Memory
<1>4. bytes \in Nat /\ Fits(bytes) /\ bytes <= size_code_size(min_size_code(bytes))
  BY BufferFits
<1>5. b \in Block /\ b \notin DOMAIN blocks /\ m'.state = m.state /\ Tracked(m', more)
  <2> HIDE DEF blocks
  <2> QED
    BY <1>1, <1>2, <1>3, <1>4, TakeBlock
<1>6. DOMAIN blocks = DOMAIN heap
  BY <1>1 DEF BlocksOf
<1> HIDE DEF made, b
<1>7. RefsInv'
  BY <1>1, <1>2, <1>5, ObjectsAlone
<1>8. BlocksOf(heap', buffers') = more
  <2>1. DOMAIN buffers' = {b} /\ buffers'[b] = [bytes |-> bytes, mem |-> CurrMemory]
    BY <1>1
  <2>2. DOMAIN heap' \cup DOMAIN buffers' = DOMAIN blocks \cup {b}
    BY <2>1, <1>1, <1>6
  <2>3. \A x \in DOMAIN blocks \cup {b} :
          (IF x \in DOMAIN heap' THEN [bytes |-> obj_mem_size(heap'[x]), mem |-> heap'[x].mem] ELSE buffers'[x])
          = IF x = b THEN [bytes |-> bytes, mem |-> CurrMemory] ELSE blocks[x]
    BY <2>1, <1>1, <1>5, <1>6 DEF BlocksOf
  <2> HIDE DEF blocks
  <2> QED
    BY <2>2, <2>3 DEF BlocksOf
<1>9. BuffersTyped(heap', buffers')
  BY <1>1, <1>3, <1>5, <1>6 DEF BuffersTyped
<1> QED
  BY <1>5, <1>7, <1>8, <1>9 DEF IInv, MemInv

\* A buffer is freed.
LEMMA DeleteBufferKeeps ==
  ASSUME IInv, NEW b \in DOMAIN buffers, DeleteBuffer(b)
  PROVE  IInv'
<1> DEFINE blocks == BlocksOf(heap, buffers)
           fewer == [y \in DOMAIN blocks \ {b} |-> blocks[y]]
<1>1. /\ stack = <<>> /\ stack' = <<>> /\ heap' = heap /\ roots' = roots
      /\ buffers[b].mem = CurrMemory /\ buffers' = <<>> /\ m' = free_obj(m, b, buffers[b].bytes)
  BY DEF DeleteBuffer, Running
<1>2. RefsInv /\ Tracked(m, blocks) /\ BuffersTyped(heap, buffers)
  BY DEF IInv, MemInv
<1>3. b \notin DOMAIN heap /\ DOMAIN blocks = DOMAIN heap \cup {b} /\ blocks[b] = buffers[b]
  <2>1. DOMAIN buffers = {b}
    BY <1>2 DEF BuffersTyped
  <2> QED
    BY <1>2, <2>1 DEF BuffersTyped, BlocksOf
<1>4. m'.state = m.state /\ Tracked(m', fewer)
  <2>1. b \in DOMAIN blocks /\ blocks[b].mem = (IF m.state = "try" THEN "try" ELSE "std")
    BY <1>1, <1>3 DEF CurrMemory
  <2>2. PICK bytes : bytes = buffers[b].bytes
    OBVIOUS
  <2>3. bytes = blocks[b].bytes /\ m' = free_obj(m, b, bytes)
    BY <1>1, <1>3, <2>2
  <2> HIDE DEF blocks
  <2> QED
    BY <1>2, <2>1, <2>3, GiveBlock
<1>5. RefsInv'
  BY <1>1, <1>2, <1>4, ObjectsAlone
<1>6. DOMAIN buffers' = {}
  BY <1>1
<1>7. BlocksOf(heap', buffers') = fewer
  <2>1. DOMAIN heap' \cup DOMAIN buffers' = DOMAIN blocks \ {b}
    BY <1>1, <1>3, <1>6
  <2>2. \A x \in DOMAIN blocks \ {b} :
          (IF x \in DOMAIN heap' THEN [bytes |-> obj_mem_size(heap'[x]), mem |-> heap'[x].mem] ELSE buffers'[x])
          = blocks[x]
    BY <1>1, <1>3 DEF BlocksOf
  <2> HIDE DEF blocks
  <2> QED
    BY <2>1, <2>2 DEF BlocksOf
<1>8. BuffersTyped(heap', buffers')
  BY <1>6 DEF BuffersTyped
<1> QED
  BY <1>4, <1>5, <1>7, <1>8 DEF IInv, MemInv

\* A buffer is replaced by a larger one: the new block is taken before the old
\* one is given back.
LEMMA ResizeBufferKeeps ==
  ASSUME IInv, NEW b \in DOMAIN buffers, NEW bytes \in BufferSize, ResizeBuffer(b, bytes)
  PROVE  IInv'
<1> DEFINE made == new_obj(m, bytes, bytes)
           new == made.block
           a == made.m
           old == buffers[b].bytes
           blocks == BlocksOf(heap, buffers)
           more == [y \in DOMAIN blocks \cup {new} |->
                      IF y = new THEN [bytes |-> bytes, mem |-> CurrMemory] ELSE blocks[y]]
           fewer == [y \in DOMAIN more \ {b} |-> more[y]]
           resized == resize_obj(m, b, old, bytes)
<1>1. /\ stack = <<>> /\ stack' = <<>> /\ heap' = heap /\ roots' = roots
      /\ buffers[b].mem = CurrMemory /\ CanAlloc(m, bytes) /\ m' = resized.m
      /\ buffers' = [c \in {resized.block} |-> [bytes |-> bytes, mem |-> CurrMemory]]
  BY DEF ResizeBuffer, Running
<1>2. RefsInv /\ Tracked(m, blocks) /\ BuffersTyped(heap, buffers)
  BY DEF IInv, MemInv
<1>3. resized.block = new /\ resized.m = free_obj(a, b, old)
  <2>1. made = [block |-> new, m |-> a]
    BY DEF new_obj, alloc_mem_block
  <2> HIDE DEF made, new, a
  <2>2. resized = [made EXCEPT !.m = free_obj(made.m, b, old)]
    BY DEF resize_obj, made
  <2>3. made.m = a
    BY DEF a
  <2> QED
    BY <2>1, <2>2, <2>3
<1>4. CurrMemory = (IF m.state = "try" THEN "try" ELSE "std") /\ CurrMemory \in Memory
  BY DEF CurrMemory, Memory
<1>5. bytes \in Nat /\ Fits(bytes) /\ bytes <= size_code_size(min_size_code(bytes))
  BY BufferFits
<1>6. new \in Block /\ new \notin DOMAIN blocks /\ a.state = m.state /\ Tracked(a, more)
  <2>1. PICK M, x, M2, md, all, taken : /\ M = m /\ x = new /\ M2 = a /\ md = CurrMemory /\ all = blocks
                                        /\ taken = [y \in DOMAIN all \cup {x} |->
                                                      IF y = x THEN [bytes |-> bytes, mem |-> md] ELSE all[y]]
    OBVIOUS
  <2>2. x = new_obj(M, bytes, bytes).block /\ M2 = new_obj(M, bytes, bytes).m
    BY <2>1
  <2>3. CanAlloc(M, bytes) /\ Tracked(M, all) /\ md = (IF M.state = "try" THEN "try" ELSE "std")
    BY <1>1, <1>2, <1>4, <2>1
  <2>4. x \in Block /\ x \notin DOMAIN all /\ M2.state = M.state /\ Tracked(M2, taken)
    BY ONLY <1>5, <2>1, <2>2, <2>3, TakeBlock
  <2>5. taken = more
    BY <2>1
  <2> QED
    BY <2>1, <2>4, <2>5
<1>7. b \notin DOMAIN heap /\ DOMAIN blocks = DOMAIN heap \cup {b} /\ blocks[b] = buffers[b]
  <2>1. DOMAIN buffers = {b}
    BY <1>2 DEF BuffersTyped
  <2> QED
    BY <1>2, <2>1 DEF BuffersTyped, BlocksOf
<1> HIDE DEF made, new, a, resized
<1>8. b # new /\ DOMAIN more = DOMAIN heap \cup {b, new} /\ more[b] = buffers[b]
      /\ more[new] = [bytes |-> bytes, mem |-> CurrMemory] /\ \A x \in DOMAIN heap : more[x] = blocks[x]
  BY <1>6, <1>7
<1>9. m'.state = m.state /\ Tracked(m', fewer)
  <2>1. b \in DOMAIN more /\ more[b].mem = (IF a.state = "try" THEN "try" ELSE "std") /\ old = more[b].bytes
    BY <1>1, <1>4, <1>6, <1>8
  <2>2. m' = free_obj(a, b, old)
    BY <1>1, <1>3
  <2> HIDE DEF more, old
  <2> QED
    BY <1>6, <2>1, <2>2, GiveBlock
<1>10. RefsInv'
  BY <1>1, <1>2, <1>9, ObjectsAlone
<1>11. DOMAIN buffers' = {new} /\ buffers'[new] = [bytes |-> bytes, mem |-> CurrMemory] /\ new \notin DOMAIN heap
  BY <1>1, <1>3, <1>6, <1>7
<1>12. BlocksOf(heap', buffers') = fewer
  <2>1. DOMAIN heap' \cup DOMAIN buffers' = DOMAIN more \ {b}
    BY <1>1, <1>7, <1>8, <1>11
  <2>2. ASSUME NEW x \in DOMAIN more \ {b}
        PROVE  (IF x \in DOMAIN heap' THEN [bytes |-> obj_mem_size(heap'[x]), mem |-> heap'[x].mem] ELSE buffers'[x])
               = more[x]
    <3>1. CASE x \in DOMAIN heap
      <4>1. blocks[x] = [bytes |-> obj_mem_size(heap[x]), mem |-> heap[x].mem]
        BY <3>1 DEF BlocksOf
      <4> HIDE DEF more, blocks
      <4> QED
        BY <3>1, <4>1, <1>1, <1>8
    <3>2. CASE x \notin DOMAIN heap
      <4>1. x = new
        BY <3>2, <2>2, <1>8
      <4> HIDE DEF more
      <4> QED
        BY <4>1, <3>2, <1>1, <1>8, <1>11
    <3> QED
      BY <3>1, <3>2
  <2> HIDE DEF more
  <2> QED
    BY <2>1, <2>2 DEF BlocksOf
<1>13. BuffersTyped(heap', buffers')
  BY <1>1, <1>4, <1>6, <1>11 DEF BuffersTyped
<1> QED
  BY <1>9, <1>10, <1>12, <1>13 DEF IInv, MemInv

\* A transaction begins, its values are copied, it goes on.
LEMMA SwitchStepKeeps ==
  ASSUME IInv, EnterTry \/ EnterCopy \/ RestoreTry
  PROVE  IInv'
<1>1. stack = <<>> /\ stack' = <<>> /\ heap' = heap /\ roots' = roots /\ buffers' = buffers
  BY DEF EnterTry, EnterCopy, RestoreTry, Running
<1>2. RefsInv /\ Tracked(m, BlocksOf(heap, buffers)) /\ BuffersTyped(heap, buffers)
  BY DEF IInv, MemInv
<1>3. \/ m.state = "normal" /\ m' = enter_try_state(m)
      \/ m.state = "try" /\ m' = enter_copy_state(m)
      \/ m.state = "copying" /\ m' = restore_try_state(m)
  BY DEF EnterTry, EnterCopy, RestoreTry
<1>4. Tracked(m', BlocksOf(heap, buffers)) /\ m'.state \in {"try", "copying"}
  BY <1>2, <1>3, SwitchBlocks
<1>5. RefsInv'
  BY <1>1, <1>2, <1>4, ObjectsAlone
<1> QED
  BY <1>1, <1>2, <1>4, <1>5 DEF IInv, MemInv

\* A transaction ends: what is left are the standard objects and buffers.
LEMMA ForgetStepKeeps ==
  ASSUME IInv, ReturnToNormal \/ AbortTry
  PROVE  IInv'
<1> DEFINE std == InMemory(heap, "std")
           blocks == BlocksOf(heap, buffers)
           fewer == [y \in StdOf(blocks) |-> blocks[y]]
<1>1. /\ stack = <<>> /\ stack' = <<>>
      /\ heap' = Restrict(heap, std) /\ roots' = Restrict(roots, std)
      /\ buffers' = Restrict(buffers, InMemory(buffers, "std"))
  BY DEF ReturnToNormal, AbortTry, Running, Forget
<1>2. RefsInv /\ Tracked(m, blocks) /\ BuffersTyped(heap, buffers)
  BY DEF IInv, MemInv
<1>3. \/ m.state = "copying" /\ m' = return_to_normal_state(m)
      \/ m.state = "try" /\ m' = abort_try_state(m)
  BY DEF ReturnToNormal, AbortTry
<1>4. m'.state = "normal" /\ Tracked(m', fewer)
  <2> HIDE DEF blocks
  <2> QED
    BY <1>2, <1>3, ForgetBlocks
<1>5. RefsInv'
  <2>1. IdleInv(m.state, heap, roots)
    BY <1>1, <1>2, IdleOfRefs
  <2>2. std = {x \in DOMAIN heap : heap[x].mem = "std"}
    BY DEF InMemory
  <2>3. IdleInv("normal", Restrict(heap, std), Restrict(roots, std))
    <3> HIDE DEF std
    <3> QED
      BY <2>1, <2>2, StdKeeps
  <2>4. IdleInv(m'.state, heap', roots')
    BY <1>1, <1>4, <2>3
  <2> QED
    BY <1>1, <2>4, RefsOfIdle
<1>6. /\ DOMAIN heap' = std /\ \A x \in std : heap'[x] = heap[x]
      /\ DOMAIN buffers' = InMemory(buffers, "std") /\ \A x \in InMemory(buffers, "std") : buffers'[x] = buffers[x]
      /\ std \subseteq DOMAIN heap /\ InMemory(buffers, "std") \subseteq DOMAIN buffers
  BY <1>1 DEF Restrict, InMemory
<1>7. BlocksOf(heap', buffers') = fewer
  <2>1. DOMAIN heap' \cup DOMAIN buffers' = StdOf(blocks)
    <3>1. StdOf(blocks) = {x \in DOMAIN heap \cup DOMAIN buffers : blocks[x].mem = "std"}
      BY DEF StdOf, BlocksOf
    <3>2. \A x \in DOMAIN heap : blocks[x].mem = heap[x].mem
      BY DEF BlocksOf
    <3>3. \A x \in DOMAIN buffers : blocks[x].mem = buffers[x].mem
      BY <1>2 DEF BlocksOf, BuffersTyped
    <3> HIDE DEF blocks
    <3> QED
      BY <3>1, <3>2, <3>3, <1>6 DEF InMemory
  <2>2. ASSUME NEW x \in StdOf(blocks)
        PROVE  (IF x \in DOMAIN heap' THEN [bytes |-> obj_mem_size(heap'[x]), mem |-> heap'[x].mem] ELSE buffers'[x])
               = blocks[x]
    <3>1. CASE x \in std
      <4>1. blocks[x] = [bytes |-> obj_mem_size(heap[x]), mem |-> heap[x].mem]
        BY <3>1, <1>6 DEF BlocksOf
      <4> HIDE DEF blocks
      <4> QED
        BY <3>1, <4>1, <1>6
    <3>2. CASE x \in InMemory(buffers, "std")
      <4>1. x \notin DOMAIN heap
        BY <3>2, <1>2, <1>6 DEF BuffersTyped
      <4>2. blocks[x] = buffers[x]
        BY <3>2, <4>1, <1>6 DEF BlocksOf
      <4> HIDE DEF blocks
      <4> QED
        BY <3>2, <4>1, <4>2, <1>6
    <3> QED
      BY <2>1, <3>1, <3>2, <1>6
  <2> HIDE DEF blocks
  <2> QED
    BY <2>1, <2>2 DEF BlocksOf
<1>8. BuffersTyped(heap', buffers')
  BY <1>2, <1>6 DEF BuffersTyped
<1> QED
  BY <1>4, <1>5, <1>7, <1>8 DEF IInv, MemInv

-----------------------------------------------------------------------------
(* The inductive invariant. *)

\* Nothing has been made: the invariant holds.
LEMMA InitInvariant ==
  ASSUME Init
  PROVE  IInv
<1>1. m = NoMemory /\ heap = <<>> /\ roots = <<>> /\ buffers = <<>> /\ stack = <<>>
  BY DEF Init
<1>2. DOMAIN <<>> = {} /\ DOMAIN BlocksOf(<<>>, <<>>) = {}
  BY DEF BlocksOf
<1>3. Tracked(m, BlocksOf(heap, buffers))
  <2>1. BlocksOf(<<>>, <<>>) = <<>>
    BY <1>2 DEF BlocksOf
  <2> QED
    BY <1>1, <2>1, NoBlocks
<1>4. BuffersTyped(heap, buffers)
  BY <1>1, <1>2 DEF BuffersTyped
<1>5. IdleInv(m.state, heap, roots)
  <2>1. m.state = "normal"
    BY <1>1 DEF NoMemory
  <2> QED
    BY <1>1, <2>1, NothingMade
<1>6. RefsInv
  <2>1. (\A y, k : ~Released(y, k)) /\ (\A x : InRings(x) = {} /\ InLoops(x) = {}) /\ Calls = {}
    BY <1>1, Idle
  <2>2. Elements = {}
    BY <1>1, <1>2 DEF Elements
  <2>3. IsFiniteSet({}) /\ m.state = "normal" /\ <<>> \in Seq(Frame)
    BY <1>1, FS_EmptySet DEF NoMemory
  <2>4. Typed
    BY <1>1, <1>2, <2>3 DEF Typed
  <2>5. CallsSound /\ Counted /\ ElementsLive /\ StdRefs /\ TryRefs /\ NormalStd
    BY <1>1, <1>2, <2>1, <2>2, <2>3 DEF CallsSound, Counted, ElementsLive, StdRefs, TryRefs, NormalStd
  <2> QED
    BY <2>4, <2>5 DEF RefsInv
<1> QED
  BY <1>3, <1>4, <1>6 DEF IInv, MemInv

\* Every step keeps it.
LEMMA NextInvariant ==
  ASSUME IInv, [Next]_vars
  PROVE  IInv'
<1>1. ASSUME NEW s \in Shape, NEW refs \in References, Build(s[1], s[2], refs)
      PROVE  IInv'
  <2>1. <<s[1], s[2]>> = s
    BY ProgramAssumption
  <2>2. PICK kind, size : kind = s[1] /\ size = s[2]
    OBVIOUS
  <2>3. <<kind, size>> \in Shape /\ Build(kind, size, refs)
    BY <1>1, <2>1, <2>2
  <2> QED
    BY <2>3, BuildStepKeeps
<1>2. ASSUME NEW x \in DOMAIN heap, AddRef(x) PROVE IInv'
  BY <1>2, AddRefKeeps
<1>3. ASSUME NEW x \in DOMAIN heap, NEW y \in DOMAIN heap, Append1(x, y) PROVE IInv'
  BY <1>3, Append1Keeps
<1>4. ASSUME NEW x \in DOMAIN heap, Drop(x) PROVE IInv'
  BY <1>4, DropKeeps
<1>5. CASE DeleteStep
  BY <1>5, DeleteKeeps
<1>6. ASSUME NEW bytes \in BufferSize, NewBuffer(bytes) PROVE IInv'
  BY <1>6, NewBufferKeeps
<1>7. ASSUME NEW b \in DOMAIN buffers, NEW bytes \in BufferSize, ResizeBuffer(b, bytes) PROVE IInv'
  BY <1>7, ResizeBufferKeeps
<1>8. ASSUME NEW b \in DOMAIN buffers, DeleteBuffer(b) PROVE IInv'
  BY <1>8, DeleteBufferKeeps
<1>9. CASE EnterTry \/ EnterCopy \/ RestoreTry
  BY <1>9, SwitchStepKeeps
<1>10. CASE ReturnToNormal \/ AbortTry
  BY <1>10, ForgetStepKeeps
<1>11. CASE UNCHANGED vars
  <2>1. m' = m /\ heap' = heap /\ roots' = roots /\ buffers' = buffers /\ stack' = stack
    BY <1>11 DEF vars
  <2>2. RefsInv'
    BY <2>1 DEF IInv, RefsInv, Typed, CallsSound, Calls, Call, Pending, CurrMemory, Counted, InObjects, InRings,
      InLoops, Elements, Released, RefAt, ElementsLive, StdRefs, TryRefs, Running, NormalStd
  <2>3. MemInv'
    BY <2>1 DEF IInv, MemInv
  <2> QED
    BY <2>2, <2>3 DEF IInv
<1> QED
  BY <1>1, <1>2, <1>3, <1>4, <1>5, <1>6, <1>7, <1>8, <1>9, <1>10, <1>11 DEF Next

\* The invariant holds throughout.
THEOREM Invariant ==
  Spec => []IInv
<1>1. Init => IInv
  BY InitInvariant
<1>2. IInv /\ [Next]_vars => IInv'
  BY NextInvariant
<1> QED
  BY <1>1, <1>2, PTL DEF Spec

-----------------------------------------------------------------------------
(* The theorems. *)

\* All state keeps its shape: no reference count of obj_t and none of the bytes
\* that new_obj and free_obj count goes below zero, on either allocator.
THEOREM TypeCorrect ==
  Spec => []TypeOK
<1>1. IInv => TypeOK
  <2> SUFFICES ASSUME IInv PROVE TypeOK
    OBVIOUS
  <2>1. Typed /\ Tracked(m, BlocksOf(heap, buffers)) /\ BuffersTyped(heap, buffers)
    BY DEF IInv, RefsInv, MemInv
  <2>2. m \in AllocatorFields
    BY <2>1 DEF Tracked, AllocInv
  <2>3. m.live_mem_usage \in Nat
    <3>1. Summed(StdOf(BlocksOf(heap, buffers)), BytesOf(BlocksOf(heap, buffers)))
      BY <2>1, StdSummed DEF Tracked
    <3>2. PICK S : S = StdOf(BlocksOf(heap, buffers))
      OBVIOUS
    <3>3. PICK f : f = BytesOf(BlocksOf(heap, buffers))
      OBVIOUS
    <3>4. Total(f, S) \in Nat
      BY <3>1, <3>2, <3>3, TotalFacts
    <3> QED
      BY <2>1, <3>2, <3>3, <3>4 DEF Tracked
  <2>4. m \in Allocator
    BY <2>2, <2>3 DEF AllocatorFields, Allocator
  <2> QED
    BY <2>1, <2>4 DEF TypeOK, Typed, BuffersTyped
<1> QED
  BY <1>1, Invariant, PTL

\* The count in every object is that of the references to it, also in the middle
\* of delete_obj at any depth of its calls and any state of its ring: none is
\* freed while referred to, none is kept or freed twice.
THEOREM EveryReference ==
  Spec => []ReferencesAccounted
<1>1. IInv => ReferencesAccounted
  <2> SUFFICES ASSUME IInv PROVE ReferencesAccounted
    OBVIOUS
  <2>1. CallsSound /\ Counted /\ ElementsLive
    BY DEF IInv, RefsInv
  <2> QED
    BY <2>1 DEF ReferencesAccounted, CallsSound, Counted, ElementsLive, Pending, RefAt
<1> QED
  BY <1>1, Invariant, PTL

\* What the bytes of the blocks in use are.
LEMMA BytesAre ==
  ASSUME BuffersTyped(heap, buffers)
  PROVE  /\ StdBlocks = StdOf(BlocksOf(heap, buffers))
         /\ \A x \in DOMAIN heap \cup DOMAIN buffers :
              x \in DOMAIN BlocksOf(heap, buffers) /\ Bytes(x) = BlocksOf(heap, buffers)[x].bytes
<1>1. DOMAIN BlocksOf(heap, buffers) = DOMAIN heap \cup DOMAIN buffers
  BY DEF BlocksOf
<1>2. \A x \in DOMAIN heap : /\ BlocksOf(heap, buffers)[x].mem = heap[x].mem
                             /\ BlocksOf(heap, buffers)[x].bytes = Bytes(x)
  BY DEF BlocksOf, Bytes
<1>3. \A x \in DOMAIN buffers : /\ BlocksOf(heap, buffers)[x].mem = buffers[x].mem
                                /\ BlocksOf(heap, buffers)[x].bytes = Bytes(x)
  BY DEF BlocksOf, Bytes, BuffersTyped
<1>4. StdBlocks = StdOf(BlocksOf(heap, buffers))
  BY <1>1, <1>2, <1>3 DEF StdBlocks, StdOf, InMemory
<1> QED
  BY <1>1, <1>2, <1>3, <1>4

\* The fold that UsageExact is stated with is the sum.
LEMMA BytesTotal ==
  ASSUME NEW f, Summed(StdBlocks, f), \A x \in StdBlocks : f[x] = Bytes(x)
  PROVE  MapThenSumSet(Bytes, StdBlocks) = Total(f, StdBlocks)
<1> DEFINE First(s) == CHOOSE x \in s : TRUE
           Folds(k) == k = [s \in SUBSET StdBlocks |->
                              IF s = {} THEN 0 ELSE Bytes(First(s)) + k[s \ {First(s)}]]
           fold == CHOOSE k : Folds(k)
<1>1. MapThenSumSet(Bytes, StdBlocks) = fold[StdBlocks]
  BY DEF MapThenSumSet, MapThenFoldSet
<1>2. \A s \in SUBSET StdBlocks : s # {} => Bytes(First(s)) = f[First(s)]
  <2>1. \A s \in SUBSET StdBlocks : s # {} => First(s) \in StdBlocks
    OBVIOUS
  <2> HIDE DEF First
  <2> QED
    BY <2>1
<1>3. \A k : Folds(k) <=> AddsUp(k, StdBlocks, f)
  <2>1. \A k : AddsUp(k, StdBlocks, f) <=>
          k = [s \in SUBSET StdBlocks |-> IF s = {} THEN 0 ELSE f[First(s)] + k[s \ {First(s)}]]
    BY DEF AddsUp
  <2> HIDE DEF First
  <2> QED
    BY <1>2, <2>1
<1>4. \E k : Folds(k)
  BY <1>3, TotalAddsUp
<1>5. Folds(fold)
  <2> HIDE DEF Folds
  <2> QED
    BY <1>4
<1>6. AddsUp(fold, StdBlocks, f)
  <2> HIDE DEF fold, Folds
  <2> QED
    BY <1>3, <1>5
<1>7. fold[StdBlocks] = Total(f, StdBlocks)
  <2> HIDE DEF fold
  <2> QED
    BY <1>6, AddsUpTotal
<1> QED
  BY <1>1, <1>7

\* The bytes that new_obj and free_obj count, which debug builds report, are
\* those of the objects and buffers there are.
THEOREM UsageKnown ==
  Spec => []UsageExact
<1>1. IInv => UsageExact
  <2> SUFFICES ASSUME IInv PROVE UsageExact
    OBVIOUS
  <2>1. PICK blocks : blocks = BlocksOf(heap, buffers)
    OBVIOUS
  <2>2. Tracked(m, blocks) /\ BuffersTyped(heap, buffers)
    BY <2>1 DEF IInv, MemInv
  <2>3. StdBlocks = StdOf(blocks)
    BY <2>1, <2>2, BytesAre
  <2>4. PICK f : f = BytesOf(blocks)
    OBVIOUS
  <2>5. Summed(StdBlocks, f)
    BY <2>2, <2>3, <2>4, StdSummed DEF Tracked
  <2>6. \A x \in StdBlocks : f[x] = Bytes(x)
    <3>1. \A x \in StdBlocks : x \in DOMAIN heap \cup DOMAIN buffers
      BY DEF StdBlocks, InMemory
    <3> QED
      BY <3>1, <2>1, <2>2, <2>4, BytesAre DEF BytesOf
  <2>7. MapThenSumSet(Bytes, StdBlocks) = Total(f, StdBlocks)
    BY <2>5, <2>6, BytesTotal
  <2>8. m.live_objs = StdBlocks /\ m.live_mem_usage = Total(f, StdBlocks)
    BY <2>2, <2>3, <2>4 DEF Tracked
  <2> QED
    BY <2>7, <2>8 DEF UsageExact
<1> QED
  BY <1>1, Invariant, PTL

\* The spaces of BlocksDisjoint: a block in use, or one in a pool.
UsedSpace(s, blocks, x) == x \in DOMAIN blocks /\ s = [owner |-> x, block |-> x, bytes |-> blocks[x].bytes]
PoolSpace(s, p) ==
  p \in PoolPlaces /\ s = [owner |-> p, block |-> m.pool[p[1]][p[2]][p[3]], bytes |-> size_code_size(p[2])]

\* A space is of one kind or the other, and all of them are spaces.
LEMMA SpaceFacts ==
  ASSUME NEW blocks, blocks = BlocksOf(heap, buffers), BuffersTyped(heap, buffers)
  PROVE  /\ \A s \in Spaces : (\E x : UsedSpace(s, blocks, x)) \/ \E p : PoolSpace(s, p)
         /\ \A x \in DOMAIN blocks : [owner |-> x, block |-> x, bytes |-> blocks[x].bytes] \in Spaces
         /\ \A p \in PoolPlaces :
              [owner |-> p, block |-> m.pool[p[1]][p[2]][p[3]], bytes |-> size_code_size(p[2])] \in Spaces
<1>1. DOMAIN blocks = DOMAIN heap \cup DOMAIN buffers
  BY DEF BlocksOf
<1>2. \A x \in DOMAIN heap : blocks[x].bytes = obj_mem_size(heap[x])
  BY DEF BlocksOf
<1>3. \A x \in DOMAIN buffers : x \notin DOMAIN heap /\ blocks[x] = buffers[x]
  BY DEF BlocksOf, BuffersTyped
<1>4. ASSUME NEW s \in Spaces PROVE (\E x : UsedSpace(s, blocks, x)) \/ \E p : PoolSpace(s, p)
  <2>1. CASE \E x \in DOMAIN heap : s = [owner |-> x, block |-> x, bytes |-> obj_mem_size(heap[x])]
    BY <2>1, <1>1, <1>2 DEF UsedSpace
  <2>2. CASE \E x \in DOMAIN buffers : s = [owner |-> x, block |-> x, bytes |-> buffers[x].bytes]
    BY <2>2, <1>1, <1>3 DEF UsedSpace
  <2>3. CASE \E p \in PoolPlaces :
               s = [owner |-> p, block |-> m.pool[p[1]][p[2]][p[3]], bytes |-> size_code_size(p[2])]
    BY <2>3 DEF PoolSpace
  <2> QED
    BY <2>1, <2>2, <2>3 DEF Spaces
<1>5. ASSUME NEW x \in DOMAIN blocks PROVE [owner |-> x, block |-> x, bytes |-> blocks[x].bytes] \in Spaces
  <2>1. CASE x \in DOMAIN heap
    BY <2>1, <1>2 DEF Spaces
  <2>2. CASE x \in DOMAIN buffers
    BY <2>2, <1>3 DEF Spaces
  <2> QED
    BY <1>1, <2>1, <2>2
<1>6. \A p \in PoolPlaces :
        [owner |-> p, block |-> m.pool[p[1]][p[2]][p[3]], bytes |-> size_code_size(p[2])] \in Spaces
  BY DEF Spaces
<1> QED
  BY <1>4, <1>5, <1>6

\* A block in a pool.
LEMMA PoolPlaceFacts ==
  /\ \A p \in PoolPlaces : /\ p = <<p[1], p[2], p[3]>> /\ p[1] \in Memory /\ p[2] \in PooledCode
                           /\ p[3] \in DOMAIN m.pool[p[1]][p[2]]
  /\ \A mem \in Memory, code \in PooledCode : \A i \in DOMAIN m.pool[mem][code] :
       <<mem, code, i>> \in PoolPlaces
<1>1. ASSUME NEW p \in PoolPlaces
      PROVE  /\ p = <<p[1], p[2], p[3]>> /\ p[1] \in Memory /\ p[2] \in PooledCode
             /\ p[3] \in DOMAIN m.pool[p[1]][p[2]]
  <2>1. PICK mem \in Memory, code \in PooledCode : p \in {<<mem, code, i>> : i \in DOMAIN m.pool[mem][code]}
    BY DEF PoolPlaces
  <2>2. PICK i \in DOMAIN m.pool[mem][code] : p = <<mem, code, i>>
    BY <2>1
  <2>3. p[1] = mem /\ p[2] = code /\ p[3] = i
    BY <2>2
  <2> QED
    BY <2>2, <2>3
<1>2. ASSUME NEW mem \in Memory, NEW code \in PooledCode, NEW i \in DOMAIN m.pool[mem][code]
      PROVE  <<mem, code, i>> \in PoolPlaces
  <2> DEFINE one == {<<mem, code, k>> : k \in DOMAIN m.pool[mem][code]}
             all == {{<<a, c, k>> : k \in DOMAIN m.pool[a][c]} : a \in Memory, c \in PooledCode}
             p == <<mem, code, i>>
  <2>1. p \in one
    OBVIOUS
  <2>2. one \in all
    OBVIOUS
  <2>3. PoolPlaces = UNION all
    BY DEF PoolPlaces
  <2>4. p \in UNION all
    <3> HIDE DEF one, all, p
    <3> QED
      BY <2>1, <2>2
  <2> QED
    BY <2>3, <2>4
<1> QED
  BY <1>1, <1>2

\* The bytes a space has, by the code of its block.
CodeOf(s, blocks, code) ==
  \/ \E x : UsedSpace(s, blocks, x) /\ code = min_size_code(blocks[x].bytes)
  \/ \E p : PoolSpace(s, p) /\ code = p[2]

\* The space of a block is at most the room its code stands for.
LEMMA SpaceRoom ==
  ASSUME NEW blocks, Tracked(m, blocks), NEW s, NEW code, CodeOf(s, blocks, code)
  PROVE  /\ s.block \in Block /\ code \in Codes /\ s.bytes \in Nat /\ s.bytes <= size_code_size(code)
         /\ Room(m, s.block, code)
<1>1. AllocInv(m, CodesOf(blocks)) /\ BlocksTyped(blocks)
  BY DEF Tracked
<1>2. UsesTyped(CodesOf(blocks)) /\ InRoom(m, CodesOf(blocks)) /\ m \in AllocatorFields
  BY <1>1 DEF AllocInv
<1>3. CASE \E x : UsedSpace(s, blocks, x) /\ code = min_size_code(blocks[x].bytes)
  <2>1. PICK x : UsedSpace(s, blocks, x) /\ code = min_size_code(blocks[x].bytes)
    BY <1>3
  <2>2. x \in DOMAIN blocks /\ s.block = x /\ s.bytes = blocks[x].bytes
    BY <2>1 DEF UsedSpace
  <2>3. x \in DOMAIN CodesOf(blocks) /\ CodesOf(blocks)[x].code = code
    BY <2>1, <2>2 DEF CodesOf
  <2>4. x \in Block /\ code \in Codes /\ Room(m, x, code)
    BY <2>3, <1>2 DEF UsesTyped, InRoom
  <2>5. blocks[x].bytes \in Nat /\ blocks[x].bytes <= size_code_size(code)
    BY <1>1, <2>1, <2>2 DEF BlocksTyped
  <2> QED
    BY <2>2, <2>4, <2>5
<1>4. CASE \E p : PoolSpace(s, p) /\ code = p[2]
  <2>1. PICK p : PoolSpace(s, p) /\ code = p[2]
    BY <1>4
  <2>2. p[1] \in Memory /\ p[2] \in PooledCode /\ p[3] \in DOMAIN m.pool[p[1]][p[2]]
    BY <2>1, PoolPlaceFacts DEF PoolSpace
  <2>3. s.block = m.pool[p[1]][p[2]][p[3]] /\ s.bytes = size_code_size(p[2])
    BY <2>1 DEF PoolSpace
  <2>4. Room(m, s.block, code)
    BY <1>2, <2>1, <2>2, <2>3 DEF InRoom
  <2>5. m.pool[p[1]][p[2]] \in Seq(Block)
    BY <1>2, <2>2 DEF AllocatorFields
  <2>6. s.block \in Block
    BY <2>2, <2>3, <2>5
  <2>7. size_code_size(code) \in Nat /\ code \in Codes
    BY <2>1, <2>2, Sizes DEF Codes
  <2> QED
    BY <2>1, <2>3, <2>4, <2>6, <2>7
<1> QED
  BY <1>3, <1>4 DEF CodeOf

\* The spaces of two blocks are apart.
LEMMA SpacesApart ==
  ASSUME NEW blocks, Tracked(m, blocks), NEW s, NEW t, s # t,
         NEW c, CodeOf(s, blocks, c), NEW d, CodeOf(t, blocks, d)
  PROVE  Apart(s.block, c, t.block, d)
<1>1. /\ UsedApart(CodesOf(blocks)) /\ UsedPoolApart(m, CodesOf(blocks)) /\ PoolApart(m)
      /\ m \in AllocatorFields /\ UsesTyped(CodesOf(blocks))
  BY DEF Tracked, AllocInv
<1>2. /\ \A x : UsedSpace(s, blocks, x) => x \in DOMAIN CodesOf(blocks)
                  /\ CodesOf(blocks)[x].code = min_size_code(blocks[x].bytes) /\ s.block = x
      /\ \A x : UsedSpace(t, blocks, x) => x \in DOMAIN CodesOf(blocks)
                  /\ CodesOf(blocks)[x].code = min_size_code(blocks[x].bytes) /\ t.block = x
  BY DEF UsedSpace, CodesOf
<1>3. /\ \A p : PoolSpace(s, p) =>
                  /\ p \in PoolPlaces /\ p = <<p[1], p[2], p[3]>> /\ p[1] \in Memory /\ p[2] \in PooledCode
                  /\ p[3] \in DOMAIN m.pool[p[1]][p[2]] /\ s.block = m.pool[p[1]][p[2]][p[3]]
      /\ \A p : PoolSpace(t, p) =>
                  /\ p \in PoolPlaces /\ p = <<p[1], p[2], p[3]>> /\ p[1] \in Memory /\ p[2] \in PooledCode
                  /\ p[3] \in DOMAIN m.pool[p[1]][p[2]] /\ t.block = m.pool[p[1]][p[2]][p[3]]
  BY PoolPlaceFacts DEF PoolSpace
<1>4. s.block \in Block /\ t.block \in Block /\ c \in Codes /\ d \in Codes
  BY SpaceRoom
<1>5. CASE \E x, y : UsedSpace(s, blocks, x) /\ c = min_size_code(blocks[x].bytes)
                     /\ UsedSpace(t, blocks, y) /\ d = min_size_code(blocks[y].bytes)
  <2>1. PICK x, y : UsedSpace(s, blocks, x) /\ c = min_size_code(blocks[x].bytes)
                    /\ UsedSpace(t, blocks, y) /\ d = min_size_code(blocks[y].bytes)
    BY <1>5
  <2>2. x # y
    BY <2>1 DEF UsedSpace
  <2> QED
    BY <1>1, <1>2, <2>1, <2>2 DEF UsedApart
<1>6. CASE \E x, p : UsedSpace(s, blocks, x) /\ c = min_size_code(blocks[x].bytes) /\ PoolSpace(t, p) /\ d = p[2]
  BY <1>6, <1>1, <1>2, <1>3 DEF UsedPoolApart
<1>7. CASE \E x, p : UsedSpace(t, blocks, x) /\ d = min_size_code(blocks[x].bytes) /\ PoolSpace(s, p) /\ c = p[2]
  <2>1. Apart(t.block, d, s.block, c)
    BY <1>7, <1>1, <1>2, <1>3 DEF UsedPoolApart
  <2> QED
    BY <2>1 DEF Apart
<1>8. CASE \E p, q : PoolSpace(s, p) /\ c = p[2] /\ PoolSpace(t, q) /\ d = q[2]
  <2>1. PICK p, q : PoolSpace(s, p) /\ c = p[2] /\ PoolSpace(t, q) /\ d = q[2]
    BY <1>8
  <2>2. p # q
    BY <2>1 DEF PoolSpace
  <2>3. p[1] # q[1] \/ p[2] # q[2] \/ p[3] # q[3]
    BY <1>3, <2>1, <2>2
  <2> QED
    BY <1>1, <1>3, <2>1, <2>3 DEF PoolApart
<1> QED
  BY <1>5, <1>6, <1>7, <1>8 DEF CodeOf

\* Every space has a code.
LEMMA SpaceCode ==
  ASSUME NEW blocks, blocks = BlocksOf(heap, buffers), BuffersTyped(heap, buffers), NEW s \in Spaces
  PROVE  \E code : CodeOf(s, blocks, code)
BY SpaceFacts DEF CodeOf

\* No two blocks that new_obj has given out overlap, nor overlap a block that
\* free_obj put in a pool; each lies within an area malloc has given out.
THEOREM SpacesDisjoint ==
  Spec => []BlocksDisjoint
<1>1. IInv => BlocksDisjoint
  <2> SUFFICES ASSUME IInv PROVE BlocksDisjoint
    OBVIOUS
  <2>1. PICK blocks : blocks = BlocksOf(heap, buffers)
    OBVIOUS
  <2>2. Tracked(m, blocks) /\ BuffersTyped(heap, buffers)
    BY <2>1 DEF IInv, MemInv
  <2>3. m.pages \in [Area -> Nat]
    BY <2>2 DEF Tracked, AllocInv, AllocatorFields
  <2>4. ASSUME NEW s \in Spaces
        PROVE  s.block.at + s.bytes <= PAGE * m.pages[s.block.area]
    <3>1. PICK code : CodeOf(s, blocks, code)
      BY <2>1, <2>2, SpaceCode
    <3>2. /\ s.block \in Block /\ code \in Codes /\ s.bytes \in Nat /\ s.bytes <= size_code_size(code)
          /\ s.block.at + size_code_size(code) <= PAGE * m.pages[s.block.area]
      BY <2>2, <3>1, SpaceRoom DEF Room
    <3>3. s.block.at \in Nat /\ s.block.area \in Area
      BY <3>2, Constants DEF Block
    <3>4. size_code_size(code) \in Nat
      BY <3>2, Sizes
    <3>5. PAGE * m.pages[s.block.area] \in Nat
      BY <2>3, <3>3, Constants, Products
    <3> QED
      BY <3>2, <3>3, <3>4, <3>5
  <2>5. ASSUME NEW s \in Spaces, NEW t \in Spaces, s # t, s.block.area = t.block.area
        PROVE  s.block.at + s.bytes <= t.block.at \/ t.block.at + t.bytes <= s.block.at
    <3>1. PICK c : CodeOf(s, blocks, c)
      BY <2>1, <2>2, SpaceCode
    <3>2. PICK d : CodeOf(t, blocks, d)
      BY <2>1, <2>2, SpaceCode
    <3>3. /\ s.block \in Block /\ c \in Codes /\ s.bytes \in Nat /\ s.bytes <= size_code_size(c)
          /\ t.block \in Block /\ d \in Codes /\ t.bytes \in Nat /\ t.bytes <= size_code_size(d)
      BY <2>2, <3>1, <3>2, SpaceRoom
    <3>4. s.block.at + size_code_size(c) <= t.block.at \/ t.block.at + size_code_size(d) <= s.block.at
      BY <2>2, <2>5, <3>1, <3>2, SpacesApart DEF Apart
    <3>5. s.block.at \in Nat /\ t.block.at \in Nat
      BY <3>3, Constants DEF Block
    <3>6. size_code_size(c) \in Nat /\ size_code_size(d) \in Nat
      BY <3>3, Sizes
    <3> QED
      BY <3>3, <3>4, <3>5, <3>6
  <2>6. DOMAIN buffers \cap DOMAIN heap = {}
    BY <2>2 DEF BuffersTyped
  <2> QED
    BY <2>4, <2>5, <2>6 DEF BlocksDisjoint
<1> QED
  BY <1>1, Invariant, PTL

\* Out of transactions every area that malloc has given out holds a block:
\* release_all_try_state_memory leaves none of the transaction's behind.
THEOREM NothingStays ==
  Spec => []NothingLeft
<1>1. IInv => NothingLeft
  <2> SUFFICES ASSUME IInv, m.state = "normal"
               PROVE  {a \in Area : m.pages[a] > 0} = {s.block.area : s \in Spaces} /\ m.pool["try"] = EmptyPools
    BY DEF NothingLeft
  <2>1. PICK blocks : blocks = BlocksOf(heap, buffers)
    OBVIOUS
  <2>2. Tracked(m, blocks) /\ BuffersTyped(heap, buffers)
    BY <2>1 DEF IInv, MemInv
  <2>3. /\ m.pages \in [Area -> Nat] /\ m.pool \in [Memory -> [PooledCode -> Seq(Block)]]
        /\ AreasKept(m, CodesOf(blocks)) /\ \A c \in PooledCode : m.pool["try"][c] = <<>>
    BY <2>2 DEF Tracked, AllocInv, AllocatorFields, Modes
  <2>4. m.pool["try"] = EmptyPools
    BY <2>3 DEF EmptyPools, Memory
  <2>5. ASSUME NEW a \in Area, m.pages[a] > 0
        PROVE  \E s \in Spaces : a = s.block.area
    <3>1. HasBlock(m, CodesOf(blocks), a)
      BY <2>3, <2>5 DEF AreasKept
    <3>2. CASE \E x \in DOMAIN CodesOf(blocks) : x.area = a
      <4>1. PICK x \in DOMAIN blocks : x.area = a
        BY <3>2 DEF CodesOf
      <4>2. PICK s : s = [owner |-> x, block |-> x, bytes |-> blocks[x].bytes]
        OBVIOUS
      <4>3. s \in Spaces /\ s.block = x
        BY <2>1, <2>2, <4>2, SpaceFacts
      <4> QED
        BY <4>1, <4>3
    <3>3. CASE \E p \in Memory, c \in PooledCode : \E i \in DOMAIN m.pool[p][c] : m.pool[p][c][i].area = a
      <4>1. PICK p \in Memory, c \in PooledCode : \E i \in DOMAIN m.pool[p][c] : m.pool[p][c][i].area = a
        BY <3>3
      <4>2. PICK i \in DOMAIN m.pool[p][c] : m.pool[p][c][i].area = a
        BY <4>1
      <4>3. PICK q : q = <<p, c, i>>
        OBVIOUS
      <4>4. q \in PoolPlaces /\ q[1] = p /\ q[2] = c /\ q[3] = i
        BY <4>3, PoolPlaceFacts
      <4>5. PICK s : s = [owner |-> q, block |-> m.pool[q[1]][q[2]][q[3]], bytes |-> size_code_size(q[2])]
        OBVIOUS
      <4>6. s \in Spaces /\ s.block = m.pool[p][c][i]
        BY <2>1, <2>2, <4>4, <4>5, SpaceFacts
      <4> QED
        BY <4>2, <4>6
    <3> QED
      BY <3>1, <3>2, <3>3 DEF HasBlock
  <2>6. ASSUME NEW s \in Spaces
        PROVE  s.block.area \in Area /\ m.pages[s.block.area] > 0
    <3>1. PICK code : CodeOf(s, blocks, code)
      BY <2>1, <2>2, SpaceCode
    <3>2. s.block \in Block /\ code \in Codes /\ s.block.at + size_code_size(code) <= PAGE * m.pages[s.block.area]
      BY <2>2, <3>1, SpaceRoom DEF Room
    <3>3. s.block.at \in Nat /\ s.block.area \in Area
      BY <3>2, Constants DEF Block
    <3>4. PICK n \in Nat : n = m.pages[s.block.area]
      BY <2>3, <3>3
    <3>5. size_code_size(code) \in Nat /\ size_code_size(code) > 0
      BY <3>2, Sizes
    <3>6. PAGE * 0 = 0
      BY Constants
    <3>7. n # 0
      BY <3>2, <3>3, <3>4, <3>5, <3>6
    <3> QED
      BY <3>3, <3>4, <3>7
  <2>7. {a \in Area : m.pages[a] > 0} = {s.block.area : s \in Spaces}
    BY <2>5, <2>6
  <2> QED
    BY <2>4, <2>7
<1> QED
  BY <1>1, Invariant, PTL
=============================================================================
