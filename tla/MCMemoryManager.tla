-------------------------- MODULE MCMemoryManager --------------------------
(***************************************************************************)
(* Model-checking instance of MemoryManager. Blocks of 64 bytes are        *)
(* pooled, two to a chunk, and larger ones take pages of 128.              *)
(***************************************************************************)
EXTENDS MemoryManager

CONSTANT null

\* 32 bytes, in a block with room for two elements more, and 152, two pages.
Shapes == {<<"seq", 1>>, <<"map", 4>>}
=============================================================================
