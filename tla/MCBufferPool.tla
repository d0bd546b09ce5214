---------------------------- MODULE MCBufferPool ---------------------------
(* Small instances of the buffer pool; the number of frames is in the      *)
(* configurations.                                                         *)
EXTENDS BufferPoolProps

MCFrameId == 0 .. replacer_size - 1
MCPages2 == 0 .. 1
MCPages3 == 0 .. 2
MCPages4 == 0 .. 3

Symmetry == Permutations(Guard)
=============================================================================
