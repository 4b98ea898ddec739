---------------------------- MODULE MCMemoryAlloc ----------------------------
(* MemoryAlloc on a few pages of 8 bytes. memory_free gives back what was   *)
(* allocated for 8 bytes and for sizes of one byte more than whole pages.   *)
EXTENDS MemoryAlloc

MCTaillesSaines == {1, 8, 9, 17}
MCTaillesToutes == {1, 8, 16}

=============================================================================
