---------------------------- MODULE MCFramedPipe ----------------------------
(* FramedPipe with an integer of 2 bytes and buffers of 6 bytes: lengths   *)
(* from 1 to 4 fit with the 2 bytes sizeof('\0') adds, 5 does not.         *)
EXTENDS FramedPipe

MCLongueurs == {1, 4, 5}

=============================================================================
