---------------------------- MODULE MCPointerPipe ----------------------------
EXTENDS PointerPipe
=============================================================================
