---------------------------- MODULE MCSemTable ----------------------------
EXTENDS SemTable
=============================================================================
