---------------------------- MODULE MCCondTable ----------------------------
EXTENDS CondTable
=============================================================================
