---------------------------- MODULE MCQueueServer ----------------------------
EXTENDS QueueServer
=============================================================================
