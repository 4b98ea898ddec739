---------------------------- MODULE MCMsgServer ----------------------------
\* Three clients that ask for an echo, one that ends the server
EXTENDS MsgServer

CONSTANTS c1, c2, c3, t1, t2

\* The clients that ask for an echo are alike, and so are the threads, and the
\* properties do not tell them apart: c1 starts first, t1 is the thread that an idle
\* process takes.  Bound: c3 starts when the replies to c1 and c2, both interrupted,
\* may fill the queue of replies of the first server
MCOrdre ==
  /\ cpc'[c1] = "debut" => cpc'[c2] = "debut"
  /\ cpc'[c3] # "debut" => lances' = 1 /\ cpc'[c1] = "tue" /\ cpc'[c2] = "tue"
  /\ pc[t1] = "aucun" /\ pc[t2] = "aucun" => pc'[t2] = "aucun"

MCNext == MqNext /\ MCOrdre

MCSpec == MqInit /\ [][MCNext]_mqVars /\ MqFairness
=============================================================================
