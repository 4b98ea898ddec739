----------------------------- MODULE MCServeurs -----------------------------
(***************************************************************************)
(* The servers, side by side in one run: programme says which one runs,    *)
(* and the others stay in their initial state.                             *)
(***************************************************************************)
EXTENDS Tchaton, ChatPoll, EchoLoops, ServeurWeb, Nommage, ServeursTCP, Spouleurs, Banque, TLC

CONSTANTS c1, c2, c3, r1, r2, a, b

\* clients of a server are alike, Muet and Principal apart: one stands for all
MCTemoins == {c2}

\* two of the names that clients ask for have the same first letter
MCLettre == c1 :> a @@ c2 :> a @@ c3 :> b

VARIABLE programme

mcVars == <<programme, tcVars, chVars, ecVars, wbVars, noVars, tcpVars, spVars, bkVars>>

MCInit ==
  /\ programme \in {"tchaton", "chat", "echo", "web", "noms", "tcp", "spool", "banque"}
  /\ TcInit /\ ChInit /\ EcInit /\ WbInit /\ NoInit /\ TcpInit /\ SpInit /\ BkInit
  /\ programme # "echo" => version = "select"
  /\ programme # "noms" => question = "Q1"
  /\ programme # "tcp" => forme = "seul"
  /\ programme # "spool" => spool = "memoire"

\* Bounds: c2, the client that ChacunServi is about, and Muet do all that clients do,
\* the others less.  Clients that are alike come in one order
MCBornes ==
  /\ Len(tube[c1]) <= 1 /\ lien[c1] # "rompu" /\ lien[r2] = "ouvert"
  /\ tcpc[r2] # "dehors" => tcpc[r1] # "dehors" /\ tcpc[c1] = "dehors"
  /\ lignes[c3] = 0 /\ (chLien[c1] = "dehors" => chLien[c3] = "dehors")
  /\ demande[c3] = "rien" /\ ecLien[c3] # "rompu"
  /\ wbLien[c3] = "ouvert" /\ \A c \in {c1, c3} : flux[c] \in {<<>>, <<"tout">>}
  /\ tcppc[c3] # "tue"

Seul(p, vars) == programme # p => UNCHANGED vars

MCNext ==
  /\ \/ programme = "tchaton" /\ TcNext
     \/ programme = "chat" /\ ChNext
     \/ programme = "echo" /\ EcNext
     \/ programme = "web" /\ WbNext
     \/ programme = "noms" /\ NoNext
     \/ programme = "tcp" /\ TcpNext
     \/ programme = "spool" /\ SpNext
     \/ programme = "banque" /\ BkNext
  /\ Seul("tchaton", tcVars) /\ Seul("chat", chVars) /\ Seul("echo", ecVars)
  /\ Seul("web", wbVars) /\ Seul("noms", noVars) /\ Seul("tcp", tcpVars)
  /\ Seul("spool", spVars) /\ Seul("banque", bkVars)
  /\ UNCHANGED programme
  /\ MCBornes'

\* What is fair in a server is disabled in its initial state
MCSpec ==
  /\ MCInit /\ [][MCNext]_mcVars
  /\ TcFairness /\ ChFairness /\ EcFairness /\ WbFairness /\ NoFairness
  /\ TcpFairness /\ SpFairness /\ BkFairness

-----------------------------------------------------------------------------
(* Properties *)

\* Every client that has asked something of the server that runs is served in the
\* end, but for the cases that each server's module names
ChacunServi == \A c \in MCTemoins :
  \/ programme = "tchaton" /\ TcAttend(c)
  \/ programme = "chat" /\ ChAttend(c)
  \/ programme = "echo" /\ EcAttend(c)
  \/ programme = "web" /\ WbAttend(c)
  \/ programme = "noms" /\ NoAttend(c)
  \/ programme = "tcp" /\ TcpAttend(c)
  \/ programme = "spool" /\ SpAttend(c)
  \/ programme = "banque" /\ BkAttend(c)
  ~>
  \/ programme = "tchaton" /\ TcServi(c)
  \/ programme = "chat" /\ ChServi(c)
  \/ programme = "echo" /\ EcServi(c)
  \/ programme = "web" /\ WbServi(c)
  \/ programme = "noms" /\ NoServi(c)
  \/ programme = "tcp" /\ TcpServi(c)
  \/ programme = "spool" /\ SpServi(c)
  \/ programme = "banque" /\ BkServi(c)
=============================================================================
