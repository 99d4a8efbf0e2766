---------------------------- MODULE MCApplications ----------------------------
(* What runs in the applications, and its channels to the Launch Manager, for TLC:  *)
(* the health monitor, the alive supervision of a process, and the control client.  *)
(* No two of these modules share a variable; a behaviour is one of the part it      *)
(* starts with, and the others keep their first state.                              *)
EXTENDS MCHealthMonitor, AliveSupervision, LmControl

CONSTANTS app, mw1, mw2, find

VARIABLE part

allVars == <<vars, aliveVars, lmControlVars, part>>

\* Of the health monitor, one configuration stands in for all while another part runs.
ApplicationsInit ==
  /\ part \in {"health", "alive", "control"}
  /\ MCInit /\ AliveInit /\ LmControlInit
  /\ part # "health" =>
       /\ monitors = CHOOSE c \in Configurations : TRUE
       /\ ~preempted

ApplicationsNext ==
  \/ part = "health" /\ Next /\ UNCHANGED <<aliveVars, lmControlVars, part>>
  \/ part = "alive" /\ AliveNext /\ UNCHANGED <<vars, lmControlVars, part>>
  \/ part = "control" /\ LmControlNext /\ UNCHANGED <<vars, aliveVars, part>>

ApplicationsSpec == ApplicationsInit /\ [][ApplicationsNext]_allVars

\* The alive supervision is explored as long as a property says something about it: while
\* the reference is exact, and after an overflow of the checkpoint ring.
AliveHorizon ==
  exact \/ (channel.overflow /\ ~events.overflow /\ ~channel.locked)

ApplicationsHorizon == Horizon /\ AliveHorizon
===============================================================================
