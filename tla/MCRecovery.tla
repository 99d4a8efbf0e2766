----------------------------- MODULE MCRecovery -----------------------------
(***************************************************************************)
(* How the Launch Manager learns that a process has ended, and what it     *)
(* does when one fails, for TLC: the map from process ids to components,   *)
(* and the process group manager with a supervised process.  The modules   *)
(* share no variable; a behaviour is one of the part it starts with, and   *)
(* the other keeps its first state.                                        *)
(***************************************************************************)
EXTENDS MCProcessGroupManager, SafeProcessMap

CONSTANTS comp1, comp2, comp3

VARIABLE part

recoveryVars == <<vars, mapVars, part>>

MCComponent == {comp1, comp2, comp3}

\* The low bits of these ids make trees of every shape with three nodes but one with
\* a chain to the right.
MCProcessId == {1, 2, 3}

RecoveryInit == part \in {"manager", "map"} /\ Init /\ MapInit

\* The main thread has left its loop.
ManagerLeft == part = "manager" /\ loop = "down" /\ UNCHANGED recoveryVars

RecoveryNext ==
  \/ part = "manager" /\ Next /\ UNCHANGED <<mapVars, part>>
  \/ part = "map" /\ MapNext /\ UNCHANGED <<vars, part>>
  \/ ManagerLeft

\* The fairness of the process group manager, without clients.
RecoveryFairness ==
  /\ WF_vars(part = "manager" /\ Start)
  /\ WF_vars(part = "manager" /\ ContinueDrain)
  /\ WF_vars(part = "manager" /\ ProcessGroupHandler)
  /\ WF_vars(part = "manager" /\ StartTransitionToOffState)
  /\ WF_vars(part = "manager" /\ EndShutdown)
  /\ \A n \in Process :
       /\ SF_vars(part = "manager" /\ HandleGraphEvent(n))
       /\ WF_vars(part = "manager" /\ WorkerStep(n) /\ UNCHANGED pgmVars)
  /\ \A n \in Supervised : SF_vars(part = "manager" /\ HandleRecoveryRequest(n))

RecoverySpec == RecoveryInit /\ [][RecoveryNext]_recoveryVars /\ RecoveryFairness
=============================================================================
