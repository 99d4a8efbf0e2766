--------------------------- MODULE MCWorkerThreads ---------------------------
(***************************************************************************)
(* The parts that the worker threads of the pool and the OsHandler execute,*)
(* for TLC: the queue of the pool, a process component, and the queue of   *)
(* events that they push for the main thread.                              *)
(* No two of these modules share a variable; a behaviour is one of the     *)
(* part it starts with, and the others keep their first state.             *)
(***************************************************************************)
EXTENDS ProcessInfoNode, MPMCConcurrentQueue, MainLoop

CONSTANTS p1, p2, prod1, prod2, cons1, cons2, work, alive

VARIABLE part

allVars == <<vars, queueVars, loopVars, part>>

AllProfiles == [reporting : BOOLEAN, selfTerminating : BOOLEAN,
                ready : {"Running", "Terminated", "File"}]

\* Two process ids: a restarted process may get the id of its predecessor or another.
TwoPids == {p1, p2}

\* Together one item more than the ring holds.
MCPushes == [p \in {prod1, prod2} |-> IF p = prod1 THEN 2 ELSE 1]

\* A valid timeout, one that is too short, too long, not a multiple of the resolution,
\* and one whose lower 16 bits are valid.
MCTimeoutsMs == {2000, 500, 40000, 1500, 2^16 + 2000}

\* Of the process component and of the watchdog, one configuration stands in for all
\* while another part runs.
MCInit ==
  /\ part \in {"component", "queue", "loop"}
  /\ Init /\ QueueInit /\ MainLoopInit
  /\ part # "component" => profile = CHOOSE f \in Profiles : TRUE
  /\ part # "loop" => watchdogConfig = NoConfig

\* Every thread of a stopped queue has left it.
QueueLeft ==
  /\ part = "queue" /\ stopped
  /\ \A c \in Consumer : at[c] = "ended"
  /\ \A p \in Producer : at[p] = "push" /\ pushed[p] = Pushes[p]
  /\ UNCHANGED allVars

\* The Launch Manager has ended and no reset is to come, or the machine was reset.
DaemonLeft ==
  /\ part = "loop"
  /\ machineReset \/ (mainAt = "exited" /\ device = "off")
  /\ UNCHANGED allVars

MCNext ==
  \/ part = "component" /\ Next /\ UNCHANGED <<queueVars, loopVars, part>>
  \/ part = "queue" /\ QueueNext /\ UNCHANGED <<vars, loopVars, part>>
  \/ part = "loop" /\ MainLoopNext /\ UNCHANGED <<vars, queueVars, part>>
  \/ QueueLeft
  \/ DaemonLeft

\* The fairness of each part, as its module states it.
MCFairness ==
  /\ WF_vars(part = "component" /\ Worker)
  /\ WF_vars(part = "component" /\ Main)
  /\ WF_vars(part = "component" /\ OsHandler)
  /\ WF_vars(part = "component" /\ HandleUnexpectedTermination)
  /\ \A p \in Producer : WF_queueVars(part = "queue" /\ Push(p))
  /\ \A c \in Consumer : WF_queueVars(part = "queue" /\ RunWorker(c))
  /\ WF_queueVars(part = "queue" /\ stopped /\ Stop)
  /\ WF_loopVars(part = "loop" /\ MainThread)
  /\ \A s \in Sender : WF_loopVars(part = "loop" /\ StoreOverflow(s))
  /\ WF_loopVars(part = "loop" /\ DeviceStep)

MCSpec == MCInit /\ [][MCNext]_allVars /\ MCFairness
==============================================================================
