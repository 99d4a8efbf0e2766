-------------------------------- MODULE Graph --------------------------------
(***************************************************************************)
(* The run target graph of the Launch Manager daemon: class Graph with the *)
(* Transition it drives, the worker pool that executes its component tasks *)
(* and the component events that come back.                                *)
(*                                                                         *)
(* Threads.  All graph and transition state belongs to the main thread.    *)
(* It handles one component event or one call of ProcessGroupManager at a  *)
(* time; queueReadyNodes(), which ends most handlers, runs as a sequence   *)
(* of Dispatch steps (main = "drain") because the workers keep changing    *)
(* the activity flags the loop reads.  A worker executes one task; the     *)
(* OsHandler thread reports processes that die.                            *)
(*                                                                         *)
(* Abstractions.  An event is visible to the main thread from the moment   *)
(* its producer has decided to push it, and events of different producers  *)
(* are handled in any order: this covers every delay between the decision  *)
(* and the push.  The worker queue holds kMaxProcesses tasks and never     *)
(* more than one per process (OneTaskPerProcess), so a push never fails.   *)
(* At most one unhandled unexpected termination per process is modelled.   *)
(***************************************************************************)
EXTENDS Integers, FiniteSets

CONSTANTS
  Process,          \* ProcessInfoNode nodes
  RunTarget,        \* RunTarget nodes
  DependsOn,        \* the dependency lists of the configuration
  SelfTerminating,  \* processes whose profile has is_self_terminating
  Off,              \* Graph::off_state_name
  Fallback,         \* Graph::recovery_state_name
  Initial,          \* initial_run_target_ of the configuration
  NoRunTarget       \* the empty IdentifierHash

Node == Process \cup RunTarget

\* The nodes that list n in their dependencies.
Dependents(n) == {m \in Node : n \in DependsOn[m]}

ASSUME NodesAssumption ==
  /\ IsFiniteSet(Process) /\ IsFiniteSet(RunTarget)
  /\ Process \cap RunTarget = {}
  /\ SelfTerminating \subseteq Process
  /\ {Off, Fallback, Initial} \subseteq RunTarget
  /\ NoRunTarget \notin Node

ASSUME DependsOnAssumption == DependsOn \in [Node -> SUBSET Node]

\* The dependencies contain no cycle: every set of nodes has a node that
\* depends on none of them, and one on which none of them depends.
ASSUME AcyclicAssumption ==
  \A S \in SUBSET Node : S # {} =>
    /\ \E n \in S : DependsOn[n] \cap S = {}
    /\ \E n \in S : \A m \in S : n \notin DependsOn[m]

\* DependencyGraph::traverse: the nodes reachable from a root, as the least set
\* that has the root and is closed under DependsOn.
Subgraph == [root \in RunTarget |->
  {n \in Node : \A S \in SUBSET Node :
     (root \in S /\ \A m \in S : DependsOn[m] \subseteq S) => n \in S}]

VARIABLES
  state,      \* state_
  requested,  \* requested_state_
  source,     \* transition_source_
  initial,    \* is_initial_state_transition_
  reported,   \* the last active_run_target_callback_ call, or NoRunTarget
  jobs,       \* jobs_in_progress_
  phase,      \* Transition: state_.phase
  pending,    \* Transition: state_.pending
  nextNodes,  \* Transition: state_.next_nodes, how often a node is queued
  inTarget,   \* Transition: the nodes with in_target_subgraph_
  enqueued,   \* Transition: the nodes with enqueued_
  main,       \* "drain" while the main thread is inside queueReadyNodes()
  active,     \* IComponent::active() of every node
  running,    \* the processes that exist in the operating system
  task,       \* where the task of a process is
  stopped,    \* processes whose task holds a token with a stop request
  crashed     \* processes with an unhandled UnexpectedTermination

transition == <<phase, pending, nextNodes, inTarget, enqueued>>
workers == <<task, stopped>>
graphVars == <<state, requested, source, initial, reported, jobs, transition,
               main, active, running, workers, crashed>>

GraphStates == {"kSuccess", "kInTransition", "kAborting", "kUndefinedState"}
Sources == {"kStateManagerRequest", "kRecoveryAction", "kInitialActivation"}

\* A task waits in the worker queue, is executed by a worker, and ends as a
\* completion event: "succeeded" is ActivationSuccessful, DeactivationComplete
\* or JobSkipped, "failed" is ActivationFailed.
TaskStates ==
  {"none", "activate", "deactivate", "starting", "launched", "up", "stopping",
   "terminating", "succeeded", "failed"}

-----------------------------------------------------------------------------
(* Graph::setState: the table state_results[new][old].                      *)

StateResult(new, old) ==
  CASE new = "kSuccess" ->
         IF old \in {"kSuccess", "kInTransition"} THEN "kSuccess" ELSE "kUndefinedState"
    [] new = "kInTransition" ->
         IF old = "kAborting" THEN "kAborting" ELSE "kInTransition"
    [] new = "kAborting" ->
         IF old \in {"kInTransition", "kAborting"} THEN "kAborting" ELSE "kUndefinedState"
    [] new = "kUndefinedState" ->
         IF old = "kInTransition" THEN "kAborting" ELSE "kUndefinedState"

\* The state after setState(new); leaving kInTransition requests a stop on the
\* token of every task of the transition.
BecomeState(target) ==
  /\ state' = target
  /\ stopped' = IF state = "kInTransition" /\ target # "kInTransition"
                  THEN Process ELSE stopped

\* setState(kAborting), then handleNonTransitionExecution() or cancel()'s
\* setState(kUndefinedState) when nothing is in flight.
AbortedState(inFlight) ==
  LET aborting == StateResult("kAborting", state)
  IN  IF inFlight = 0 THEN StateResult("kUndefinedState", aborting) ELSE aborting

-----------------------------------------------------------------------------
(* Transition: which nodes are ready, and what a finished node enables.     *)
(* act is the activity of the nodes as the main thread reads it.            *)

AllDepsActive(n, act) == \A d \in DependsOn[n] : act[d]

AllDependentsStopped(n, act) == \A d \in Dependents(n) : ~act[d]

IsReady(n, act) ==
  IF phase = "Starting"
    THEN n \in inTarget /\ ~act[n] /\ AllDepsActive(n, act)
    ELSE n \notin inTarget /\ act[n] /\ AllDependentsStopped(n, act)

\* Mutant: every inactive node is a head.
AdvanceToAllHeads(target, act) ==
  LET todo == {i \in target : ~act[i]}
  IN  /\ phase' = IF todo = {} THEN "Done" ELSE "Starting"
      /\ pending' = Cardinality(todo)
      /\ nextNodes' = [i \in Node |-> IF i \in todo THEN 1 ELSE 0]
      /\ enqueued' = {}

\* advanceToStarting() with setupActivation().
AdvanceToStarting(target, act) ==
  LET todo == {i \in target : ~act[i]}
  IN  /\ phase' = IF todo = {} THEN "Done" ELSE "Starting"
      /\ pending' = Cardinality(todo)
      /\ nextNodes' = [i \in Node |->
                         IF i \in todo /\ AllDepsActive(i, act) THEN 1 ELSE 0]
      /\ enqueued' = {}

\* Mutant: nothing is stopped first.
SetupWithoutStopping(root, act) ==
  /\ inTarget' = Subgraph[root]
  /\ AdvanceToStarting(Subgraph[root], act)

\* setupTransition() with setupDeactivation().
SetupTransition(root, act) ==
  LET target == Subgraph[root]
      todo   == {i \in Node \ target : act[i]}
  IN  /\ inTarget' = target
      /\ \/ /\ todo = {}
            /\ AdvanceToStarting(target, act)
         \/ /\ todo # {}
            /\ phase' = "Stopping"
            /\ pending' = Cardinality(todo)
            /\ nextNodes' = [i \in Node |->
                 IF i \in todo /\ AllDependentsStopped(i, act) THEN 1 ELSE 0]
            /\ enqueued' = {}

\* The neighbours of n in the direction of the phase.
Successors(n) == IF phase = "Starting" THEN Dependents(n) ELSE DependsOn[n]

\* Mutant: a successor is appended by every predecessor that finds it ready.
OnNodeFinishedTwice(n, act, queue) ==
  LET new == {s \in Successors(n) : IsReady(s, act)}
  IN  \/ /\ pending = 1
         /\ phase = "Stopping"
         /\ AdvanceToStarting(inTarget, act)
         /\ UNCHANGED inTarget
      \/ /\ pending = 1
         /\ phase # "Stopping"
         /\ phase' = "Done"
         /\ pending' = 0
         /\ nextNodes' = queue
         /\ UNCHANGED <<inTarget, enqueued>>
      \/ /\ pending # 1
         /\ pending' = pending - 1
         /\ nextNodes' = [s \in Node |-> queue[s] + IF s \in new THEN 1 ELSE 0]
         /\ UNCHANGED <<phase, inTarget, enqueued>>

\* onNodeFinished() with queue the nodes still to be dispatched: the last node
\* of a phase ends it, every other one appends the successors that became ready
\* and were not appended before.
OnNodeFinished(n, act, queue) ==
  LET new == {s \in Successors(n) : IsReady(s, act) /\ s \notin enqueued}
  IN  \/ /\ pending = 1
         /\ phase = "Stopping"
         /\ AdvanceToStarting(inTarget, act)
         /\ UNCHANGED inTarget
      \/ /\ pending = 1
         /\ phase # "Stopping"
         /\ phase' = "Done"
         /\ pending' = 0
         /\ nextNodes' = queue
         /\ UNCHANGED <<inTarget, enqueued>>
      \/ /\ pending # 1
         /\ pending' = pending - 1
         /\ nextNodes' = [s \in Node |-> queue[s] + IF s \in new THEN 1 ELSE 0]
         /\ enqueued' = enqueued \cup new
         /\ UNCHANGED <<phase, inTarget>>

-----------------------------------------------------------------------------
(* The main thread: calls of ProcessGroupManager.                           *)

GraphInit ==
  /\ state = "kSuccess"
  /\ requested = NoRunTarget
  /\ source = "kStateManagerRequest"
  /\ initial = FALSE
  /\ reported = NoRunTarget
  /\ jobs = 0
  /\ phase = "Done"
  /\ pending = 0
  /\ nextNodes = [n \in Node |-> 0]
  /\ inTarget = {}
  /\ enqueued = {}
  /\ main = "idle"
  /\ active = [n \in Node |-> FALSE]
  /\ running = {}
  /\ task = [n \in Process |-> "none"]
  /\ stopped = {}
  /\ crashed = {}

\* startTransition(); its assertion demands a graph in a final state, which
\* processGroupHandler() checks and allProcessGroupsOff() waits for.
StartTransition(root, src) ==
  /\ main = "idle"
  /\ state \in {"kSuccess", "kUndefinedState"}
  /\ source' = src
  /\ requested' = root
  /\ BecomeState("kInTransition")
  /\ SetupTransition(root, active)
  /\ main' = "drain"
  /\ UNCHANGED <<reported, jobs, active, running, task, crashed>>

\* startInitialTransition(): called once, before the main loop.
StartInitialTransition ==
  /\ requested = NoRunTarget
  /\ initial' = TRUE
  /\ StartTransition(Initial, "kStateManagerRequest")

\* A later startTransition() or startTransitionToOffState().
StartNextTransition(root, src) ==
  /\ requested # NoRunTarget
  /\ StartTransition(root, src)
  /\ UNCHANGED initial

\* Mutant: the jobs in flight are forgotten.
CancelAtOnce ==
  /\ main = "idle"
  /\ requested # NoRunTarget
  /\ BecomeState(AbortedState(0))
  /\ UNCHANGED <<requested, source, initial, reported, jobs, transition, main,
                 active, running, task, crashed>>

\* cancel().
Cancel ==
  /\ main = "idle"
  /\ requested # NoRunTarget
  /\ BecomeState(AbortedState(jobs))
  /\ UNCHANGED <<requested, source, initial, reported, jobs, transition, main,
                 active, running, task, crashed>>

\* forceKillProcesses(): SIGKILL to every process that has a pid, when the
\* transition to Off takes too long.  What their workers are doing decides which
\* of these deaths are reported as unexpected.
ForceKillProcesses ==
  /\ main = "idle"
  /\ requested = Off
  /\ state = "kInTransition"
  /\ running' = {}
  /\ \E unexpected \in SUBSET running : crashed' = crashed \cup unexpected
  /\ UNCHANGED <<state, requested, source, initial, reported, jobs, transition,
                 main, active, workers>>

-----------------------------------------------------------------------------
(* The main thread: queueReadyNodes() and finalizeTransitionSuccess().      *)

\* tryQueueNode(): the action of the node is the one of the current phase.
DispatchProcess(n) ==
  /\ main = "drain"
  /\ nextNodes[n] > 0
  /\ nextNodes' = [nextNodes EXCEPT ![n] = @ - 1]
  /\ task' = [task EXCEPT ![n] = IF phase = "Starting" THEN "activate" ELSE "deactivate"]
  /\ stopped' = stopped \ {n}
  /\ jobs' = jobs + 1
  /\ UNCHANGED <<state, requested, source, initial, reported, phase, pending,
                 inTarget, enqueued, main, active, running, crashed>>

\* updateRunTargetInPlace().
DispatchRunTarget(n) ==
  LET act == [active EXCEPT ![n] = (phase = "Starting")]
  IN  /\ main = "drain"
      /\ nextNodes[n] > 0
      /\ active' = act
      /\ OnNodeFinished(n, act, [nextNodes EXCEPT ![n] = @ - 1])
      /\ UNCHANGED <<state, requested, source, initial, reported, jobs, main,
                     running, workers, crashed>>

\* Mutant: an empty frontier counts as a finished transition.
FinishDrainEarly ==
  /\ main = "drain"
  /\ \A n \in Node : nextNodes[n] = 0
  /\ main' = "idle"
  /\ reported' = [target |-> requested,
                  source |-> IF initial THEN "kInitialActivation" ELSE source]
  /\ initial' = FALSE
  /\ BecomeState(StateResult("kSuccess", state))
  /\ UNCHANGED <<requested, source, jobs, transition, active, running, task, crashed>>

\* The loop is over: an unfinished transition waits for its workers, a
\* finished one is reported and makes the graph kSuccess.
FinishDrain ==
  /\ main = "drain"
  /\ \A n \in Node : nextNodes[n] = 0
  /\ main' = "idle"
  /\ \/ /\ phase # "Done"
        /\ UNCHANGED <<state, stopped, reported, initial>>
     \/ /\ phase = "Done"
        /\ reported' = [target |-> requested,
                        source |-> IF initial THEN "kInitialActivation" ELSE source]
        /\ initial' = FALSE
        /\ BecomeState(StateResult("kSuccess", state))
  /\ UNCHANGED <<requested, source, jobs, transition, active, running, task, crashed>>

-----------------------------------------------------------------------------
(* The main thread: handleComponentEvent().                                 *)

\* nodeExecuted() with success while the transition runs.
NodeFinishedInTransition(n) ==
  /\ main = "idle"
  /\ task[n] = "succeeded"
  /\ state = "kInTransition"
  /\ task' = [task EXCEPT ![n] = "none"]
  /\ jobs' = jobs - 1
  /\ OnNodeFinished(n, active, nextNodes)
  /\ main' = "drain"
  /\ UNCHANGED <<state, requested, source, initial, reported, active, running,
                 stopped, crashed>>

\* Mutant: a failed initial transition leaves is_initial_state_transition_ set.
NodeFinishedStillInitial(n) ==
  LET failed == task[n] = "failed"
      now    == IF failed THEN StateResult("kAborting", state) ELSE state
  IN  /\ main = "idle"
      /\ failed \/ (task[n] = "succeeded" /\ state # "kInTransition")
      /\ task' = [task EXCEPT ![n] = "none"]
      /\ jobs' = jobs - 1
      /\ BecomeState(IF jobs - 1 = 0 THEN StateResult("kUndefinedState", now) ELSE now)
      /\ UNCHANGED <<requested, source, initial, reported, transition, main, active,
                     running, crashed>>

\* nodeExecuted() with a failure, or after the transition was left: the last
\* job in flight ends in handleNonTransitionExecution().
NodeFinishedAborting(n) ==
  LET failed == task[n] = "failed"
      last   == jobs - 1 = 0
      now    == IF failed THEN StateResult("kAborting", state) ELSE state
  IN  /\ main = "idle"
      /\ failed \/ (task[n] = "succeeded" /\ state # "kInTransition")
      /\ task' = [task EXCEPT ![n] = "none"]
      /\ jobs' = jobs - 1
      /\ initial' = (initial /\ ~last)
      /\ BecomeState(IF last THEN StateResult("kUndefinedState", now) ELSE now)
      /\ UNCHANGED <<requested, source, reported, transition, main, active,
                     running, crashed>>

\* UnexpectedTermination: the component is deactivated on the main thread.
HandleUnexpectedTermination(n) ==
  /\ main = "idle"
  /\ n \in crashed
  /\ crashed' = crashed \ {n}
  /\ active' = [active EXCEPT ![n] = FALSE]
  /\ running' = running \ {n}
  /\ initial' = (initial /\ jobs # 0)
  /\ BecomeState(AbortedState(jobs))
  /\ UNCHANGED <<requested, source, reported, jobs, transition, main, task>>

-----------------------------------------------------------------------------
(* A worker: ProcessMonitor::doWork() and the component it drives.          *)

Worker(n, from, to) ==
  /\ task[n] = from
  /\ task' = [task EXCEPT ![n] = to]
  /\ UNCHANGED <<state, requested, source, initial, reported, jobs, transition,
                 main, stopped, crashed>>

\* Mutant: a skipped job is not reported.
SkipJobSilently(n) ==
  /\ n \in stopped
  /\ \E from \in {"activate", "deactivate"} : Worker(n, from, "none")
  /\ UNCHANGED <<active, running>>

\* The token of the task has a stop request: JobSkipped.
SkipJob(n) ==
  /\ n \in stopped
  /\ \E from \in {"activate", "deactivate"} : Worker(n, from, "succeeded")
  /\ UNCHANGED <<active, running>>

\* activate(): a component that is already active has nothing to do.
BeginActivate(n) ==
  /\ n \notin stopped
  /\ Worker(n, "activate", IF active[n] THEN "succeeded" ELSE "starting")
  /\ UNCHANGED <<active, running>>

\* startProcess() of the launcher succeeded.
Launch(n) ==
  /\ Worker(n, "starting", "launched")
  /\ running' = running \cup {n}
  /\ UNCHANGED active

\* Mutant: a process that missed its ready condition is left alone.
ActivationFailsLeavingProcess(n) ==
  /\ \E from \in {"starting", "launched"} : Worker(n, from, "failed")
  /\ UNCHANGED <<active, running>>

\* The last attempt could not be launched or missed its ready condition, and
\* its process is gone: ActivationFailed.
ActivationFails(n) ==
  /\ \E from \in {"starting", "launched"} : Worker(n, from, "failed")
  /\ running' = running \ {n}
  /\ UNCHANGED active

\* The ready condition is met and setState(kRunning) succeeded, or the
\* self-terminating process has already done its work.
ReachRunning(n) ==
  /\ n \in running \cup SelfTerminating
  /\ Worker(n, "launched", "up")
  /\ UNCHANGED <<active, running>>

\* tryReportSuccess(): reached_ready_, then ActivationSuccessful.
ReportReady(n) ==
  /\ Worker(n, "up", "succeeded")
  /\ active' = [active EXCEPT ![n] = TRUE]
  /\ UNCHANGED running

\* deactivate() clears reached_ready_ before it terminates the process.
BeginDeactivate(n) ==
  /\ n \notin stopped
  /\ Worker(n, "deactivate", "stopping")
  /\ active' = [active EXCEPT ![n] = FALSE]
  /\ UNCHANGED running

\* handleTerminationProcess() has set termination_requested_.
RequestTermination(n) ==
  /\ Worker(n, "stopping", "terminating")
  /\ UNCHANGED <<active, running>>

\* Mutant: the end of the process is not awaited.
DeactivatedEarly(n) ==
  /\ Worker(n, "terminating", "succeeded")
  /\ UNCHANGED <<active, running>>

\* The process is gone, by SIGTERM or by SIGKILL: DeactivationComplete.
Deactivated(n) ==
  /\ Worker(n, "terminating", "succeeded")
  /\ running' = running \ {n}
  /\ UNCHANGED active

WorkerStep(n) ==
  \/ SkipJob(n)
  \/ BeginActivate(n)
  \/ Launch(n)
  \/ ActivationFails(n)
  \/ ReachRunning(n)
  \/ ReportReady(n)
  \/ BeginDeactivate(n)
  \/ RequestTermination(n)
  \/ Deactivated(n)

-----------------------------------------------------------------------------
(* The operating system, seen by the OsHandler thread.                      *)

\* tryHandleTermination() returns kFailure: UnexpectedTermination.  A worker
\* that terminates the process does not rule this out: it does not wait for
\* tryHandleTermination() when SIGTERM finds the process already reaped.
Crash(n) ==
  /\ n \in running \ crashed
  /\ running' = running \ {n}
  /\ crashed' = crashed \cup {n}
  /\ UNCHANGED <<state, requested, source, initial, reported, jobs, transition,
                 main, active, workers>>

\* A self-terminating process exits with status 0: kIgnore, it stays active.
SelfExit(n) ==
  /\ n \in running \cap SelfTerminating
  /\ running' = running \ {n}
  /\ UNCHANGED <<state, requested, source, initial, reported, jobs, transition,
                 main, active, workers, crashed>>

-----------------------------------------------------------------------------
MainDrain ==
  \/ \E n \in Process : DispatchProcess(n)
  \/ \E n \in RunTarget : DispatchRunTarget(n)
  \/ FinishDrain

HandleCompletion(n) == NodeFinishedInTransition(n) \/ NodeFinishedAborting(n)

Requests ==
  \/ StartInitialTransition
  \/ \E t \in RunTarget : StartNextTransition(t, "kStateManagerRequest")
  \/ StartNextTransition(Fallback, "kRecoveryAction")
  \/ Cancel
  \/ ForceKillProcesses

GraphNext ==
  \/ Requests
  \/ MainDrain
  \/ \E n \in Process :
       \/ HandleCompletion(n)
       \/ HandleUnexpectedTermination(n)
       \/ WorkerStep(n)
       \/ Crash(n)
       \/ SelfExit(n)

\* The main thread keeps draining its queue, and a worker that holds a task
\* makes progress: ready and shutdown timeouts bound every wait and SIGKILL
\* ends a process that ignores SIGTERM.
GraphFairness ==
  /\ WF_graphVars(MainDrain)
  /\ \A n \in Process : WF_graphVars(HandleCompletion(n)) /\ WF_graphVars(WorkerStep(n))

GraphSafety == GraphInit /\ [][GraphNext]_graphVars

GraphSpec == GraphSafety /\ GraphFairness

-----------------------------------------------------------------------------
(* Properties.                                                              *)

\* Every variable has its type; jobs_in_progress_ and pending never become negative.
TypeOK ==
  /\ state \in GraphStates
  /\ requested \in RunTarget \cup {NoRunTarget}
  /\ source \in Sources
  /\ initial \in BOOLEAN
  /\ reported \in [target : RunTarget, source : Sources] \cup {NoRunTarget}
  /\ jobs \in Nat
  /\ phase \in {"Stopping", "Starting", "Done"}
  /\ pending \in Nat
  /\ nextNodes \in [Node -> Nat]
  /\ inTarget \in SUBSET Node
  /\ enqueued \in SUBSET Node
  /\ main \in {"idle", "drain"}
  /\ active \in [Node -> BOOLEAN]
  /\ running \in SUBSET Process
  /\ task \in [Process -> TaskStates]
  /\ stopped \in SUBSET Process
  /\ crashed \in SUBSET Process

\* The processes with a task in the queue, at a worker or with an unhandled
\* completion event.
Busy == {n \in Process : task[n] # "none"}

\* jobs_in_progress_ counts exactly the tasks that will still report back: a
\* task reported twice, or not at all, would end an abort early or never.
JobAccounting == jobs = Cardinality(Busy)

\* A process is handed to the workers only when it has no task, and is queued
\* at most once, although several finished nodes can make it ready (the
\* enqueued_ flag of onNodeFinished()).
OneTaskPerProcess ==
  \A n \in Node : nextNodes[n] > 0 => nextNodes[n] = 1 /\ n \notin Busy

\* The graph waits only for something: kInTransition and kAborting have a job
\* in flight whenever the main thread waits for events, and the final states
\* have none, so a new transition never meets a task of the previous one.
InFlightMatchesState ==
  main = "idle" => (jobs > 0 <=> state \in {"kInTransition", "kAborting"})

\* While a transition runs, a component is started only with all of its
\* dependencies active (comp_req__launch_man__dep_based_startup_order).
StartOrder ==
  state = "kInTransition" =>
    \A n \in Process : task[n] \in {"activate", "starting", "launched", "up"} =>
      AllDepsActive(n, active)

\* kSuccess means that exactly the nodes of the requested run target are
\* active, whatever earlier transitions were aborted on the way.
SuccessIsRequestedTarget ==
  state = "kSuccess" /\ requested # NoRunTarget =>
    \A n \in Node : active[n] <=> n \in Subgraph[requested]

\* No process outlives what the graph knows of it: a running process is active,
\* so that the next transition can stop it, or a worker is still handling it.
NoOrphan ==
  \A n \in running : active[n] \/ task[n] \in {"launched", "up", "stopping", "terminating"}

\* The components a transition stops are gone before it starts any.
StopsBeforeStarts ==
  state = "kInTransition" /\ phase # "Stopping" => running \subseteq inTarget

\* Only the transition of startInitialTransition() is reported to the state
\* manager as kInitialActivation, never a recovery that follows its failure.
InitialActivationIsInitial ==
  reported # NoRunTarget /\ reported.source = "kInitialActivation" =>
    reported.target = Initial

\* Doc: a component is stopped only after every component that depends on it
\* has been stopped.
StopOrder ==
  \A n \in Process : task[n] = "terminating" => Dependents(n) \cap running = {}

\* Doc: in kSuccess the requested run target is active.  Each of its processes
\* that is not self-terminating runs, or its crash is about to be handled.
SuccessIsAlive ==
  state = "kSuccess" /\ main = "idle" =>
    \A n \in (inTarget \cap Process) \ SelfTerminating : n \in running \cup crashed

=============================================================================
