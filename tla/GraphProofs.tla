----------------------------- MODULE GraphProofs -----------------------------
(***************************************************************************)
(* Proofs about Graph, for every configuration.                            *)
(***************************************************************************)
EXTENDS Graph, FiniteSetTheorems, TLAPS

InTransition == state = "kInTransition"

\* The nodes the current phase still waits for, and those that must have left
\* this set before a node is due.
Todo ==
  IF phase = "Stopping"
    THEN {i \in Node \ inTarget : active[i] \/ i \in Busy}
    ELSE {i \in inTarget : ~active[i] \/ i \in Busy}

Preds(i) == IF phase = "Stopping" THEN Dependents(i) ELSE DependsOn[i]

Queued == {i \in Node : nextNodes[i] > 0}

Dispatched == Busy \cup Queued

-----------------------------------------------------------------------------
(* The inductive invariant.                                                 *)

\* What the graph state says about the main thread and the jobs.
Control ==
  /\ main = "drain" => InTransition
  /\ state \in {"kSuccess", "kUndefinedState"} => jobs = 0
  /\ state = "kAborting" => jobs > 0
  /\ InTransition /\ main = "idle" => jobs > 0
  /\ requested = NoRunTarget => state = "kSuccess" /\ ~initial /\ running = {} /\ crashed = {}
  /\ initial => requested = Initial /\ state \in {"kInTransition", "kAborting"}
  /\ source # "kInitialActivation"

\* The frontier holds each node once, and only inside queueReadyNodes().
Frontier ==
  /\ \A n \in Queued : nextNodes[n] = 1 /\ n \notin Busy
  /\ main = "idle" => Queued = {}

\* pending counts the nodes that are still to finish; whatever was handed out
\* is one of them, and the stop phase has left nothing behind.
Counting ==
  InTransition =>
    /\ requested \in RunTarget
    /\ inTarget = Subgraph[requested]
    /\ Dispatched \subseteq Todo
    /\ pending = Cardinality(Todo)
    /\ phase = "Done" <=> Todo = {}
    /\ phase # "Stopping" => \A i \in Node \ inTarget : ~active[i]

\* A node is handed out only when nothing it waits for is left (a node made
\* ready by onNodeFinished() may wait for events only), and every node that is
\* due has been handed out.
Scheduling ==
  InTransition => \A s \in Node :
    /\ s \in Dispatched \ enqueued => Preds(s) \cap Todo = {}
    /\ s \in Todo /\ Preds(s) \cap Todo = {} => s \in Dispatched
    /\ s \in Todo \cap enqueued => s \in Dispatched
    /\ phase # "Stopping" /\ s \in Dispatched => AllDepsActive(s, active)

\* While a transition runs no task of it has seen a stop request, and every
\* task is of the kind of the phase.
Tasks ==
  InTransition =>
    /\ Busy \cap stopped = {}
    /\ \A n \in Busy :
         IF phase = "Stopping"
           THEN \/ task[n] = "deactivate" /\ active[n]
                \/ task[n] \in {"stopping", "terminating", "succeeded"} /\ ~active[n]
           ELSE \/ task[n] \in {"activate", "starting", "launched", "up", "failed"} /\ ~active[n]
                \/ task[n] = "succeeded" /\ active[n]

IInv ==
  /\ TypeOK
  /\ JobAccounting
  /\ Control
  /\ Frontier
  /\ Counting
  /\ Scheduling
  /\ Tasks
  /\ NoOrphan
  /\ SuccessIsRequestedTarget
  /\ InitialActivationIsInitial
-----------------------------------------------------------------------------
(* Facts about the configuration and about counting tasks.                  *)

\* The nodes are finitely many, and run targets are no processes.
LEMMA NodeFacts ==
  /\ IsFiniteSet(Node)
  /\ Process \subseteq Node /\ RunTarget \subseteq Node
  /\ Process \cap RunTarget = {}
  /\ \A n \in Node : DependsOn[n] \subseteq Node /\ Dependents(n) \subseteq Node
<1>1. IsFiniteSet(Node)
  BY NodesAssumption, FS_Union DEF Node
<1>2. QED
  BY <1>1, NodesAssumption, DependsOnAssumption DEF Node, Dependents

\* traverse() collects a set of nodes that has all of their dependencies.
LEMMA SubgraphClosed ==
  ASSUME NEW r \in RunTarget
  PROVE  /\ Subgraph[r] \subseteq Node
         /\ \A m \in Subgraph[r] : DependsOn[m] \subseteq Subgraph[r]
<1>1. Subgraph[r] = {n \in Node : \A S \in SUBSET Node :
                       (r \in S /\ \A m \in S : DependsOn[m] \subseteq S) => n \in S}
  BY DEF Subgraph
<1>2. ASSUME NEW m \in Subgraph[r], NEW d \in DependsOn[m]
      PROVE  d \in Subgraph[r]
  <2>1. m \in Node /\ d \in Node
    BY <1>1, NodeFacts
  <2>2. ASSUME NEW S \in SUBSET Node, r \in S, \A k \in S : DependsOn[k] \subseteq S
        PROVE  d \in S
    <3>1. m \in S
      BY <1>1, <2>2
    <3>2. QED
      BY <2>2, <3>1
  <2>3. QED
    BY <1>1, <2>1, <2>2
<1>3. QED
  BY <1>1, <1>2

\* The busy processes are finitely many, so their number is one.
LEMMA BusyFinite ==
  IsFiniteSet(Busy) /\ Cardinality(Busy) \in Nat
<1>1. Busy \subseteq Process
  BY DEF Busy
<1>2. QED
  BY <1>1, NodesAssumption, FS_Subset, FS_CardinalityType

\* A process that gets a task is one busy process more.
LEMMA TaskBegins ==
  ASSUME TypeOK, JobAccounting, NEW n \in Process, n \notin Busy,
         NEW t \in TaskStates \ {"none"},
         task' = [task EXCEPT ![n] = t], jobs' = jobs + 1
  PROVE  JobAccounting' /\ Busy' = Busy \cup {n}
<1>1. Busy' = Busy \cup {n}
  BY DEF Busy, TypeOK, TaskStates
<1>2. Cardinality(Busy \cup {n}) = Cardinality(Busy) + 1
  BY BusyFinite, FS_AddElement
<1>3. QED
  BY <1>1, <1>2 DEF JobAccounting

\* A process whose completion event was handled is one busy process less.
LEMMA TaskEnds ==
  ASSUME TypeOK, JobAccounting, NEW n \in Busy,
         task' = [task EXCEPT ![n] = "none"], jobs' = jobs - 1
  PROVE  JobAccounting' /\ Busy' = Busy \ {n} /\ jobs' \in Nat
<1>1. Busy' = Busy \ {n}
  BY DEF Busy, TypeOK
<1>2. Cardinality(Busy \ {n}) = Cardinality(Busy) - 1
  BY BusyFinite, FS_RemoveElement
<1>3. IsFiniteSet(Busy \ {n}) /\ Cardinality(Busy \ {n}) \in Nat
  BY BusyFinite, FS_Subset, FS_CardinalityType, FS_RemoveElement
<1>4. QED
  BY <1>1, <1>2, <1>3 DEF JobAccounting

-----------------------------------------------------------------------------
(* The transition: setting up a phase, and finishing a node.                *)

\* The nodes to be done are finitely many.
LEMMA TodoFinite ==
  ASSUME TypeOK
  PROVE  Todo \subseteq Node /\ IsFiniteSet(Todo) /\ Cardinality(Todo) \in Nat
<1>1. Todo \subseteq Node
  BY NodeFacts DEF Todo, TypeOK, Busy
<1>2. QED
  BY <1>1, NodeFacts, FS_Subset, FS_CardinalityType

\* advanceToStarting() establishes the invariant of a transition when no task
\* is in flight and nothing outside the target is active.
LEMMA StartPhase ==
  ASSUME NEW act \in [Node -> BOOLEAN], active' = act, Busy' = {},
         requested' \in RunTarget, inTarget' = Subgraph[requested'],
         \A i \in Node \ inTarget' : ~act[i],
         AdvanceToStarting(inTarget', act)
  PROVE  /\ Counting' /\ Scheduling'
         /\ \A q \in Queued' : nextNodes'[q] = 1 /\ q \notin Busy'
<1> DEFINE todo == {i \in inTarget' : ~act[i]}
<1>1. inTarget' \subseteq Node /\ \A m \in inTarget' : DependsOn[m] \subseteq inTarget'
  BY SubgraphClosed
<1>2. /\ phase' = IF todo = {} THEN "Done" ELSE "Starting"
      /\ pending' = Cardinality(todo)
      /\ nextNodes' = [i \in Node |-> IF i \in todo /\ AllDepsActive(i, act) THEN 1 ELSE 0]
      /\ enqueued' = {}
  BY DEF AdvanceToStarting
<1>3. Todo' = todo
  BY <1>1, <1>2 DEF Todo
<1>4. Dispatched' = {i \in todo : AllDepsActive(i, act)}
  BY <1>1, <1>2 DEF Dispatched, Queued
<1>5. \A i \in todo : AllDepsActive(i, act) <=> DependsOn[i] \cap todo = {}
  BY <1>1 DEF AllDepsActive
<1>6. \A i \in Node : Preds(i)' = DependsOn[i]
  BY <1>2 DEF Preds
<1>7. Counting'
  BY <1>2, <1>3, <1>4 DEF Counting
<1>8. Scheduling'
  BY <1>2, <1>3, <1>4, <1>5, <1>6 DEF Scheduling, AllDepsActive
<1>9. QED
  BY <1>2, <1>7, <1>8 DEF Queued

\* setupTransition() establishes it when no task is in flight.
LEMMA SetupPhase ==
  ASSUME TypeOK, active' = active, Busy' = {}, NEW root \in RunTarget,
         requested' = root, SetupTransition(root, active)
  PROVE  /\ Counting' /\ Scheduling'
         /\ \A q \in Queued' : nextNodes'[q] = 1 /\ q \notin Busy'
<1> DEFINE target == Subgraph[root]
           todo   == {i \in Node \ target : active[i]}
<1>1. target \subseteq Node /\ \A m \in target : DependsOn[m] \subseteq target
  BY SubgraphClosed
<1>2. inTarget' = target /\ active \in [Node -> BOOLEAN]
  BY DEF SetupTransition, TypeOK
<1>3. CASE todo = {}
  <2>1. AdvanceToStarting(inTarget', active)
    BY <1>2, <1>3 DEF SetupTransition
  <2>2. \A i \in Node \ inTarget' : ~active[i]
    BY <1>2, <1>3
  <2>3. QED
    BY <1>2, <2>1, <2>2, StartPhase
<1>4. CASE todo # {}
  <2>1. /\ phase' = "Stopping"
        /\ pending' = Cardinality(todo)
        /\ nextNodes' = [i \in Node |->
             IF i \in todo /\ AllDependentsStopped(i, active) THEN 1 ELSE 0]
        /\ enqueued' = {}
    BY <1>4 DEF SetupTransition
  <2>2. Todo' = todo
    BY <1>2, <2>1 DEF Todo
  <2>3. Dispatched' = {i \in todo : AllDependentsStopped(i, active)}
    BY <2>1 DEF Dispatched, Queued
  <2>4. \A i \in todo : AllDependentsStopped(i, active) <=> Dependents(i) \cap todo = {}
    BY <1>1 DEF AllDependentsStopped, Dependents
  <2>5. \A i \in Node : Preds(i)' = Dependents(i)
    BY <2>1 DEF Preds, Dependents
  <2>6. Counting'
    BY <1>2, <1>4, <2>1, <2>2, <2>3 DEF Counting
  <2>7. Scheduling'
    BY <2>1, <2>2, <2>3, <2>4, <2>5 DEF Scheduling
  <2>8. QED
    BY <2>1, <2>6, <2>7 DEF Queued
<1>5. QED
  BY <1>3, <1>4

\* onNodeFinished() keeps it: the node leaves Todo, and exactly the successors
\* that were waiting for it alone join the frontier, each of them once.
LEMMA NodeFinishes ==
  ASSUME TypeOK, Frontier, Counting, Scheduling, InTransition,
         NEW n \in Dispatched, NEW act \in [Node -> BOOLEAN], NEW queue,
         queue = [nextNodes EXCEPT ![n] = 0],
         active' = act, \A i \in Node \ {n} : act[i] = active[i],
         act[n] = (phase # "Stopping"),
         Busy' = Busy \ {n}, requested' = requested,
         OnNodeFinished(n, act, queue)
  PROVE  /\ Counting' /\ Scheduling'
         /\ \A q \in Queued' : nextNodes'[q] = 1 /\ q \notin Busy'
         /\ phase' # phase => Busy' = {}
<1>1. /\ n \in Todo /\ n \in Node
      /\ Dispatched \subseteq Todo
      /\ pending = Cardinality(Todo)
      /\ phase \in {"Stopping", "Starting"}
      /\ requested \in RunTarget /\ inTarget = Subgraph[requested]
      /\ phase # "Stopping" => \A i \in Node \ inTarget : ~active[i]
  BY TodoFinite DEF Counting, TypeOK
<1>2. inTarget \subseteq Node /\ \A m \in inTarget : DependsOn[m] \subseteq inTarget
  BY <1>1, SubgraphClosed
<1>3. /\ IsFiniteSet(Todo \ {n})
      /\ Cardinality(Todo \ {n}) = pending - 1
      /\ Cardinality(Todo \ {n}) \in Nat
  BY <1>1, TodoFinite, FS_RemoveElement, FS_Subset, FS_CardinalityType
<1>4. queue \in [Node -> Nat] /\ \A s \in Node : queue[s] = IF s = n THEN 0 ELSE nextNodes[s]
  BY <1>1 DEF TypeOK
<1>5. CASE pending = 1
  <2>1. Todo \ {n} = {}
    BY <1>3, <1>5, FS_EmptySet
  <2>2. Busy' = {} /\ \A s \in Node : queue[s] = 0
    BY <1>1, <1>4, <2>1 DEF Dispatched, Queued, TypeOK
  <2>3. CASE phase = "Stopping"
    <3>1. AdvanceToStarting(inTarget, act) /\ inTarget' = inTarget
      BY <1>5, <2>3 DEF OnNodeFinished
    <3>2. \A i \in Node \ inTarget : ~act[i]
      BY <2>1, <2>3 DEF Todo
    <3>3. QED
      BY <1>1, <2>2, <3>1, <3>2, StartPhase
  <2>4. CASE phase = "Starting"
    <3>1. /\ phase' = "Done" /\ pending' = 0 /\ nextNodes' = queue
          /\ inTarget' = inTarget /\ enqueued' = enqueued
      BY <1>5, <2>4 DEF OnNodeFinished
    <3>2. \A i \in inTarget : act[i]
      BY <2>1, <2>4, <1>2 DEF Todo
    <3>3. Todo' = {} /\ Dispatched' = {} /\ Queued' = {}
      BY <2>2, <3>1, <3>2 DEF Todo, Dispatched, Queued
    <3>4. \A i \in Node \ inTarget : ~act[i]
      BY <1>1, <2>4 DEF Todo
    <3>5. Counting'
      BY <1>1, <3>1, <3>3, <3>4, FS_EmptySet DEF Counting
    <3>6. Scheduling'
      BY <3>1, <3>3 DEF Scheduling
    <3>7. QED
      BY <2>2, <3>3, <3>5, <3>6
  <2>5. QED
    BY <1>1, <2>3, <2>4
<1>6. CASE pending # 1
  <2> DEFINE new == {s \in Successors(n) : IsReady(s, act) /\ s \notin enqueued}
  <2>1. /\ pending' = pending - 1
        /\ nextNodes' = [s \in Node |-> queue[s] + IF s \in new THEN 1 ELSE 0]
        /\ enqueued' = enqueued \cup new
        /\ phase' = phase /\ inTarget' = inTarget
    BY <1>6 DEF OnNodeFinished
  <2>2. Todo' = Todo \ {n}
    BY <1>1, <1>2, <2>1 DEF Todo
  <2>3. \A s \in Node : Preds(s)' = Preds(s)
    BY <2>1 DEF Preds, Dependents
  <2>4. new \subseteq Node /\ \A s \in new : n \in Preds(s)
    BY <1>1, NodeFacts DEF Successors, Preds, Dependents
  <2>5. new \cap Dispatched = {}
    BY <1>1, <2>4 DEF Scheduling
  <2>6. n \notin new
    BY <2>5
  <2>7. Queued' = (Queued \ {n}) \cup new
    BY <1>4, <2>1, <2>4 DEF Queued, TypeOK
  <2>8. Dispatched' = (Dispatched \ {n}) \cup new
    BY <2>7, <2>6 DEF Dispatched
  <2>9. \A q \in Queued' : nextNodes'[q] = 1 /\ q \notin Busy'
    BY <1>4, <2>1, <2>4, <2>5, <2>7 DEF Frontier, Queued, Dispatched, TypeOK
  <2>10. new \subseteq Todo'
    BY <2>2, <2>4, <2>6, <1>1, <1>2 DEF IsReady, Todo
  <2>11. Counting'
    <3>1. pending' = Cardinality(Todo')
      BY <1>3, <2>1, <2>2
    <3>2. phase' # "Done" /\ Todo' # {}
      <4>1. Cardinality(Todo') # 0
        BY <1>3, <1>6, <2>2 DEF TypeOK
      <4>2. QED
        BY <1>1, <2>1, <4>1, FS_EmptySet
    <3>3. Dispatched' \subseteq Todo'
      BY <1>1, <2>2, <2>8, <2>10
    <3>4. phase' # "Stopping" => \A i \in Node \ inTarget' : ~act[i]
      BY <1>1, <2>1 DEF Todo
    <3>5. QED
      BY <1>1, <2>1, <3>1, <3>2, <3>3, <3>4 DEF Counting
  <2>12. ASSUME NEW s \in Node, s \in Dispatched' \ enqueued'
         PROVE  Preds(s)' \cap Todo' = {}
    BY <2>1, <2>2, <2>3, <2>8, <2>12 DEF Scheduling
  <2>13. ASSUME NEW s \in Node, s \in Todo' \cap enqueued'
         PROVE  s \in Dispatched'
    BY <2>1, <2>2, <2>8, <2>13 DEF Scheduling
  <2>14. ASSUME NEW s \in Node, s \in Todo', Preds(s)' \cap Todo' = {}
         PROVE  s \in Dispatched'
    <3>1. CASE Preds(s) \cap Todo = {}
      BY <2>2, <2>8, <2>14, <3>1 DEF Scheduling
    <3>2. CASE s \in Busy
      BY <2>2, <2>8, <2>14, <3>2 DEF Dispatched
    <3>3. CASE s \in enqueued
      BY <2>1, <2>13, <2>14, <3>3
    <3>4. CASE s \notin Busy /\ s \notin enqueued /\ Preds(s) \cap Todo # {}
      <4>1. s # n /\ n \in Preds(s) /\ Preds(s) \cap Todo' = {}
        BY <2>2, <2>3, <2>14, <3>4
      <4>2. s \in Successors(n)
        BY <1>1, <4>1 DEF Successors, Preds, Dependents
      <4>3. IsReady(s, act)
        <5>1. CASE phase = "Starting"
          <6>1. s \in inTarget /\ ~act[s]
            BY <2>2, <2>14, <3>4, <5>1 DEF Todo
          <6>2. \A d \in DependsOn[s] : act[d]
            BY <1>1, <1>2, <2>2, <4>1, <5>1, <6>1 DEF Preds, Todo
          <6>3. QED
            BY <5>1, <6>1, <6>2 DEF IsReady, AllDepsActive
        <5>2. CASE phase = "Stopping"
          <6>1. s \notin inTarget /\ act[s]
            BY <2>2, <2>14, <3>4, <5>2 DEF Todo
          <6>2. \A d \in Dependents(s) : ~act[d]
            BY <1>1, <1>2, <2>2, <4>1, <5>2, <6>1 DEF Preds, Todo, Dependents
          <6>3. QED
            BY <5>2, <6>1, <6>2 DEF IsReady, AllDependentsStopped
        <5>3. QED
          BY <1>1, <5>1, <5>2
      <4>4. QED
        BY <2>8, <3>4, <4>2, <4>3
    <3>5. QED
      BY <3>1, <3>2, <3>3, <3>4
  <2>15. ASSUME NEW s \in Node, phase' # "Stopping", s \in Dispatched'
         PROVE  AllDepsActive(s, act)
    <3>1. CASE s \in Dispatched
      BY <2>1, <2>15, <3>1, NodeFacts DEF Scheduling, AllDepsActive
    <3>2. CASE s \in new
      BY <1>1, <2>1, <2>15, <3>2 DEF IsReady
    <3>3. QED
      BY <2>8, <2>15, <3>1, <3>2
  <2>16. Scheduling'
    BY <2>12, <2>13, <2>14, <2>15 DEF Scheduling, AllDepsActive
  <2>17. QED
    BY <2>1, <2>9, <2>11, <2>16
<1>7. QED
  BY <1>5, <1>6

-----------------------------------------------------------------------------
(* The invariant holds initially.                                           *)

LEMMA InitHolds == GraphInit => IInv
<1> SUFFICES ASSUME GraphInit PROVE IInv
  OBVIOUS
<1>1. TypeOK
  BY NodesAssumption DEF GraphInit, TypeOK, GraphStates, Sources, TaskStates
<1>2. JobAccounting
  <2>1. Busy = {}
    BY DEF GraphInit, Busy
  <2>2. QED
    BY <2>1, FS_EmptySet DEF GraphInit, JobAccounting
<1>3. Control /\ Frontier /\ NoOrphan
  BY DEF GraphInit, Control, InTransition, Frontier, Queued, NoOrphan
<1>4. Counting /\ Scheduling /\ Tasks
  BY DEF GraphInit, Counting, Scheduling, Tasks, InTransition
<1>5. SuccessIsRequestedTarget /\ InitialActivationIsInitial
  BY DEF GraphInit, SuccessIsRequestedTarget, InitialActivationIsInitial
<1>6. QED
  BY <1>1, <1>2, <1>3, <1>4, <1>5 DEF IInv

-----------------------------------------------------------------------------
(* Graph::setState.                                                         *)

\* The table never leaves the four states.
LEMMA StateResultType ==
  \A new, old \in GraphStates : StateResult(new, old) \in GraphStates
BY DEF GraphStates, StateResult

\* Aborting ends in kAborting exactly when a transition has jobs in flight.
LEMMA Aborted ==
  ASSUME NEW k, state \in GraphStates
  PROVE  AbortedState(k) =
           IF state \in {"kInTransition", "kAborting"} /\ k # 0
             THEN "kAborting" ELSE "kUndefinedState"
BY DEF AbortedState, StateResult, GraphStates

-----------------------------------------------------------------------------
(* Steps of the workers and of the operating system.                        *)

\* What such a step leaves alone, as long as it changes the activity of busy
\* processes only and does not deactivate anything in the start phase.
LEMMA QuietStep ==
  ASSUME IInv, active' \in [Node -> BOOLEAN], Busy' = Busy,
         UNCHANGED <<state, requested, source, initial, reported, jobs, transition, main>>,
         \A i \in Node \ Busy : active'[i] = active[i],
         InTransition /\ phase # "Stopping" => \A i \in Busy : active[i] => active'[i]
  PROVE  /\ JobAccounting' /\ Frontier' /\ Counting' /\ Scheduling'
         /\ SuccessIsRequestedTarget' /\ InitialActivationIsInitial'
<1>1. JobAccounting' /\ Frontier' /\ InitialActivationIsInitial'
  BY DEF IInv, JobAccounting, Frontier, Queued, InitialActivationIsInitial, transition
<1>2. ASSUME InTransition
      PROVE  Counting' /\ Scheduling'
  <2>1. Busy \subseteq Todo
    BY <1>2 DEF IInv, Counting, Dispatched
  <2>2. Todo' = Todo
    BY <2>1, NodeFacts DEF IInv, TypeOK, Todo, transition
  <2>3. Dispatched' = Dispatched /\ \A s \in Node : Preds(s)' = Preds(s)
    BY DEF Dispatched, Queued, Preds, Dependents, transition
  <2>4. phase # "Stopping" => \A i \in Node \ inTarget : ~active'[i]
    BY <1>2, <2>1 DEF IInv, Counting, Todo
  <2>5. Counting'
    BY <1>2, <2>2, <2>3, <2>4 DEF IInv, Counting, InTransition, transition
  <2>6. phase # "Stopping" => \A s \in Node : AllDepsActive(s, active) => AllDepsActive(s, active')
    BY <1>2, NodeFacts DEF AllDepsActive
  <2>7. Scheduling'
    BY <1>2, <2>2, <2>3, <2>6 DEF IInv, Scheduling, InTransition, transition, AllDepsActive
  <2>8. QED
    BY <2>5, <2>7
<1>3. ~InTransition => Counting' /\ Scheduling'
  BY DEF Counting, Scheduling, InTransition
<1>4. SuccessIsRequestedTarget'
  <2>1. state = "kSuccess" => Busy = {}
    BY BusyFinite, FS_EmptySet DEF IInv, Control, JobAccounting
  <2>2. QED
    BY <2>1 DEF IInv, SuccessIsRequestedTarget
<1>5. QED
  BY <1>1, <1>2, <1>3, <1>4

\* A worker moves a task from one state to another.
LEMMA WorkerKeeps ==
  ASSUME IInv, NEW n \in Process,
         NEW from \in TaskStates \ {"none"}, NEW to \in TaskStates \ {"none"},
         Worker(n, from, to), running' \in SUBSET Process,
         active' \in [Node -> BOOLEAN], \A i \in Node \ {n} : active'[i] = active[i],
         InTransition /\ phase # "Stopping" /\ active[n] => active'[n]
  PROVE  /\ TypeOK' /\ JobAccounting' /\ Control' /\ Frontier' /\ Counting' /\ Scheduling'
         /\ SuccessIsRequestedTarget' /\ InitialActivationIsInitial'
         /\ Busy' = Busy /\ n \in Busy
<1>1. TypeOK /\ task[n] = from /\ task' = [task EXCEPT ![n] = to]
  BY DEF IInv, Worker
<1>2. Busy' = Busy /\ n \in Busy
  BY <1>1 DEF Busy, TypeOK, TaskStates
<1>3. TypeOK'
  BY <1>1 DEF Worker, TypeOK, transition
<1>4. UNCHANGED <<state, requested, source, initial, reported, jobs, transition, main>>
  BY DEF Worker
<1>5. Control'
  <2>1. requested # NoRunTarget
    BY <1>2, BusyFinite, FS_EmptySet DEF IInv, Control, JobAccounting
  <2>2. QED
    BY <1>4, <2>1 DEF IInv, Control, InTransition
<1>6. /\ JobAccounting' /\ Frontier' /\ Counting' /\ Scheduling'
      /\ SuccessIsRequestedTarget' /\ InitialActivationIsInitial'
  <2>1. Busy \subseteq Node
    BY NodeFacts DEF Busy
  <2>2. InTransition /\ phase # "Stopping" => \A i \in Busy : active[i] => active'[i]
    BY <2>1
  <2>3. \A i \in Node \ Busy : active'[i] = active[i]
    BY <1>2
  <2>4. QED
    BY <1>2, <1>4, <2>2, <2>3, QuietStep
<1>7. QED
  BY <1>2, <1>3, <1>5, <1>6

\* A step of ProcessMonitor::doWork() preserves IInv.
LEMMA WorkerStepKeeps ==
  ASSUME IInv, NEW n \in Process, WorkerStep(n)
  PROVE  IInv'
<1> USE DEF TaskStates
<1>1. CASE SkipJob(n)
  <2>1. PICK from \in {"activate", "deactivate"} : Worker(n, from, "succeeded")
    BY <1>1 DEF SkipJob
  <2>2. active' = active /\ running' = running /\ n \in stopped /\ TypeOK
    BY <1>1 DEF SkipJob, IInv
  <2>3. /\ TypeOK' /\ JobAccounting' /\ Control' /\ Frontier' /\ Counting' /\ Scheduling'
        /\ SuccessIsRequestedTarget' /\ InitialActivationIsInitial' /\ n \in Busy
    BY <2>1, <2>2, WorkerKeeps DEF TypeOK
  <2>4. Tasks'
    BY <2>1, <2>2, <2>3 DEF IInv, Tasks, Worker, InTransition
  <2>5. NoOrphan'
    BY <2>1, <2>2 DEF IInv, NoOrphan, Worker, TypeOK
  <2>6. QED
    BY <2>3, <2>4, <2>5 DEF IInv
<1>2. CASE BeginActivate(n)
  <2> DEFINE to == IF active[n] THEN "succeeded" ELSE "starting"
  <2>1. Worker(n, "activate", to) /\ active' = active /\ running' = running /\ TypeOK
    BY <1>2 DEF BeginActivate, IInv
  <2>2. /\ TypeOK' /\ JobAccounting' /\ Control' /\ Frontier' /\ Counting' /\ Scheduling'
        /\ SuccessIsRequestedTarget' /\ InitialActivationIsInitial' /\ n \in Busy /\ Busy' = Busy
    BY <2>1, WorkerKeeps DEF TypeOK
  <2>3. Tasks'
    BY <2>1, <2>2 DEF IInv, Tasks, Worker, InTransition, Busy, TypeOK, transition
  <2>4. NoOrphan'
    BY <2>1 DEF IInv, NoOrphan, Worker, TypeOK
  <2>5. QED
    BY <2>2, <2>3, <2>4 DEF IInv
<1>3. CASE Launch(n)
  <2>1. Worker(n, "starting", "launched") /\ active' = active /\ running' = running \cup {n} /\ TypeOK
    BY <1>3 DEF Launch, IInv
  <2>2. /\ TypeOK' /\ JobAccounting' /\ Control' /\ Frontier' /\ Counting' /\ Scheduling'
        /\ SuccessIsRequestedTarget' /\ InitialActivationIsInitial' /\ n \in Busy /\ Busy' = Busy
    BY <2>1, WorkerKeeps DEF TypeOK
  <2>3. Tasks'
    BY <2>1, <2>2 DEF IInv, Tasks, Worker, InTransition, Busy, TypeOK, transition
  <2>4. NoOrphan'
    BY <2>1 DEF IInv, NoOrphan, Worker, TypeOK
  <2>5. QED
    BY <2>2, <2>3, <2>4 DEF IInv
<1>4. CASE ActivationFails(n)
  <2>1. PICK from \in {"starting", "launched"} : Worker(n, from, "failed")
    BY <1>4 DEF ActivationFails
  <2>2. active' = active /\ running' = running \ {n} /\ TypeOK
    BY <1>4 DEF ActivationFails, IInv
  <2>3. /\ TypeOK' /\ JobAccounting' /\ Control' /\ Frontier' /\ Counting' /\ Scheduling'
        /\ SuccessIsRequestedTarget' /\ InitialActivationIsInitial' /\ n \in Busy /\ Busy' = Busy
    BY <2>1, <2>2, WorkerKeeps DEF TypeOK
  <2>4. Tasks'
    BY <2>1, <2>2, <2>3 DEF IInv, Tasks, Worker, InTransition, Busy, TypeOK, transition
  <2>5. NoOrphan'
    BY <2>1, <2>2 DEF IInv, NoOrphan, Worker, TypeOK
  <2>6. QED
    BY <2>3, <2>4, <2>5 DEF IInv
<1>5. CASE ReachRunning(n)
  <2>1. Worker(n, "launched", "up") /\ active' = active /\ running' = running /\ TypeOK
    BY <1>5 DEF ReachRunning, IInv
  <2>2. /\ TypeOK' /\ JobAccounting' /\ Control' /\ Frontier' /\ Counting' /\ Scheduling'
        /\ SuccessIsRequestedTarget' /\ InitialActivationIsInitial' /\ n \in Busy /\ Busy' = Busy
    BY <2>1, WorkerKeeps DEF TypeOK
  <2>3. Tasks'
    BY <2>1, <2>2 DEF IInv, Tasks, Worker, InTransition, Busy, TypeOK, transition
  <2>4. NoOrphan'
    BY <2>1 DEF IInv, NoOrphan, Worker, TypeOK
  <2>5. QED
    BY <2>2, <2>3, <2>4 DEF IInv
<1>6. CASE ReportReady(n)
  <2>1. /\ Worker(n, "up", "succeeded") /\ active' = [active EXCEPT ![n] = TRUE]
        /\ running' = running /\ TypeOK
    BY <1>6 DEF ReportReady, IInv
  <2>2. /\ TypeOK' /\ JobAccounting' /\ Control' /\ Frontier' /\ Counting' /\ Scheduling'
        /\ SuccessIsRequestedTarget' /\ InitialActivationIsInitial' /\ n \in Busy /\ Busy' = Busy
    BY <2>1, WorkerKeeps, NodeFacts DEF TypeOK
  <2>3. Tasks'
    BY <2>1, <2>2, NodeFacts DEF IInv, Tasks, Worker, InTransition, Busy, TypeOK, transition
  <2>4. NoOrphan'
    BY <2>1, NodeFacts DEF IInv, NoOrphan, Worker, TypeOK
  <2>5. QED
    BY <2>2, <2>3, <2>4 DEF IInv
<1>7. CASE BeginDeactivate(n)
  <2>1. /\ Worker(n, "deactivate", "stopping") /\ active' = [active EXCEPT ![n] = FALSE]
        /\ running' = running /\ TypeOK
    BY <1>7 DEF BeginDeactivate, IInv
  <2>2. ~(InTransition /\ phase # "Stopping")
    BY <2>1 DEF IInv, Tasks, Worker, Busy
  <2>3. /\ TypeOK' /\ JobAccounting' /\ Control' /\ Frontier' /\ Counting' /\ Scheduling'
        /\ SuccessIsRequestedTarget' /\ InitialActivationIsInitial' /\ n \in Busy /\ Busy' = Busy
    BY <2>1, <2>2, WorkerKeeps, NodeFacts DEF TypeOK
  <2>4. Tasks'
    <3> SUFFICES ASSUME InTransition' PROVE Tasks'
      BY DEF Tasks
    <3>1. /\ InTransition /\ phase = "Stopping" /\ phase' = phase /\ stopped' = stopped
          /\ task' = [task EXCEPT ![n] = "stopping"] /\ Tasks
      BY <2>1, <2>2 DEF InTransition, Worker, IInv, transition
    <3>2. ASSUME NEW i \in Busy'
          PROVE  \/ task'[i] = "deactivate" /\ active'[i]
                 \/ task'[i] \in {"stopping", "terminating", "succeeded"} /\ ~active'[i]
      <4>1. CASE i = n
        BY <2>1, <3>1, <4>1, NodeFacts DEF TypeOK
      <4>2. CASE i # n
        BY <2>1, <2>3, <3>1, <4>2, NodeFacts DEF TypeOK, Tasks, Busy
      <4>3. QED
        BY <4>1, <4>2
    <3>3. QED
      BY <2>3, <3>1, <3>2 DEF Tasks
  <2>5. NoOrphan'
    BY <2>1, NodeFacts DEF IInv, NoOrphan, Worker, TypeOK
  <2>6. QED
    BY <2>3, <2>4, <2>5 DEF IInv
<1>8. CASE RequestTermination(n)
  <2>1. Worker(n, "stopping", "terminating") /\ active' = active /\ running' = running /\ TypeOK
    BY <1>8 DEF RequestTermination, IInv
  <2>2. /\ TypeOK' /\ JobAccounting' /\ Control' /\ Frontier' /\ Counting' /\ Scheduling'
        /\ SuccessIsRequestedTarget' /\ InitialActivationIsInitial' /\ n \in Busy /\ Busy' = Busy
    BY <2>1, WorkerKeeps DEF TypeOK
  <2>3. Tasks'
    BY <2>1, <2>2 DEF IInv, Tasks, Worker, InTransition, Busy, TypeOK, transition
  <2>4. NoOrphan'
    BY <2>1 DEF IInv, NoOrphan, Worker, TypeOK
  <2>5. QED
    BY <2>2, <2>3, <2>4 DEF IInv
<1>9. CASE Deactivated(n)
  <2>1. Worker(n, "terminating", "succeeded") /\ active' = active /\ running' = running \ {n} /\ TypeOK
    BY <1>9 DEF Deactivated, IInv
  <2>2. /\ TypeOK' /\ JobAccounting' /\ Control' /\ Frontier' /\ Counting' /\ Scheduling'
        /\ SuccessIsRequestedTarget' /\ InitialActivationIsInitial' /\ n \in Busy /\ Busy' = Busy
    BY <2>1, WorkerKeeps DEF TypeOK
  <2>3. Tasks'
    BY <2>1, <2>2 DEF IInv, Tasks, Worker, InTransition, Busy, TypeOK, transition
  <2>4. NoOrphan'
    BY <2>1 DEF IInv, NoOrphan, Worker, TypeOK
  <2>5. QED
    BY <2>2, <2>3, <2>4 DEF IInv
<1>10. QED
  BY <1>1, <1>2, <1>3, <1>4, <1>5, <1>6, <1>7, <1>8, <1>9 DEF WorkerStep

\* Processes die: nothing of the graph changes.
LEMMA OsStepKeeps ==
  ASSUME IInv, UNCHANGED <<state, requested, source, initial, reported, jobs, transition,
                           main, active, workers>>,
         running' \subseteq running, crashed' \subseteq crashed \cup running,
         requested # NoRunTarget
  PROVE  IInv'
<1>1. Busy' = Busy /\ TypeOK
  BY DEF Busy, workers, IInv
<1>2. TypeOK' /\ Control'
  BY DEF IInv, TypeOK, Control, InTransition, transition, workers
<1>3. /\ JobAccounting' /\ Frontier' /\ Counting' /\ Scheduling'
      /\ SuccessIsRequestedTarget' /\ InitialActivationIsInitial'
  BY <1>1, QuietStep DEF TypeOK
<1>4. Tasks'
  BY <1>1 DEF IInv, Tasks, InTransition, workers, transition
<1>5. NoOrphan'
  BY DEF IInv, NoOrphan, workers
<1>6. QED
  BY <1>2, <1>3, <1>4, <1>5 DEF IInv

\* An unexpected end of a process, as OsHandler reports it, preserves IInv.
LEMMA CrashKeeps ==
  ASSUME IInv, NEW n \in Process, Crash(n) \/ SelfExit(n)
  PROVE  IInv'
<1>1. requested # NoRunTarget
  BY DEF IInv, Control, Crash, SelfExit
<1>2. QED
  BY <1>1, OsStepKeeps DEF Crash, SelfExit

-----------------------------------------------------------------------------
(* Steps of the main thread.                                                *)

\* Without a transition there is nothing to schedule.
LEMMA NoTransition ==
  ASSUME state' # "kInTransition"
  PROVE  Counting' /\ Scheduling' /\ Tasks'
BY DEF Counting, Scheduling, Tasks, InTransition

\* forceKillProcesses() preserves IInv.
LEMMA ForceKillKeeps ==
  ASSUME IInv, ForceKillProcesses
  PROVE  IInv'
<1>1. requested # NoRunTarget
  BY NodesAssumption DEF ForceKillProcesses, Node
<1>2. QED
  BY <1>1, OsStepKeeps DEF ForceKillProcesses

\* cancel() preserves IInv: jobs in flight keep the graph in kAborting.
LEMMA CancelKeeps ==
  ASSUME IInv, Cancel
  PROVE  IInv'
<1>1. TypeOK /\ Control
  BY DEF IInv
<1>2. /\ state' = IF state \in {"kInTransition", "kAborting"} /\ jobs # 0
                    THEN "kAborting" ELSE "kUndefinedState"
      /\ stopped' \in SUBSET Process
  BY <1>1, Aborted DEF Cancel, BecomeState, TypeOK
<1>3. UNCHANGED <<requested, source, initial, reported, jobs, transition, main, active,
                  running, task, crashed>> /\ main = "idle" /\ requested # NoRunTarget
  BY DEF Cancel
<1>4. TypeOK'
  BY <1>1, <1>2, <1>3 DEF TypeOK, GraphStates, transition
<1>5. Control'
  <2>1. jobs \in Nat /\ (state \in {"kInTransition", "kAborting"} => jobs > 0)
    BY <1>1, <1>3 DEF Control, InTransition, TypeOK
  <2>2. state' = IF state \in {"kInTransition", "kAborting"} THEN "kAborting" ELSE "kUndefinedState"
    BY <1>2, <2>1
  <2>3. state \notin {"kInTransition", "kAborting"} => jobs = 0 /\ ~initial
    BY <1>1 DEF Control, TypeOK, GraphStates
  <2>4. state' = "kAborting" => jobs > 0
    BY <2>1, <2>2
  <2>5. state' = "kUndefinedState" => jobs = 0 /\ ~initial
    BY <2>2, <2>3
  <2>6. state' \in {"kAborting", "kUndefinedState"}
    BY <2>2
  <2>7. QED
    BY <1>1, <1>3, <2>4, <2>5, <2>6 DEF Control, InTransition
<1>6. JobAccounting' /\ Frontier' /\ NoOrphan' /\ InitialActivationIsInitial'
  BY <1>3 DEF IInv, JobAccounting, Busy, Frontier, Queued, NoOrphan,
              InitialActivationIsInitial, transition
<1>7. SuccessIsRequestedTarget' /\ Counting' /\ Scheduling' /\ Tasks'
  BY <1>2, NoTransition DEF SuccessIsRequestedTarget
<1>8. QED
  BY <1>4, <1>5, <1>6, <1>7 DEF IInv

\* Handling an UnexpectedTermination event preserves IInv.
LEMMA UnexpectedTerminationKeeps ==
  ASSUME IInv, NEW n \in Process, HandleUnexpectedTermination(n)
  PROVE  IInv'
<1>1. TypeOK /\ Control
  BY DEF IInv
<1>2. /\ state' = IF state \in {"kInTransition", "kAborting"} /\ jobs # 0
                    THEN "kAborting" ELSE "kUndefinedState"
      /\ stopped' \in SUBSET Process
  BY <1>1, Aborted DEF HandleUnexpectedTermination, BecomeState, TypeOK
<1>3. /\ UNCHANGED <<requested, source, reported, jobs, transition, main, task>>
      /\ main = "idle" /\ requested # NoRunTarget
      /\ crashed' = crashed \ {n} /\ running' = running \ {n}
      /\ active' = [active EXCEPT ![n] = FALSE]
      /\ initial' = (initial /\ jobs # 0)
  BY <1>1 DEF HandleUnexpectedTermination, Control
<1>4. TypeOK'
  BY <1>1, <1>2, <1>3, NodeFacts DEF TypeOK, GraphStates, transition
<1>5. Control'
  <2>1. jobs \in Nat /\ (state \in {"kInTransition", "kAborting"} => jobs > 0)
    BY <1>1, <1>3 DEF Control, InTransition, TypeOK
  <2>2. state' = IF state \in {"kInTransition", "kAborting"} THEN "kAborting" ELSE "kUndefinedState"
    BY <1>2, <2>1
  <2>3. state \notin {"kInTransition", "kAborting"} => jobs = 0 /\ ~initial
    BY <1>1 DEF Control, TypeOK, GraphStates
  <2>4. state' = "kAborting" => jobs > 0
    BY <2>1, <2>2
  <2>5. state' = "kUndefinedState" => jobs = 0 /\ ~initial
    BY <2>2, <2>3
  <2>6. state' \in {"kAborting", "kUndefinedState"}
    BY <2>2
  <2>7. QED
    BY <1>1, <1>3, <2>4, <2>5, <2>6 DEF Control, InTransition
<1>6. JobAccounting' /\ Frontier' /\ InitialActivationIsInitial'
  BY <1>3 DEF IInv, JobAccounting, Busy, Frontier, Queued, InitialActivationIsInitial, transition
<1>7. NoOrphan'
  BY <1>1, <1>3, NodeFacts DEF IInv, NoOrphan, TypeOK
<1>8. SuccessIsRequestedTarget' /\ Counting' /\ Scheduling' /\ Tasks'
  BY <1>2, NoTransition DEF SuccessIsRequestedTarget
<1>9. QED
  BY <1>4, <1>5, <1>6, <1>7, <1>8 DEF IInv

\* The transition variables keep their types.
TransitionTyped ==
  /\ phase \in {"Stopping", "Starting", "Done"}
  /\ pending \in Nat
  /\ nextNodes \in [Node -> Nat]
  /\ inTarget \in SUBSET Node
  /\ enqueued \in SUBSET Node

\* advanceToStarting() leaves a well-typed transition.
LEMMA StartTyped ==
  ASSUME NEW target \in SUBSET Node, NEW act, inTarget' = target, AdvanceToStarting(target, act)
  PROVE  TransitionTyped'
<1>1. {i \in target : ~act[i]} \in SUBSET Node
  OBVIOUS
<1>2. Cardinality({i \in target : ~act[i]}) \in Nat
  BY <1>1, NodeFacts, FS_Subset, FS_CardinalityType
<1>3. QED
  BY <1>2 DEF AdvanceToStarting, TransitionTyped

\* setupTransition() leaves a well-typed transition.
LEMMA SetupTyped ==
  ASSUME NEW root \in RunTarget, NEW act, SetupTransition(root, act)
  PROVE  TransitionTyped'
<1> DEFINE todo == {i \in Node \ Subgraph[root] : act[i]}
<1>1. Subgraph[root] \in SUBSET Node /\ inTarget' = Subgraph[root]
  BY SubgraphClosed DEF SetupTransition
<1>2. CASE AdvanceToStarting(Subgraph[root], act)
  BY <1>1, <1>2, StartTyped
<1>3. CASE ~AdvanceToStarting(Subgraph[root], act)
  <2>1. Cardinality(todo) \in Nat
    <3>1. todo \subseteq Node
      OBVIOUS
    <3>2. QED
      BY <3>1, NodeFacts, FS_Subset, FS_CardinalityType
  <2>2. QED
    BY <1>1, <1>3, <2>1 DEF SetupTransition, TransitionTyped
<1>4. QED
  BY <1>2, <1>3

\* A transition that still waits for a node has a positive pending counter.
LEMMA PendingPositive ==
  ASSUME IInv, InTransition, NEW n \in Todo
  PROVE  pending > 0
<1>1. pending = Cardinality(Todo) /\ pending \in Nat
  BY DEF IInv, Counting, TypeOK
<1>2. IsFiniteSet(Todo)
  BY TodoFinite DEF IInv
<1>3. Cardinality(Todo) # 0
  BY <1>2, FS_EmptySet
<1>4. QED
  BY <1>1, <1>3

\* onNodeFinished() leaves a well-typed transition.
LEMMA FinishTyped ==
  ASSUME TypeOK, NEW n \in Node, NEW act, NEW queue \in [Node -> Nat], pending > 0,
         OnNodeFinished(n, act, queue)
  PROVE  TransitionTyped'
<1>1. CASE pending = 1 /\ phase = "Stopping"
  <2>1. AdvanceToStarting(inTarget, act) /\ inTarget' = inTarget
    BY <1>1 DEF OnNodeFinished
  <2>2. QED
    BY <2>1, StartTyped DEF TypeOK
<1>2. CASE pending = 1 /\ phase # "Stopping"
  BY <1>2 DEF OnNodeFinished, TransitionTyped, TypeOK
<1>3. CASE pending # 1
  <2>1. Successors(n) \subseteq Node
    BY NodeFacts DEF Successors
  <2>2. QED
    BY <1>3, <2>1 DEF OnNodeFinished, TransitionTyped, TypeOK
<1>4. QED
  BY <1>1, <1>2, <1>3

\* startTransition() preserves IInv.
LEMMA StartTransitionKeeps ==
  ASSUME IInv, NEW root \in RunTarget, NEW src \in Sources \ {"kInitialActivation"},
         StartTransition(root, src), initial' = (root = Initial /\ initial')
  PROVE  IInv'
<1>1. TypeOK /\ Control /\ root # NoRunTarget
  BY NodesAssumption DEF IInv, Node
<1>2. /\ state \in {"kSuccess", "kUndefinedState"} /\ state' = "kInTransition"
      /\ source' = src /\ requested' = root /\ main' = "drain" /\ stopped' = stopped
      /\ UNCHANGED <<reported, jobs, active, running, task, crashed>>
  BY DEF StartTransition, BecomeState
<1>3. Busy = {} /\ Busy' = {}
  <2>1. Busy = {}
    BY <1>1, <1>2, BusyFinite, FS_EmptySet DEF IInv, Control, JobAccounting
  <2>2. QED
    BY <1>2, <2>1 DEF Busy
<1>4. SetupTransition(root, active)
  BY DEF StartTransition
<1>5. TypeOK'
  <2>1. TransitionTyped'
    BY <1>4, SetupTyped
  <2>2. initial' \in BOOLEAN
    OBVIOUS
  <2>3. QED
    BY <1>1, <1>2, <2>1, <2>2 DEF TypeOK, TransitionTyped, GraphStates
<1>6. Counting' /\ Scheduling' /\ Frontier'
  BY <1>1, <1>2, <1>3, <1>4, SetupPhase DEF Frontier
<1>7. Control'
  BY <1>1, <1>2 DEF Control, InTransition
<1>8. JobAccounting' /\ NoOrphan' /\ InitialActivationIsInitial' /\ SuccessIsRequestedTarget'
  BY <1>2, <1>3 DEF IInv, JobAccounting, NoOrphan, InitialActivationIsInitial,
                    SuccessIsRequestedTarget
<1>9. Tasks'
  BY <1>3 DEF Tasks
<1>10. QED
  BY <1>5, <1>6, <1>7, <1>8, <1>9 DEF IInv

\* tryQueueNode() preserves IInv.
LEMMA DispatchProcessKeeps ==
  ASSUME IInv, NEW n \in Process, DispatchProcess(n)
  PROVE  IInv'
<1>1. TypeOK /\ Control /\ JobAccounting /\ Frontier /\ Counting /\ Scheduling /\ Tasks
  BY DEF IInv
<1>2. /\ n \in Queued /\ main = "drain" /\ InTransition
      /\ UNCHANGED <<state, requested, source, initial, reported, phase, pending, inTarget,
                     enqueued, main, active, running, crashed>>
      /\ jobs' = jobs + 1 /\ stopped' = stopped \ {n}
      /\ task' = [task EXCEPT ![n] = IF phase = "Starting" THEN "activate" ELSE "deactivate"]
      /\ nextNodes' = [nextNodes EXCEPT ![n] = @ - 1]
  BY <1>1, NodeFacts DEF DispatchProcess, Queued, Control
<1>3. n \in Node /\ n \notin Busy /\ nextNodes[n] = 1 /\ n \in Todo /\ phase # "Done"
  BY <1>1, <1>2, NodeFacts DEF Frontier, Counting, Dispatched
<1>4. JobAccounting' /\ Busy' = Busy \cup {n}
  BY <1>1, <1>2, <1>3, TaskBegins DEF TaskStates
<1>5. TypeOK'
  BY <1>1, <1>2, <1>3 DEF TypeOK, TaskStates
<1>6. Queued' = Queued \ {n} /\ \A q \in Queued' : nextNodes'[q] = 1 /\ q \notin Busy'
  BY <1>1, <1>2, <1>3, <1>4 DEF Queued, Frontier, TypeOK
<1>7. Dispatched' = Dispatched /\ \A s \in Node : Preds(s)' = Preds(s)
  BY <1>2, <1>4, <1>6 DEF Dispatched, Preds, Dependents
<1>8. Todo' = Todo
  BY <1>2, <1>3, <1>4 DEF Todo
<1>9. Counting' /\ Scheduling'
  BY <1>1, <1>2, <1>7, <1>8 DEF Counting, Scheduling, InTransition, AllDepsActive
<1>10. Control' /\ Frontier'
  BY <1>1, <1>2, <1>6 DEF Control, InTransition, Frontier
<1>11. Tasks'
  <2>1. phase \in {"Stopping", "Starting"}
        /\ (phase = "Stopping" => active[n]) /\ (phase = "Starting" => ~active[n])
    BY <1>1, <1>3 DEF Todo, TypeOK
  <2>2. Busy' \cap stopped' = {}
    BY <1>1, <1>2, <1>4 DEF Tasks
  <2>3. task'[n] = (IF phase = "Starting" THEN "activate" ELSE "deactivate")
        /\ \A m \in Busy : task'[m] = task[m]
    BY <1>1, <1>2, <1>3 DEF TypeOK, Busy
  <2>4. QED
    BY <1>1, <1>2, <1>4, <2>1, <2>2, <2>3 DEF Tasks, InTransition
<1>12. NoOrphan'
  <2>1. n \in running => active[n]
    BY <1>3 DEF IInv, NoOrphan, Busy
  <2>2. QED
    BY <1>1, <1>2, <2>1 DEF IInv, NoOrphan, TypeOK
<1>13. InitialActivationIsInitial' /\ SuccessIsRequestedTarget'
  BY <1>2 DEF IInv, InitialActivationIsInitial, SuccessIsRequestedTarget, InTransition
<1>14. QED
  BY <1>4, <1>5, <1>9, <1>10, <1>11, <1>12, <1>13 DEF IInv

\* updateRunTargetInPlace() preserves IInv.
LEMMA DispatchRunTargetKeeps ==
  ASSUME IInv, NEW n \in RunTarget, DispatchRunTarget(n)
  PROVE  IInv'
<1> DEFINE act   == [active EXCEPT ![n] = (phase = "Starting")]
           queue == [nextNodes EXCEPT ![n] = @ - 1]
<1>1. TypeOK /\ Control /\ Frontier /\ Counting /\ Scheduling /\ Tasks
  BY DEF IInv
<1>2. /\ n \in Queued /\ main = "drain" /\ InTransition
      /\ UNCHANGED <<state, requested, source, initial, reported, jobs, main, running,
                     workers, crashed>>
      /\ active' = act /\ OnNodeFinished(n, act, queue)
  BY <1>1, NodeFacts DEF DispatchRunTarget, Queued, Control
<1>3. /\ n \in Node \ Process /\ n \notin Busy /\ nextNodes[n] = 1 /\ n \in Dispatched /\ n \in Todo
      /\ phase \in {"Stopping", "Starting"}
  BY <1>1, <1>2, NodeFacts DEF Frontier, Counting, Dispatched, Busy, TypeOK
<1>4. queue = [nextNodes EXCEPT ![n] = 0] /\ queue \in [Node -> Nat]
  BY <1>1, <1>3 DEF TypeOK
<1>5. /\ act \in [Node -> BOOLEAN] /\ \A i \in Node \ {n} : act[i] = active[i]
      /\ act[n] = (phase # "Stopping")
  BY <1>1, <1>3 DEF TypeOK
<1>6. Busy' = Busy /\ Busy' = Busy \ {n}
  BY <1>2, <1>3 DEF Busy, workers
<1> HIDE DEF act, queue
<1>7. /\ Counting' /\ Scheduling' /\ (phase' # phase => Busy' = {})
      /\ \A q \in Queued' : nextNodes'[q] = 1 /\ q \notin Busy'
  BY <1>1, <1>2, <1>3, <1>4, <1>5, <1>6, NodeFinishes
<1>8. TypeOK'
  <2>1. pending > 0
    BY <1>2, <1>3, PendingPositive
  <2>2. TransitionTyped'
    BY <1>1, <1>2, <1>3, <1>4, <2>1, FinishTyped
  <2>3. QED
    BY <1>1, <1>2, <1>5, <2>2 DEF TypeOK, TransitionTyped, workers
<1>9. Control' /\ Frontier' /\ JobAccounting'
  BY <1>1, <1>2, <1>6, <1>7 DEF IInv, Control, InTransition, Frontier, JobAccounting
<1>10. Tasks'
  <2>1. \A m \in Busy : act[m] = active[m]
    BY <1>3, <1>5, NodeFacts DEF Busy
  <2>2. QED
    BY <1>1, <1>2, <1>6, <1>7, <2>1 DEF Tasks, workers, InTransition
<1>11. NoOrphan'
  BY <1>1, <1>2, <1>3, <1>5, NodeFacts DEF IInv, NoOrphan, workers, TypeOK
<1>12. InitialActivationIsInitial' /\ SuccessIsRequestedTarget'
  BY <1>2 DEF IInv, InitialActivationIsInitial, SuccessIsRequestedTarget, InTransition
<1>13. QED
  BY <1>7, <1>8, <1>9, <1>10, <1>11, <1>12 DEF IInv

\* An unfinished transition with an empty frontier has a busy worker: in the
\* acyclic graph some node that is still to be done waits for no other.
LEMMA NoStall ==
  ASSUME IInv, InTransition, Queued = {}, phase # "Done"
  PROVE  Busy # {}
<1>1. Todo # {} /\ Todo \in SUBSET Node
  BY TodoFinite DEF IInv, Counting
<1>2. PICK s \in Todo : Preds(s) \cap Todo = {}
  <2>1. CASE phase = "Stopping"
    BY <1>1, <2>1, AcyclicAssumption DEF Preds, Dependents
  <2>2. CASE phase # "Stopping"
    BY <1>1, <2>2, AcyclicAssumption DEF Preds
  <2>3. QED
    BY <2>1, <2>2
<1>3. s \in Dispatched
  BY <1>1, <1>2 DEF IInv, Scheduling
<1>4. QED
  BY <1>3 DEF Dispatched

\* The end of queueReadyNodes(), with finalizeTransitionSuccess(), preserves IInv.
LEMMA FinishDrainKeeps ==
  ASSUME IInv, FinishDrain
  PROVE  IInv'
<1>1. TypeOK /\ Control /\ JobAccounting /\ Frontier /\ Counting /\ Scheduling /\ Tasks
  BY DEF IInv
<1>2. /\ main = "drain" /\ InTransition /\ Queued = {} /\ main' = "idle"
      /\ UNCHANGED <<requested, source, jobs, transition, active, running, task, crashed>>
  <2>1. /\ main = "drain" /\ main' = "idle" /\ \A n \in Node : nextNodes[n] = 0
        /\ UNCHANGED <<requested, source, jobs, transition, active, running, task, crashed>>
    BY DEF FinishDrain
  <2>2. InTransition
    BY <1>1, <2>1 DEF Control
  <2>3. Queued = {}
    BY <2>1 DEF Queued
  <2>4. QED
    BY <2>1, <2>2, <2>3
<1>3. Busy' = Busy /\ Queued' = {}
  BY <1>2 DEF Busy, Queued, transition
<1>4. JobAccounting' /\ NoOrphan' /\ Frontier'
  BY <1>2, <1>3 DEF IInv, JobAccounting, NoOrphan, Frontier
<1>5. CASE phase # "Done"
  <2>1. UNCHANGED <<state, stopped, reported, initial>>
    BY <1>5 DEF FinishDrain
  <2>2. jobs > 0
    BY <1>1, <1>2, <1>5, NoStall, BusyFinite, FS_EmptySet DEF JobAccounting
  <2>3. Control'
    BY <1>1, <1>2, <2>1, <2>2 DEF Control, InTransition
  <2>4. TypeOK'
    BY <1>1, <1>2, <2>1 DEF TypeOK, transition
  <2>5. Counting' /\ Scheduling' /\ Tasks'
    <3>1. Todo' = Todo /\ Dispatched' = Dispatched /\ \A s \in Node : Preds(s)' = Preds(s)
      BY <1>2, <1>3 DEF Todo, Dispatched, Preds, Dependents, transition
    <3>2. QED
      BY <1>1, <1>2, <1>3, <2>1, <3>1
         DEF Counting, Scheduling, Tasks, InTransition, transition, AllDepsActive
  <2>6. InitialActivationIsInitial' /\ SuccessIsRequestedTarget'
    BY <1>2, <2>1 DEF IInv, InitialActivationIsInitial, SuccessIsRequestedTarget, InTransition
  <2>7. QED
    BY <1>4, <2>3, <2>4, <2>5, <2>6 DEF IInv
<1>6. CASE phase = "Done"
  <2>1. /\ state' = "kSuccess" /\ stopped' \in SUBSET Process /\ initial' = FALSE
        /\ reported' = [target |-> requested,
                        source |-> IF initial THEN "kInitialActivation" ELSE source]
    BY <1>1, <1>2, <1>6 DEF FinishDrain, BecomeState, StateResult, InTransition, TypeOK
  <2>2. /\ Todo = {} /\ requested \in RunTarget /\ inTarget = Subgraph[requested]
        /\ (\A i \in Node \ inTarget : ~active[i]) /\ Busy = {}
    BY <1>1, <1>2, <1>6 DEF Counting, Dispatched
  <2>3. jobs = 0 /\ requested # NoRunTarget
    BY <1>1, <2>2, FS_EmptySet, NodesAssumption DEF JobAccounting, Node
  <2>4. Control'
    BY <1>1, <1>2, <2>1, <2>3 DEF Control, InTransition
  <2>5. TypeOK'
    BY <1>1, <1>2, <2>1, <2>2 DEF TypeOK, transition, GraphStates, Sources
  <2>6. SuccessIsRequestedTarget'
    <3>1. inTarget \subseteq Node /\ \A i \in inTarget : active[i]
      BY <1>1, <1>6, <2>2 DEF Todo, TypeOK
    <3>2. QED
      BY <1>2, <2>2, <3>1 DEF SuccessIsRequestedTarget
  <2>7. InitialActivationIsInitial'
    BY <1>1, <2>1 DEF InitialActivationIsInitial, Control
  <2>8. Counting' /\ Scheduling' /\ Tasks'
    BY <2>1, NoTransition
  <2>9. QED
    BY <1>4, <2>4, <2>5, <2>6, <2>7, <2>8 DEF IInv
<1>7. QED
  BY <1>5, <1>6

\* nodeExecuted() in a running transition preserves IInv.
LEMMA NodeFinishedInTransitionKeeps ==
  ASSUME IInv, NEW n \in Process, NodeFinishedInTransition(n)
  PROVE  IInv'
<1>1. TypeOK /\ Control /\ JobAccounting /\ Frontier /\ Counting /\ Scheduling /\ Tasks
  BY DEF IInv
<1>2. /\ InTransition /\ main = "idle" /\ task[n] = "succeeded"
      /\ UNCHANGED <<state, requested, source, initial, reported, active, running, stopped, crashed>>
      /\ task' = [task EXCEPT ![n] = "none"] /\ jobs' = jobs - 1 /\ main' = "drain"
      /\ OnNodeFinished(n, active, nextNodes)
  BY DEF NodeFinishedInTransition, InTransition
<1>3. n \in Node /\ n \in Busy /\ n \in Dispatched /\ n \in Todo /\ active[n] = (phase # "Stopping")
  BY <1>1, <1>2, NodeFacts DEF Busy, Dispatched, Counting, Tasks, TypeOK
<1>4. JobAccounting' /\ Busy' = Busy \ {n} /\ jobs' \in Nat
  BY <1>1, <1>2, <1>3, TaskEnds
<1>5. nextNodes = [nextNodes EXCEPT ![n] = 0]
  BY <1>1, <1>2, <1>3 DEF Frontier, Queued, TypeOK
<1>6. /\ Counting' /\ Scheduling' /\ (phase' # phase => Busy' = {})
      /\ \A q \in Queued' : nextNodes'[q] = 1 /\ q \notin Busy'
  BY <1>1, <1>2, <1>3, <1>4, <1>5, NodeFinishes DEF TypeOK
<1>7. TypeOK'
  <2>1. pending > 0
    BY <1>2, <1>3, PendingPositive
  <2>2. TransitionTyped'
    BY <1>1, <1>2, <1>3, <2>1, FinishTyped DEF TypeOK
  <2>3. QED
    BY <1>1, <1>2, <1>4, <2>2 DEF TypeOK, TransitionTyped, TaskStates
<1>8. Control' /\ Frontier'
  BY <1>1, <1>2, <1>6 DEF Control, InTransition, Frontier
<1>9. Tasks'
  <2>1. \A m \in Busy' : task'[m] = task[m] /\ m \in Busy
    BY <1>1, <1>2, <1>4 DEF TypeOK, Busy
  <2>2. QED
    BY <1>1, <1>2, <1>4, <1>6, <2>1 DEF Tasks, InTransition
<1>10. NoOrphan'
  BY <1>1, <1>2 DEF IInv, NoOrphan, TypeOK
<1>11. InitialActivationIsInitial' /\ SuccessIsRequestedTarget'
  BY <1>2 DEF IInv, InitialActivationIsInitial, SuccessIsRequestedTarget, InTransition
<1>12. QED
  BY <1>4, <1>6, <1>7, <1>8, <1>9, <1>10, <1>11 DEF IInv

\* nodeExecuted() with a failure, or after an abort, preserves IInv.
LEMMA NodeFinishedAbortingKeeps ==
  ASSUME IInv, NEW n \in Process, NodeFinishedAborting(n)
  PROVE  IInv'
<1>1. TypeOK /\ Control /\ JobAccounting /\ Frontier
  BY DEF IInv
<1>2. /\ main = "idle" /\ task[n] \in {"succeeded", "failed"}
      /\ UNCHANGED <<requested, source, reported, transition, main, active, running, crashed>>
      /\ task' = [task EXCEPT ![n] = "none"] /\ jobs' = jobs - 1
      /\ initial' = (initial /\ jobs - 1 # 0)
  BY DEF NodeFinishedAborting
<1>3. n \in Busy
  BY <1>2 DEF Busy
<1>4. JobAccounting' /\ Busy' = Busy \ {n} /\ jobs' \in Nat
  BY <1>1, <1>2, <1>3, TaskEnds
<1>5. jobs > 0 /\ state \in {"kInTransition", "kAborting"}
  BY <1>1, <1>2, <1>4 DEF Control, TypeOK, GraphStates
<1>6. /\ state' = IF jobs' = 0 THEN "kUndefinedState" ELSE "kAborting"
      /\ stopped' \in SUBSET Process
  BY <1>1, <1>2, <1>5 DEF NodeFinishedAborting, BecomeState, StateResult, TypeOK
<1>7. TypeOK'
  BY <1>1, <1>2, <1>4, <1>6 DEF TypeOK, GraphStates, TaskStates, transition
<1>8. Control'
  <2>1. requested # NoRunTarget
    BY <1>1, <1>5 DEF Control
  <2>2. state' = "kUndefinedState" => jobs' = 0 /\ ~initial'
    BY <1>2, <1>6
  <2>3. state' = "kAborting" => jobs' > 0
    BY <1>4, <1>6
  <2>4. state' \in {"kUndefinedState", "kAborting"}
    BY <1>6
  <2>5. QED
    BY <1>1, <1>2, <2>1, <2>2, <2>3, <2>4 DEF Control, InTransition
<1>9. Frontier'
  BY <1>1, <1>2, <1>4 DEF Frontier, Queued, transition
<1>10. NoOrphan'
  BY <1>1, <1>2 DEF IInv, NoOrphan, TypeOK
<1>11. InitialActivationIsInitial' /\ SuccessIsRequestedTarget'
  BY <1>2, <1>6 DEF IInv, InitialActivationIsInitial, SuccessIsRequestedTarget
<1>12. Counting' /\ Scheduling' /\ Tasks'
  BY <1>6, NoTransition
<1>13. QED
  BY <1>4, <1>7, <1>8, <1>9, <1>10, <1>11, <1>12 DEF IInv

-----------------------------------------------------------------------------
(* The results.                                                             *)

\* Every step of the graph, its workers and the operating system keeps the
\* invariant.
LEMMA NextKeeps == IInv /\ [GraphNext]_graphVars => IInv'
<1> SUFFICES ASSUME IInv, [GraphNext]_graphVars PROVE IInv'
  OBVIOUS
<1>1. CASE StartInitialTransition
  <2>1. Initial \in RunTarget /\ "kStateManagerRequest" \in Sources \ {"kInitialActivation"}
    BY NodesAssumption DEF Sources
  <2>2. StartTransition(Initial, "kStateManagerRequest") /\ initial' = TRUE
    BY <1>1 DEF StartInitialTransition
  <2>3. QED
    BY <2>1, <2>2, StartTransitionKeeps
<1>2. ASSUME NEW t \in RunTarget, NEW src \in Sources \ {"kInitialActivation"},
             StartNextTransition(t, src)
      PROVE  IInv'
  <2>1. StartTransition(t, src) /\ initial' = initial
    BY <1>2 DEF StartNextTransition
  <2>2. initial' = FALSE
    BY <2>1 DEF IInv, Control, StartTransition, TypeOK
  <2>3. QED
    BY <2>1, <2>2, StartTransitionKeeps
<1>3. CASE Requests
  <2>1. /\ Fallback \in RunTarget
        /\ {"kStateManagerRequest", "kRecoveryAction"} \subseteq Sources \ {"kInitialActivation"}
    BY NodesAssumption DEF Sources
  <2>2. QED
    BY <1>1, <1>2, <1>3, <2>1, CancelKeeps, ForceKillKeeps DEF Requests
<1>4. CASE MainDrain
  BY <1>4, DispatchProcessKeeps, DispatchRunTargetKeeps, FinishDrainKeeps DEF MainDrain
<1>5. ASSUME NEW n \in Process, HandleCompletion(n)
      PROVE  IInv'
  BY <1>5, NodeFinishedInTransitionKeeps, NodeFinishedAbortingKeeps DEF HandleCompletion
<1>6. CASE UNCHANGED graphVars
  <2>1. \A s \in Node : Preds(s)' = Preds(s)
    BY <1>6 DEF graphVars, transition, Preds, Dependents
  <2>2. Busy' = Busy /\ Queued' = Queued /\ Todo' = Todo /\ Dispatched' = Dispatched
    BY <1>6 DEF graphVars, transition, workers, Busy, Queued, Todo, Dispatched
  <2>3. Counting' /\ Scheduling' /\ Tasks' /\ Frontier'
    BY <1>6, <2>1, <2>2 DEF IInv, graphVars, transition, workers, Counting, Scheduling, Tasks,
                            Frontier, InTransition, AllDepsActive
  <2>4. TypeOK' /\ JobAccounting' /\ Control' /\ NoOrphan'
    BY <1>6, <2>2 DEF IInv, graphVars, transition, workers, TypeOK, JobAccounting, Control,
                      NoOrphan, InTransition
  <2>5. SuccessIsRequestedTarget' /\ InitialActivationIsInitial'
    BY <1>6 DEF IInv, graphVars, SuccessIsRequestedTarget, InitialActivationIsInitial
  <2>6. QED
    BY <2>3, <2>4, <2>5 DEF IInv
<1>7. QED
  BY <1>3, <1>4, <1>5, <1>6, UnexpectedTerminationKeeps, WorkerStepKeeps, CrashKeeps
     DEF GraphNext

\* The inductive invariant holds in every reachable state.
THEOREM Invariance == GraphSafety => []IInv
BY InitHolds, NextKeeps, PTL DEF GraphSafety

\* The variables of the graph keep their types; in particular the job counter
\* and the count of a phase are never decremented below zero.
THEOREM TypeCorrect == GraphSafety => []TypeOK
<1>1. IInv => TypeOK
  BY DEF IInv
<1>2. QED
  BY <1>1, Invariance, PTL

\* jobs_in_progress_ is the number of tasks that will still report back.
THEOREM JobsCounted == GraphSafety => []JobAccounting
<1>1. IInv => JobAccounting
  BY DEF IInv
<1>2. QED
  BY <1>1, Invariance, PTL

\* No process ever has two tasks.
THEOREM NoSecondTask == GraphSafety => []OneTaskPerProcess
<1>1. IInv => OneTaskPerProcess
  BY DEF IInv, Frontier, Queued, OneTaskPerProcess
<1>2. QED
  BY <1>1, Invariance, PTL

\* The graph never waits for nothing: a transition or an abort has jobs in
\* flight whenever the main thread waits, in every acyclic configuration.
THEOREM NeverStalls == GraphSafety => []InFlightMatchesState
<1>1. IInv => InFlightMatchesState
  BY DEF IInv, Control, TypeOK, GraphStates, InTransition, InFlightMatchesState
<1>2. QED
  BY <1>1, Invariance, PTL

\* Components start only with all of their dependencies active.
THEOREM StartsInOrder == GraphSafety => []StartOrder
<1>1. IInv => StartOrder
  <2> SUFFICES ASSUME IInv, InTransition, NEW n \in Process,
                      task[n] \in {"activate", "starting", "launched", "up"}
               PROVE  AllDepsActive(n, active)
    BY DEF StartOrder, InTransition
  <2>1. n \in Busy /\ n \in Node
    BY NodeFacts DEF Busy
  <2>2. phase # "Stopping"
    BY <2>1 DEF IInv, Tasks
  <2>3. QED
    BY <2>1, <2>2 DEF IInv, Scheduling, Dispatched
<1>2. QED
  BY <1>1, Invariance, PTL

\* kSuccess means that exactly the requested run target is active.
THEOREM SuccessExact == GraphSafety => []SuccessIsRequestedTarget
<1>1. IInv => SuccessIsRequestedTarget
  BY DEF IInv
<1>2. QED
  BY <1>1, Invariance, PTL

\* Every running process is active or in the hands of a worker.
THEOREM NoOrphans == GraphSafety => []NoOrphan
<1>1. IInv => NoOrphan
  BY DEF IInv
<1>2. QED
  BY <1>1, Invariance, PTL

\* Nothing is started before everything that must stop is gone.
THEOREM StopsFirst == GraphSafety => []StopsBeforeStarts
<1>1. IInv => StopsBeforeStarts
  <2> SUFFICES ASSUME IInv, InTransition, phase # "Stopping", NEW n \in running
               PROVE  n \in inTarget
    BY DEF StopsBeforeStarts, InTransition
  <2>1. n \in Node /\ (active[n] \/ n \in Busy)
    BY NodeFacts DEF IInv, TypeOK, NoOrphan, Busy
  <2>2. Busy \subseteq inTarget
    BY DEF IInv, Counting, Dispatched, Todo
  <2>3. QED
    BY <2>1, <2>2 DEF IInv, Counting
<1>2. QED
  BY <1>1, Invariance, PTL

\* Only the initial transition is reported as kInitialActivation.
THEOREM InitialOnly == GraphSafety => []InitialActivationIsInitial
<1>1. IInv => InitialActivationIsInitial
  BY DEF IInv
<1>2. QED
  BY <1>1, Invariance, PTL
=============================================================================
