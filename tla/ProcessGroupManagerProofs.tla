---------------------- MODULE ProcessGroupManagerProofs ----------------------
(***************************************************************************)
(* Proofs about ProcessGroupManager: it drives the graph only in the ways  *)
(* Graph allows, so that everything proved of Graph holds of it.           *)
(***************************************************************************)
EXTENDS ProcessGroupManager, GraphProofs

\* What may be pending: any run target for the state manager, the fallback for
\* a recovery.
Pending ==
  /\ pendingTarget \in RunTarget \cup {NoRunTarget}
  /\ \/ pendingSource = "kStateManagerRequest"
     \/ pendingSource = "kRecoveryAction" /\ pendingTarget = Fallback

\* Where the shutdown sequence is: an abort comes before the transition to Off.
Shutdown ==
  /\ loop = "start" <=> requested = NoRunTarget
  /\ loop = "cancelling" => state \in {"kAborting", "kUndefinedState"}
  /\ loop \in {"off", "down"} /\ state \in {"kInTransition", "kSuccess"} => requested = Off

\* The part of PgmTypeOK about the manager's own variables.
PgmTyped ==
  /\ supervisionFailed \in SUBSET Supervised
  /\ slot \in [Client -> Waiting \cup Answers]
  /\ loop \in {"start", "run", "cancelling", "off", "down"}

PgmInv == IInv /\ Pending /\ Shutdown /\ PgmTyped

\* Every step of the manager is a step of the graph or leaves it alone.
LEMMA StepSimulation == Pending /\ [Next]_vars => [GraphNext]_graphVars
<1> SUFFICES ASSUME Pending, [Next]_vars PROVE [GraphNext]_graphVars
  OBVIOUS
<1>1. CASE Start
  BY <1>1 DEF Start, GraphNext, Requests
<1>2. ASSUME NEW c \in Client
      PROVE  /\ (\E req \in Waiting \ {[op |-> "lost"]} : PushRequest(c, req)) => UNCHANGED graphVars
             /\ HandleClient(c) => (Cancel \/ UNCHANGED graphVars)
             /\ IgnoreRequest(c) => UNCHANGED graphVars
  BY DEF PushRequest, HandleClient, HandleGetActiveRunTarget, RejectSetRequestedRunTarget,
         AcceptSetRequestedRunTarget, IgnoreRequest
<1>3. ASSUME NEW n \in Supervised
      PROVE  /\ PushSupervisionFailure(n) => UNCHANGED graphVars
             /\ HandleRecoveryRequest(n) => (Cancel \/ UNCHANGED graphVars)
             /\ DropSupervisionFailure(n) => UNCHANGED graphVars
  BY DEF PushSupervisionFailure, HandleRecoveryRequest, DropSupervisionFailure
<1>4. CASE ProcessGroupHandler
  <2>1. \/ UNCHANGED graphVars
        \/ pendingTarget # NoRunTarget /\ StartNextTransition(pendingTarget, pendingSource)
        \/ StartNextTransition(Fallback, "kRecoveryAction")
    BY <1>4 DEF ProcessGroupHandler
  <2>2. QED
    BY <2>1 DEF Pending, GraphNext, Requests
<1>5. CASE BeginShutdown
  BY <1>5 DEF BeginShutdown, GraphNext, Requests
<1>6. CASE StartTransitionToOffState
  BY <1>6, NodesAssumption DEF StartTransitionToOffState, GraphNext, Requests
<1>7. CASE EndShutdown
  BY <1>7 DEF EndShutdown, GraphNext, Requests
<1>8. CASE ContinueDrain
  BY <1>8 DEF ContinueDrain, GraphNext
<1>9. ASSUME NEW n \in Process, HandleGraphEvent(n) \/ OtherThreads(n)
      PROVE  GraphNext
  BY <1>9 DEF HandleGraphEvent, OtherThreads, GraphNext
<1>10. CASE UNCHANGED vars
  BY <1>10 DEF vars
<1>11. Cancel => GraphNext
  BY DEF GraphNext, Requests
<1>12. QED
  BY <1>1, <1>2, <1>3, <1>4, <1>5, <1>6, <1>7, <1>8, <1>9, <1>10, <1>11 DEF Next

\* Every step keeps the pending run target a configured one (setPendingState()).
LEMMA PendingKeeps == Pending /\ [Next]_vars => Pending'
<1> SUFFICES ASSUME Pending, [Next]_vars PROVE Pending'
  OBVIOUS
<1> USE NodesAssumption DEF Pending
<1>1. ASSUME NEW c \in Client,
             \/ \E req \in Waiting \ {[op |-> "lost"]} : PushRequest(c, req)
             \/ HandleClient(c)
             \/ IgnoreRequest(c)
      PROVE  Pending'
  BY <1>1 DEF PushRequest, HandleClient, HandleGetActiveRunTarget, SetPendingState,
         RejectSetRequestedRunTarget, AcceptSetRequestedRunTarget, IgnoreRequest
<1>2. ASSUME NEW n \in Supervised,
             PushSupervisionFailure(n) \/ HandleRecoveryRequest(n) \/ DropSupervisionFailure(n)
      PROVE  Pending'
  BY <1>2 DEF PushSupervisionFailure, HandleRecoveryRequest, DropSupervisionFailure, SetPendingState
<1>3. CASE ProcessGroupHandler
  BY <1>3 DEF ProcessGroupHandler, SetPendingState
<1>4. CASE Start \/ BeginShutdown \/ StartTransitionToOffState \/ EndShutdown
  BY <1>4 DEF Start, BeginShutdown, StartTransitionToOffState, EndShutdown
<1>5. ASSUME ContinueDrain \/ \E n \in Process : HandleGraphEvent(n) \/ OtherThreads(n)
      PROVE  Pending'
  BY <1>5 DEF ContinueDrain, HandleGraphEvent, OtherThreads, pgmVars
<1>6. CASE UNCHANGED vars
  BY <1>6 DEF vars, pgmVars
<1>7. QED
  BY <1>1, <1>2, <1>3, <1>4, <1>5, <1>6 DEF Next

\* The main loop drives its graph as Graph specifies: it starts a transition
\* only in a final state, for a configured run target, and kills processes
\* only on the way to Off.
THEOREM ImplementsGraph == Safety => GraphSafety
<1>1. Init => Pending /\ GraphInit
  BY DEF Init, Pending
<1>2. QED
  BY <1>1, PendingKeeps, StepSimulation, PTL DEF Safety, GraphSafety

\* Graph events abort a transition or let it go on; none changes its target.
LEMMA GraphEvents ==
  ASSUME TypeOK, Control,
         \/ MainDrain
         \/ \E n \in Process : HandleCompletion(n) \/ HandleUnexpectedTermination(n)
  PROVE  /\ requested' = requested
         /\ \/ state' \in {"kAborting", "kUndefinedState"}
            \/ state' = state
            \/ state = "kInTransition" /\ state' = "kSuccess"
<1>1. CASE MainDrain
  BY <1>1 DEF MainDrain, DispatchProcess, DispatchRunTarget, FinishDrain, BecomeState, StateResult,
              Control, InTransition
<1>2. ASSUME NEW n \in Process, HandleCompletion(n)
      PROVE  /\ requested' = requested
             /\ state' \in {"kAborting", "kUndefinedState"} \/ state' = state
  BY <1>2 DEF HandleCompletion, NodeFinishedInTransition, NodeFinishedAborting, BecomeState,
              StateResult, TypeOK, GraphStates
<1>3. ASSUME NEW n \in Process, HandleUnexpectedTermination(n)
      PROVE  /\ requested' = requested
             /\ state' \in {"kAborting", "kUndefinedState"}
  BY <1>3, Aborted DEF HandleUnexpectedTermination, BecomeState, TypeOK
<1>4. QED
  BY <1>1, <1>2, <1>3

\* cancel() leaves the graph in neither kSuccess nor kInTransition.
LEMMA CancelAborts ==
  ASSUME TypeOK, Cancel
  PROVE  state' \in {"kAborting", "kUndefinedState"} /\ requested' = requested
BY Aborted DEF Cancel, BecomeState, TypeOK

\* Every step keeps what allProcessGroupsOff() relies on.
LEMMA ShutdownKeeps == PgmInv /\ [Next]_vars => Shutdown'
<1> SUFFICES ASSUME PgmInv, [Next]_vars PROVE Shutdown'
  OBVIOUS
<1>1. TypeOK /\ Control /\ Pending /\ Shutdown
      /\ NoRunTarget \notin RunTarget /\ {Off, Fallback, Initial} \subseteq RunTarget
  BY NodesAssumption DEF PgmInv, IInv, Node
<1>2. ASSUME NEW c \in Client,
             \/ \E req \in Waiting \ {[op |-> "lost"]} : PushRequest(c, req)
             \/ HandleClient(c)
             \/ IgnoreRequest(c)
      PROVE  Shutdown'
  <2>1. loop' = loop /\ (UNCHANGED graphVars \/ (loop = "run" /\ Cancel))
    BY <1>2 DEF PushRequest, HandleClient, HandleGetActiveRunTarget,
                RejectSetRequestedRunTarget, AcceptSetRequestedRunTarget, IgnoreRequest
  <2>2. QED
    BY <1>1, <2>1, CancelAborts DEF Shutdown, graphVars
<1>3. ASSUME NEW n \in Supervised,
             PushSupervisionFailure(n) \/ HandleRecoveryRequest(n) \/ DropSupervisionFailure(n)
      PROVE  Shutdown'
  <2>1. loop' = loop /\ (UNCHANGED graphVars \/ (loop = "run" /\ Cancel))
    BY <1>3 DEF PushSupervisionFailure, HandleRecoveryRequest, DropSupervisionFailure
  <2>2. QED
    BY <1>1, <2>1, CancelAborts DEF Shutdown, graphVars
<1>4. CASE Start
  BY <1>1, <1>4 DEF Start, StartInitialTransition, StartTransition, Shutdown
<1>5. CASE ProcessGroupHandler
  <2>1. /\ loop = "run" /\ loop' = "run"
        /\ \/ UNCHANGED graphVars
           \/ pendingTarget # NoRunTarget /\ StartNextTransition(pendingTarget, pendingSource)
           \/ StartNextTransition(Fallback, "kRecoveryAction")
    BY <1>5 DEF ProcessGroupHandler
  <2>2. QED
    BY <1>1, <2>1 DEF StartNextTransition, StartTransition, Shutdown, Pending, graphVars
<1>6. CASE BeginShutdown
  BY <1>1, <1>6, CancelAborts DEF BeginShutdown, Shutdown, graphVars
<1>7. CASE StartTransitionToOffState
  BY <1>1, <1>7 DEF StartTransitionToOffState, StartNextTransition, StartTransition, Shutdown, graphVars
<1>8. CASE EndShutdown
  BY <1>1, <1>8 DEF EndShutdown, ForceKillProcesses, Shutdown, graphVars
<1>9. ASSUME NEW n \in Process, HandleGraphEvent(n)
      PROVE  Shutdown'
  BY <1>1, <1>9, GraphEvents DEF HandleGraphEvent, Shutdown, pgmVars
<1>10. CASE ContinueDrain
  BY <1>1, <1>10, GraphEvents DEF ContinueDrain, Shutdown, pgmVars
<1>11. ASSUME NEW n \in Process, OtherThreads(n)
       PROVE  Shutdown'
  <2>1. state' = state /\ requested' = requested /\ loop' = loop
    BY <1>11 DEF OtherThreads, WorkerStep, SkipJob, BeginActivate, Launch, ActivationFails,
                 ReachRunning, ReportReady, BeginDeactivate, RequestTermination, Deactivated,
                 Worker, Crash, SelfExit, pgmVars
  <2>2. QED
    BY <1>1, <2>1 DEF Shutdown
<1>12. CASE UNCHANGED vars
  BY <1>1, <1>12 DEF vars, pgmVars, graphVars, Shutdown
<1>13. QED
  BY <1>2, <1>3, <1>4, <1>5, <1>6, <1>7, <1>8, <1>9, <1>10, <1>11, <1>12 DEF Next

\* Every step keeps the variables of ProcessGroupManager well typed.
LEMMA TypedKeeps == PgmInv /\ [Next]_vars => PgmTyped'
<1> SUFFICES ASSUME PgmInv, PgmTyped, [Next]_vars PROVE PgmTyped'
  BY DEF PgmInv
<1> USE DEF PgmTyped
<1>1. ASSUME NEW c \in Client, NEW req \in Waiting \ {[op |-> "lost"]}, PushRequest(c, req)
      PROVE  PgmTyped'
  <2>1. [result |-> "rejected"] \in Answers
    BY DEF Answers
  <2>2. QED
    BY <1>1, <2>1 DEF PushRequest
<1>2. ASSUME NEW c \in Client, HandleClient(c) \/ IgnoreRequest(c)
      PROVE  PgmTyped'
  <2>1. [result |-> "rejected"] \in Answers /\ [result |-> "accepted"] \in Answers
        /\ [op |-> "lost"] \in Waiting
    BY DEF Answers, Waiting
  <2>2. CASE HandleGetActiveRunTarget(c)
    <3>1. \/ slot' = [slot EXCEPT ![c] = [result |-> "rejected"]]
          \/ slot' = [slot EXCEPT ![c] = [active |-> requested]] /\ state = "kSuccess" /\ loop = "run"
      BY <2>2 DEF HandleGetActiveRunTarget, Complete
    <3>2. UNCHANGED <<supervisionFailed, loop>>
      BY <2>2 DEF HandleGetActiveRunTarget
    <3>3. loop = "run" => requested \in RunTarget
      BY DEF PgmInv, IInv, TypeOK, Shutdown
    <3>4. loop = "run" => [active |-> requested] \in Answers
      BY <3>3 DEF Answers
    <3>5. QED
      BY <2>1, <3>1, <3>2, <3>4
  <2>3. ASSUME NEW t \in RunTarget \cup {Unknown},
               RejectSetRequestedRunTarget(c, t) \/ AcceptSetRequestedRunTarget(c, t)
        PROVE  PgmTyped'
    BY <2>1, <2>3 DEF RejectSetRequestedRunTarget, AcceptSetRequestedRunTarget, Complete
  <2>4. CASE IgnoreRequest(c)
    BY <2>1, <2>4 DEF IgnoreRequest
  <2>5. QED
    BY <1>2, <2>2, <2>3, <2>4 DEF HandleClient
<1>3. ASSUME NEW n \in Supervised,
             PushSupervisionFailure(n) \/ HandleRecoveryRequest(n) \/ DropSupervisionFailure(n)
      PROVE  PgmTyped'
  BY <1>3 DEF PushSupervisionFailure, HandleRecoveryRequest, DropSupervisionFailure
<1>4. CASE Start \/ ProcessGroupHandler \/ BeginShutdown \/ StartTransitionToOffState \/ EndShutdown
  BY <1>4 DEF Start, ProcessGroupHandler, BeginShutdown, StartTransitionToOffState, EndShutdown
<1>5. ASSUME ContinueDrain \/ \E n \in Process : HandleGraphEvent(n) \/ OtherThreads(n)
      PROVE  PgmTyped'
  BY <1>5 DEF ContinueDrain, HandleGraphEvent, OtherThreads, pgmVars
<1>6. CASE UNCHANGED vars
  BY <1>6 DEF vars, pgmVars
<1>7. QED
  BY <1>1, <1>2, <1>3, <1>4, <1>5, <1>6 DEF Next

\* The invariant of the manager holds in every reachable state.
THEOREM PgmInvariance == Safety => []PgmInv
<1>1. Init => PgmInv
  <2> SUFFICES ASSUME Init PROVE PgmInv
    OBVIOUS
  <2>1. IInv
    BY InitHolds DEF Init
  <2>2. Pending /\ Shutdown
    BY DEF Init, GraphInit, Pending, Shutdown
  <2>3. [result |-> "accepted"] \in Answers
    BY DEF Answers
  <2>4. PgmTyped
    BY <2>3 DEF Init, PgmTyped
  <2>5. QED
    BY <2>1, <2>2, <2>4 DEF PgmInv
<1>2. PgmInv /\ [Next]_vars => PgmInv'
  BY NextKeeps, StepSimulation, PendingKeeps, ShutdownKeeps, TypedKeeps DEF PgmInv
<1>3. QED
  BY <1>1, <1>2, PTL DEF Safety

\* The variables of the manager and of its graph keep their types.
THEOREM PgmTypeCorrect == Safety => []PgmTypeOK
<1>1. PgmInv => PgmTypeOK
  BY DEF PgmInv, IInv, Pending, PgmTyped, PgmTypeOK, Sources
<1>2. QED
  BY <1>1, PgmInvariance, PTL

\* A shutdown that ends with Off reached leaves no process outside Off, for
\* every configuration and whatever was aborted before.
THEOREM OffStopsAll == Safety => []OffReachedMeansStopped
<1>1. PgmInv => OffReachedMeansStopped
  <2> SUFFICES ASSUME PgmInv, loop = "down", state = "kSuccess"
               PROVE  running \subseteq Subgraph[Off] /\ Busy = {}
    BY DEF OffReachedMeansStopped
  <2>1. requested = Off /\ Off # NoRunTarget /\ jobs = 0
    BY NodesAssumption DEF PgmInv, Shutdown, IInv, Control, Node
  <2>2. Busy = {}
    BY <2>1, BusyFinite, FS_EmptySet DEF PgmInv, IInv, JobAccounting
  <2>3. ASSUME NEW n \in running
        PROVE  n \in Subgraph[Off]
    <3>1. n \in Process /\ n \in Node /\ active[n]
      BY <2>2, NodeFacts DEF PgmInv, IInv, TypeOK, NoOrphan, Busy
    <3>2. QED
      BY <2>1, <3>1 DEF PgmInv, IInv, SuccessIsRequestedTarget
  <2>4. QED
    BY <2>2, <2>3
<1>2. QED
  BY <1>1, PgmInvariance, PTL

\* getActiveRunTarget() never names a run target that is not exactly active.
THEOREM AnswersTruthfully == Safety => AnsweredTargetIsActive
<1> DEFINE Truthful == \A c \in Client, t \in RunTarget :
             slot'[c] # slot[c] /\ slot'[c] = [active |-> t] =>
               /\ jobs = 0
               /\ \A n \in Node : active[n] <=> n \in Subgraph[t]
<1>1. PgmInv /\ [Next]_vars => [Truthful]_vars
  <2> SUFFICES ASSUME PgmInv, Next, NEW c \in Client, NEW t \in RunTarget,
                      slot'[c] # slot[c], slot'[c] = [active |-> t]
               PROVE  /\ jobs = 0
                      /\ \A n \in Node : active[n] <=> n \in Subgraph[t]
    OBVIOUS
  <2>1. slot \in [Client -> Waiting \cup Answers]
    BY DEF PgmInv, PgmTyped
  <2>2. [active |-> t] \notin Waiting /\ [active |-> t] # [result |-> "rejected"]
        /\ [active |-> t] # [result |-> "accepted"]
    BY DEF Waiting
  <2>3. HandleGetActiveRunTarget(c) /\ state = "kSuccess" /\ requested = t
    <3>1. ASSUME NEW d \in Client, NEW req \in Waiting \ {[op |-> "lost"]}, PushRequest(d, req)
          PROVE  FALSE
      BY <2>1, <2>2, <3>1 DEF PushRequest
    <3>2. ASSUME NEW d \in Client, HandleGetActiveRunTarget(d)
          PROVE  d = c /\ state = "kSuccess" /\ requested = t
      <4>1. d = c
        BY <2>1, <3>2 DEF HandleGetActiveRunTarget, Complete
      <4>2. \/ slot'[c] = [result |-> "rejected"]
            \/ slot'[c] = [active |-> requested] /\ state = "kSuccess"
        BY <2>1, <3>2, <4>1 DEF HandleGetActiveRunTarget, Complete
      <4>3. slot'[c] = [active |-> requested] => requested = t
        <5>1. slot'[c] = [active |-> requested] => [active |-> requested].active = [active |-> t].active
          OBVIOUS
        <5>2. QED
          BY <5>1
      <4>4. QED
        BY <2>2, <4>1, <4>2, <4>3
    <3>3. ASSUME NEW d \in Client, NEW u \in RunTarget \cup {Unknown},
                 RejectSetRequestedRunTarget(d, u) \/ AcceptSetRequestedRunTarget(d, u)
          PROVE  FALSE
      BY <2>1, <2>2, <3>3 DEF RejectSetRequestedRunTarget, AcceptSetRequestedRunTarget, Complete
    <3>4. ASSUME NEW d \in Client, IgnoreRequest(d)
          PROVE  FALSE
      BY <2>1, <2>2, <3>4 DEF IgnoreRequest, Waiting
    <3>5. ASSUME \/ Start \/ ProcessGroupHandler \/ BeginShutdown
                 \/ StartTransitionToOffState \/ EndShutdown \/ ContinueDrain
                 \/ \E n \in Supervised : \/ PushSupervisionFailure(n) \/ HandleRecoveryRequest(n)
                                          \/ DropSupervisionFailure(n)
                 \/ \E n \in Process : HandleGraphEvent(n) \/ OtherThreads(n)
          PROVE  FALSE
      BY <3>5 DEF Start, ProcessGroupHandler, BeginShutdown, StartTransitionToOffState, EndShutdown,
                  ContinueDrain, PushSupervisionFailure, HandleRecoveryRequest,
                  DropSupervisionFailure, HandleGraphEvent, OtherThreads, pgmVars
    <3>6. QED
      BY <3>1, <3>2, <3>3, <3>4, <3>5 DEF Next, HandleClient
  <2>4. t # NoRunTarget
    BY NodesAssumption DEF Node
  <2>5. QED
    BY <2>3, <2>4 DEF PgmInv, IInv, Control, SuccessIsRequestedTarget
<1>2. QED
  BY <1>1, PgmInvariance, PTL DEF Safety, AnsweredTargetIsActive
=============================================================================
