------------------------- MODULE ProcessGroupManager -------------------------
(***************************************************************************)
(* The main loop of the Launch Manager: class ProcessGroupManager around    *)
(* the Graph it owns.  It adds to Graph the pending run target, requests of *)
(* the control interface, supervision failures, and the shutdown sequence   *)
(* of allProcessGroupsOff().                                                *)
(*                                                                          *)
(* A client thread pushes its request into the component event queue and    *)
(* blocks in CompletionSlot::wait() until the main thread completes it.     *)
(* Since events become visible after any delay (see Graph), an iteration of *)
(* the main loop is any number of event handlers followed by                *)
(* processGroupHandler().                                                   *)
(***************************************************************************)
EXTENDS Graph

CONSTANTS
  Client,      \* threads calling setRequestedRunTarget(), getActiveRunTarget()
  Supervised,  \* processes under alive supervision
  Unknown      \* a run target name that is not configured

ASSUME ClientsAssumption ==
  /\ IsFiniteSet(Client)
  /\ Supervised \subseteq Process
  /\ Unknown \notin RunTarget

VARIABLES
  pendingTarget,      \* pending_.run_target
  pendingSource,      \* pending_.source
  supervisionFailed,  \* processes with an unhandled SupervisionFailure
  slot,               \* the request of a client, then what completed it
  loop                \* "run", or where allProcessGroupsOff() is

pgmVars == <<pendingTarget, pendingSource, supervisionFailed, slot, loop>>
vars == <<graphVars, pgmVars>>

\* What a blocked client waits for; "lost" once its event was consumed and
\* nobody will complete the slot.
Waiting ==
  {[op |-> "get"], [op |-> "lost"]} \cup [op : {"set"}, target : RunTarget \cup {Unknown}]

\* What complete() or a failed push returns to the client.
Answers == [active : RunTarget] \cup [result : {"accepted", "rejected"}]

Init ==
  /\ GraphInit
  /\ pendingTarget = NoRunTarget
  /\ pendingSource = "kStateManagerRequest"
  /\ supervisionFailed = {}
  /\ slot = [c \in Client |-> [result |-> "accepted"]]
  /\ loop = "start"

SetPendingState(target, src) ==
  /\ pendingTarget' = target
  /\ pendingSource' = src

-----------------------------------------------------------------------------
(* Other threads: clients and the alive monitor push events.                *)

\* setRequestedRunTarget() or getActiveRunTarget(): after
\* ComponentEventQueue::stop() the push fails.
PushRequest(c, req) ==
  /\ slot[c] \notin Waiting
  /\ slot' = [slot EXCEPT ![c] = IF loop = "down" THEN [result |-> "rejected"] ELSE req]
  /\ UNCHANGED <<graphVars, pendingTarget, pendingSource, supervisionFailed, loop>>

\* The recovery callback of createProcessComponentsObjects().
PushSupervisionFailure(n) ==
  /\ loop # "down"
  /\ active[n]
  /\ n \notin supervisionFailed
  /\ supervisionFailed' = supervisionFailed \cup {n}
  /\ UNCHANGED <<graphVars, pendingTarget, pendingSource, slot, loop>>

-----------------------------------------------------------------------------
(* The main thread while the loop runs.                                     *)

\* run(): startInitialTransition().
Start ==
  /\ loop = "start"
  /\ StartInitialTransition
  /\ loop' = "run"
  /\ UNCHANGED <<pendingTarget, pendingSource, supervisionFailed, slot>>

Complete(c, value) == slot' = [slot EXCEPT ![c] = value]

\* Mutant: a transition in progress is not looked at.
GetRequestedRunTarget(c) ==
  /\ loop = "run"
  /\ main = "idle"
  /\ slot[c] = [op |-> "get"]
  /\ Complete(c, [active |-> requested])
  /\ UNCHANGED <<graphVars, pendingTarget, pendingSource, supervisionFailed, loop>>

HandleGetActiveRunTarget(c) ==
  /\ loop = "run"
  /\ main = "idle"
  /\ slot[c] = [op |-> "get"]
  /\ Complete(c, IF state = "kSuccess" THEN [active |-> requested]
                                       ELSE [result |-> "rejected"])
  /\ UNCHANGED <<graphVars, pendingTarget, pendingSource, supervisionFailed, loop>>

\* Mutant: a rejection returns before it completes the slot.
RejectSilently(c, t) ==
  /\ loop = "run"
  /\ main = "idle"
  /\ slot[c] = [op |-> "set", target |-> t]
  /\ t = Unknown \/ (t = requested /\ state \in {"kInTransition", "kSuccess"})
  /\ Complete(c, [op |-> "lost"])
  /\ UNCHANGED <<graphVars, pendingTarget, pendingSource, supervisionFailed, loop>>

\* kRunTargetDoesntExist, kInTransitionToSameState and kAlreadyInState leave
\* the graph alone.
RejectSetRequestedRunTarget(c, t) ==
  /\ loop = "run"
  /\ main = "idle"
  /\ slot[c] = [op |-> "set", target |-> t]
  /\ t = Unknown \/ (t = requested /\ state \in {"kInTransition", "kSuccess"})
  /\ Complete(c, [result |-> "rejected"])
  /\ UNCHANGED <<graphVars, pendingTarget, pendingSource, supervisionFailed, loop>>

\* Mutant: the cancelled transition counts as settled with jobs in flight.
AcceptAndForget(c, t) ==
  /\ loop = "run"
  /\ main = "idle"
  /\ slot[c] = [op |-> "set", target |-> t]
  /\ t \in RunTarget
  /\ t = requested => state \notin {"kInTransition", "kSuccess"}
  /\ Complete(c, [result |-> "accepted"])
  /\ SetPendingState(t, "kStateManagerRequest")
  /\ BecomeState("kUndefinedState")
  /\ UNCHANGED <<requested, source, initial, reported, jobs, transition, main,
                 active, running, task, crashed, supervisionFailed, loop>>

\* An accepted run target becomes the pending one and cancels a transition.
AcceptSetRequestedRunTarget(c, t) ==
  /\ loop = "run"
  /\ main = "idle"
  /\ slot[c] = [op |-> "set", target |-> t]
  /\ t \in RunTarget
  /\ t = requested => state \notin {"kInTransition", "kSuccess"}
  /\ Complete(c, [result |-> "accepted"])
  /\ SetPendingState(t, "kStateManagerRequest")
  /\ IF state = "kInTransition" THEN Cancel ELSE UNCHANGED graphVars
  /\ UNCHANGED <<supervisionFailed, loop>>

\* Mutant: a failure during a transition is left to the transition.
RecoverySparesTransition(n) ==
  /\ loop = "run"
  /\ main = "idle"
  /\ n \in supervisionFailed
  /\ supervisionFailed' = supervisionFailed \ {n}
  /\ IF requested = Fallback \/ state = "kInTransition"
       THEN UNCHANGED <<pendingTarget, pendingSource>>
       ELSE SetPendingState(Fallback, "kRecoveryAction")
  /\ UNCHANGED <<graphVars, slot, loop>>

HandleRecoveryRequest(n) ==
  /\ loop = "run"
  /\ main = "idle"
  /\ n \in supervisionFailed
  /\ supervisionFailed' = supervisionFailed \ {n}
  /\ IF requested = Fallback /\ state \in {"kInTransition", "kSuccess"}
       THEN UNCHANGED <<graphVars, pendingTarget, pendingSource>>
       ELSE /\ SetPendingState(Fallback, "kRecoveryAction")
            /\ IF state = "kInTransition" THEN Cancel ELSE UNCHANGED graphVars
  /\ UNCHANGED <<slot, loop>>

\* Mutant: only kSuccess is a final state.
HandlerOnlyOnSuccess ==
  /\ loop = "run"
  /\ main = "idle"
  /\ state = "kSuccess"
  /\ SetPendingState(NoRunTarget, "kStateManagerRequest")
  /\ IF pendingTarget \in {NoRunTarget, requested}
       THEN UNCHANGED graphVars
       ELSE StartNextTransition(pendingTarget, pendingSource)
  /\ UNCHANGED <<supervisionFailed, slot, loop>>

\* processGroupHandler(): a settled graph takes the pending run target, and an
\* undefined one without a pending run target goes to the fallback.
ProcessGroupHandler ==
  /\ loop = "run"
  /\ main = "idle"
  /\ state \in {"kSuccess", "kUndefinedState"}
  /\ SetPendingState(NoRunTarget, "kStateManagerRequest")
  /\ \/ /\ pendingTarget # NoRunTarget
        /\ pendingTarget # requested \/ state = "kUndefinedState"
        /\ StartNextTransition(pendingTarget, pendingSource)
     \/ /\ pendingTarget = NoRunTarget
        /\ state = "kUndefinedState"
        /\ StartNextTransition(Fallback, "kRecoveryAction")
     \/ /\ pendingTarget \in {NoRunTarget, requested}
        /\ state = "kSuccess"
        /\ UNCHANGED graphVars
  /\ UNCHANGED <<supervisionFailed, slot, loop>>

-----------------------------------------------------------------------------
(* The main thread during allProcessGroupsOff().                            *)

\* A termination signal ends run() at the end of an iteration, which the handler
\* has left with nothing to start; unless the graph is already going to Off the
\* transition is cancelled.
BeginShutdown ==
  /\ loop = "run"
  /\ main = "idle"
  /\ state # "kUndefinedState"
  /\ state = "kSuccess" => pendingTarget = NoRunTarget
  /\ \/ /\ state = "kInTransition" /\ requested = Off
        /\ loop' = "off"
        /\ UNCHANGED graphVars
     \/ /\ ~(state = "kInTransition" /\ requested = Off)
        /\ loop' = "cancelling"
        /\ Cancel
  /\ UNCHANGED <<pendingTarget, pendingSource, supervisionFailed, slot>>

\* waitForStateCompletion(kAborting) is over, because the graph settled or the
\* wait timed out: startTransitionToOffState() does nothing while kAborting.
StartTransitionToOffState ==
  /\ loop = "cancelling"
  /\ main = "idle"
  /\ loop' = "off"
  /\ IF state = "kAborting"
       THEN UNCHANGED graphVars
       ELSE StartNextTransition(Off, "kStateManagerRequest")
  /\ UNCHANGED <<pendingTarget, pendingSource, supervisionFailed, slot>>

\* waitForStateCompletion(kInTransition) is over: only a timeout kills.
EndShutdown ==
  /\ loop = "off"
  /\ main = "idle"
  /\ loop' = "down"
  /\ IF state = "kInTransition" THEN ForceKillProcesses ELSE UNCHANGED graphVars
  /\ UNCHANGED <<pendingTarget, pendingSource, supervisionFailed, slot>>

\* The event loop of waitForStateCompletion() drops supervision failures ...
DropSupervisionFailure(n) ==
  /\ loop \in {"cancelling", "off"}
  /\ main = "idle"
  /\ n \in supervisionFailed
  /\ supervisionFailed' = supervisionFailed \ {n}
  /\ UNCHANGED <<graphVars, pendingTarget, pendingSource, slot, loop>>

\* ... and hands requests to Graph::handleComponentEvent(), which ignores them.
IgnoreRequest(c) ==
  /\ loop \in {"cancelling", "off"}
  /\ main = "idle"
  /\ slot[c] \in Waiting \ {[op |-> "lost"]}
  /\ slot' = [slot EXCEPT ![c] = [op |-> "lost"]]
  /\ UNCHANGED <<graphVars, pendingTarget, pendingSource, supervisionFailed, loop>>

-----------------------------------------------------------------------------
\* Graph events, in the loop and in waitForStateCompletion().
HandleGraphEvent(n) ==
  /\ loop \in {"run", "cancelling", "off"}
  /\ HandleCompletion(n) \/ HandleUnexpectedTermination(n)
  /\ UNCHANGED pgmVars

ContinueDrain == MainDrain /\ UNCHANGED pgmVars

\* Until deinitialize() joins them the workers go on, and processes may die.
OtherThreads(n) == (WorkerStep(n) \/ Crash(n) \/ SelfExit(n)) /\ UNCHANGED pgmVars

HandleClient(c) ==
  \/ HandleGetActiveRunTarget(c)
  \/ \E t \in RunTarget \cup {Unknown} :
       RejectSetRequestedRunTarget(c, t) \/ AcceptSetRequestedRunTarget(c, t)

Next ==
  \/ Start
  \/ \E c \in Client :
       \/ \E req \in Waiting \ {[op |-> "lost"]} : PushRequest(c, req)
       \/ HandleClient(c)
       \/ IgnoreRequest(c)
  \/ \E n \in Supervised :
       PushSupervisionFailure(n) \/ HandleRecoveryRequest(n) \/ DropSupervisionFailure(n)
  \/ ProcessGroupHandler
  \/ BeginShutdown
  \/ StartTransitionToOffState
  \/ EndShutdown
  \/ ContinueDrain
  \/ \E n \in Process : HandleGraphEvent(n) \/ OtherThreads(n)

\* The main thread reaches processGroupHandler() in every iteration and the
\* waits of the shutdown are bounded by timeouts.  Events are handled in the
\* order of the queue, so each one is, however often the main thread is inside
\* queueReadyNodes() meanwhile: strong fairness.  Whether clients, crashes,
\* supervision failures or the termination signal occur is left open.
Fairness ==
  /\ WF_vars(Start) /\ WF_vars(ContinueDrain) /\ WF_vars(ProcessGroupHandler)
  /\ WF_vars(StartTransitionToOffState) /\ WF_vars(EndShutdown)
  /\ \A c \in Client : SF_vars(HandleClient(c))
  /\ \A n \in Process :
       SF_vars(HandleGraphEvent(n)) /\ WF_vars(WorkerStep(n) /\ UNCHANGED pgmVars)
  /\ \A n \in Supervised : SF_vars(HandleRecoveryRequest(n))

Safety == Init /\ [][Next]_vars

Spec == Safety /\ Fairness

-----------------------------------------------------------------------------
(* Properties.                                                              *)

\* The members of ProcessGroupManager and the requests of its clients keep their types.
PgmTypeOK ==
  /\ TypeOK
  /\ pendingTarget \in RunTarget \cup {NoRunTarget}
  /\ pendingSource \in Sources
  /\ supervisionFailed \in SUBSET Supervised
  /\ slot \in [Client -> Waiting \cup Answers]
  /\ loop \in {"start", "run", "cancelling", "off", "down"}

\* A client that is told an active run target is told the truth: when
\* handleGetActiveRunTarget() answers, exactly the nodes of that run target are
\* active and no task is in flight.
AnsweredTargetIsActive ==
  [][\A c \in Client, t \in RunTarget :
       slot'[c] # slot[c] /\ slot'[c] = [active |-> t] =>
         /\ jobs = 0
         /\ \A n \in Node : active[n] <=> n \in Subgraph[t]]_vars

\* When allProcessGroupsOff() ends with the Off run target reached, no process
\* outside Off is left in the operating system and no worker is busy.
OffReachedMeansStopped ==
  loop = "down" /\ state = "kSuccess" => running \subseteq Subgraph[Off] /\ Busy = {}

\* A pending run target does not stay behind: once aborted jobs have reported,
\* processGroupHandler() starts or drops it, however often clients replace it.
PendingIsTaken ==
  (loop = "run" /\ pendingTarget # NoRunTarget) ~> (loop # "run" \/ pendingTarget = NoRunTarget)

\* While the loop runs every blocked client is released.
ClientIsAnswered ==
  \A c \in Client :
    (loop = "run" /\ slot[c] \in Waiting) ~> (loop # "run" \/ slot[c] \notin Waiting)

\* Without state manager requests a supervision failure brings the graph to
\* the fallback run target, cancelling whatever runs.
FailureRequestsFallback ==
  \A n \in Supervised :
    (loop = "run" /\ n \in supervisionFailed) ~> (loop # "run" \/ requested = Fallback)

\* A transition does not hang: it succeeds, or it is aborted and settles once
\* its jobs have reported back.
TransitionSettles ==
  (loop = "run" /\ state \in {"kInTransition", "kAborting"}) ~>
    (loop # "run" \/ state \in {"kSuccess", "kUndefinedState"})

\* Doc: the Launch Manager exits after stopping all the processes it owns.  None
\* of them runs once the workers that deinitialize() joins have ended.
DownMeansStopped ==
  loop = "down" /\ (\A n \in Process : task[n] \in {"none", "succeeded", "failed"})
    => running = {}

\* Doc: the client waits until the consumer of its event completes the slot.
RequestIsCompleted == \A c \in Client : slot[c] \in Waiting ~> slot[c] \notin Waiting

=============================================================================
