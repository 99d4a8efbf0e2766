------------------------- MODULE ResourceComponent -------------------------
(***************************************************************************)
(* Class Component: a component put together from a start action, a stop   *)
(* action and a ready condition, for a process or for no resource at all.  *)
(* activate() holds state_mutex_ except while it waits for the ready       *)
(* condition; deactivate() and tryHandleTermination() hold it throughout,  *)
(* so each is one step.  An activation that was overtaken by a             *)
(* deactivation may still be waiting when the next one begins.             *)
(*                                                                         *)
(* Callers keep the preconditions that activate() and deactivate() assert. *)
(* A termination is reported whenever a process has ended; an assertion    *)
(* that fails then, or in activate(), ends the Launch Manager.             *)
(***************************************************************************)
EXTENDS Integers

CONSTANTS
  Activator,   \* worker threads that call activate()
  NoActivator,
  Setups,      \* configurations of a component
  MaxStarts    \* bound: processes that are started

ASSUME ResourceAssumption ==
  /\ MaxStarts \in Nat
  /\ NoActivator \notin Activator
  /\ Setups \subseteq
       {s \in [resource : {"process", "empty"}, ready : {"Report", "NoReport", "File"},
               selfTerminating : BOOLEAN, supervision : {"none", "missing", "set"}] :
          s.resource = "empty" => s.ready = "File"}

Instance == 1..MaxStarts

\* EmptyHandle, and a handle after invalidate().  Other handles are instances.
Empty == 0
Gone == -1

VARIABLES
  setup,       \* the configuration, with the actions and the condition it stands for
  component,   \* state_, with the activation whose stop source StartingState holds
  activation,  \* a call of activate(): where it is, its copy of the handle, its stop
               \* source, and as history how it was cancelled and ended
  instance,    \* the processes that were started, with their semaphores
  aborted      \* an assertion has failed

resourceVars == <<setup, component, activation, instance, aborted>>

NoCallOfActivate ==
  [at |-> "idle", handle |-> Empty, stop |-> FALSE, cancelled |-> FALSE, result |-> "none"]

ResourceInit ==
  /\ setup \in Setups
  /\ component = [state |-> "Terminated", handle |-> Empty, by |-> NoActivator]
  /\ activation = [w \in Activator |-> NoCallOfActivate]
  /\ instance = [n \in Instance |-> [life |-> "unborn", tokens |-> 0, said |-> "nothing",
                                     reply |-> FALSE]]
  /\ aborted = FALSE

InState(s, h) == [state |-> s, handle |-> h, by |-> NoActivator]

\* activateSupervision() and deactivateSupervision() can only fail with a handle.
SupervisionCalls == IF setup.supervision = "set" THEN {TRUE, FALSE} ELSE {TRUE}

-----------------------------------------------------------------------------
(* activate().                                                              *)

MayActivate(w) == ~aborted /\ activation[w].at = "idle" /\ component.state = "Terminated"

\* The supervision could not be set up, or ProcessStartAction::start() fails.
ActivateFails(w) ==
  /\ MayActivate(w)
  /\ setup.supervision = "missing" \/ setup.resource = "process"
  /\ component' = InState("Fault", Empty)
  /\ activation' = [activation EXCEPT ![w] = [NoCallOfActivate EXCEPT !.result = "kFailure"]]
  /\ UNCHANGED <<setup, instance, aborted>>

FirstWaitFor == CASE setup.ready = "File" -> "file"
                  [] setup.ready = "Report" -> "report"
                  [] setup.ready = "NoReport" -> "noReport"

Starting(w, h) ==
  /\ component' = [state |-> "Starting", handle |-> h, by |-> w]
  /\ activation' = [activation EXCEPT ![w] =
                      [NoCallOfActivate EXCEPT !.at = FirstWaitFor, !.handle = h]]

StartResource(w) ==
  /\ MayActivate(w) /\ setup.supervision # "missing"
  /\ \/ setup.resource = "empty" /\ Starting(w, Empty) /\ UNCHANGED instance
     \/ /\ setup.resource = "process"
        /\ \E n \in Instance :
             /\ \A m \in Instance : instance[m].life = "unborn" <=> m >= n
             /\ Starting(w, n)
             /\ instance' = [instance EXCEPT ![n].life = "alive"]
  /\ UNCHANGED <<setup, aborted>>

\* The token of the caller is stopped, and forwards it.
StopRequested(w) ==
  /\ ~aborted /\ activation[w].at # "idle"
  /\ activation' = [activation EXCEPT ![w].stop = TRUE]
  /\ UNCHANGED <<setup, component, instance, aborted>>

Proceed(w, from, to) ==
  /\ ~aborted /\ activation[w].at = from
  /\ activation' = [activation EXCEPT ![w].at = to]
  /\ UNCHANGED <<setup, component, aborted>>

\* waitForkRunning(): without a timeout it only replies, and with one it waits for two
\* tokens, the first of which may stay away.
ReplyAtOnce(w) ==
  /\ Proceed(w, "noReport", "relock")
  /\ instance' = [instance EXCEPT ![activation[w].handle].reply = TRUE]

AwaitRunningReport(w) ==
  LET n == activation[w].handle IN
  /\ Proceed(w, "report", "acknowledgement")
  /\ instance' = [instance EXCEPT ![n].reply = TRUE,
                                  ![n].tokens = IF @ = 0 THEN 0 ELSE @ - 1]

\* The process id in the copy of the handle is the one that was started.
AwaitAcknowledgement(w) ==
  LET n == activation[w].handle IN
  /\ Proceed(w, "acknowledgement", "relock")
  /\ instance[n].tokens > 0
  /\ instance' = [instance EXCEPT ![n].tokens = @ - 1]

AwaitFileState(w) == Proceed(w, "file", "relock") /\ UNCHANGED instance

Returns(w, result) ==
  activation' = [activation EXCEPT ![w] =
    [NoCallOfActivate EXCEPT !.cancelled = activation[w].cancelled, !.result = result]]

\* A timeout, or a stop that the wait for the file has seen.
ConditionFails(w) ==
  /\ ~aborted /\ activation[w].at \in {"acknowledgement", "file"}
  /\ Returns(w, "kFailure")
  /\ UNCHANGED <<setup, component, instance, aborted>>

\* Mutant: the state alone decides whether the activation is still wanted.
FinishByState(w) ==
  /\ ~aborted /\ activation[w].at = "relock"
  /\ \/ /\ component.state = "Starting"
        /\ component' = InState("Ready", component.handle)
        /\ Returns(w, "kSuccess") /\ UNCHANGED aborted
     \/ /\ component.state # "Starting"
        /\ Returns(w, "kFailure") /\ UNCHANGED <<component, aborted>>
  /\ UNCHANGED <<setup, instance>>

\* With the lock again: the stop source first, then the state.
FinishActivation(w) ==
  /\ ~aborted /\ activation[w].at = "relock"
  /\ \/ /\ activation[w].stop
        /\ Returns(w, "kFailure") /\ UNCHANGED <<component, aborted>>
     \/ /\ ~activation[w].stop /\ component.state = "Starting"
        /\ \E ok \in SupervisionCalls :
             /\ component' = InState(IF ok THEN "Ready" ELSE "Fault", component.handle)
             /\ Returns(w, IF ok THEN "kSuccess" ELSE "kFailure")
        /\ UNCHANGED aborted
     \/ /\ ~activation[w].stop /\ component.state # "Starting"
        /\ aborted' = TRUE
        /\ UNCHANGED <<component, activation>>
  /\ UNCHANGED <<setup, instance>>

-----------------------------------------------------------------------------
(* deactivate() and tryHandleTermination().                                 *)

IsStarting == component.state = "Starting"

\* Every activation that is under way is cancelled; the stop source is that of the
\* activation StartingState holds.
Cancelled(stopping) ==
  activation' = [w \in Activator |->
    IF activation[w].at = "idle" THEN activation[w]
    ELSE [activation[w] EXCEPT !.cancelled = TRUE,
                               !.stop = @ \/ (stopping /\ IsStarting /\ w = component.by)]]

ResourceDeactivate ==
  LET h == component.handle IN
  /\ ~aborted /\ component.state \in {"Starting", "Ready"}
  /\ \/ /\ FALSE \in SupervisionCalls
        /\ component' = InState("Fault", h)
        /\ Cancelled(FALSE)
     \/ /\ component' = InState("Terminating", h)
        /\ Cancelled(TRUE)
     \/ /\ h \in Instance
        /\ component' = InState("Fault", h)
        /\ Cancelled(TRUE)
  /\ UNCHANGED <<setup, instance, aborted>>

\* ReportRunningReadyCondition::tryHandleTermination(): the wait is ended.
AcceptsTermination == IsStarting /\ setup.ready \in {"Report", "NoReport"}

\* The resource has ended while it was wanted.
EndedUnasked(n, ok) ==
  \/ /\ ~IsStarting /\ FALSE \in SupervisionCalls
     /\ component' = InState("Fault", Gone)
     /\ instance' = [instance EXCEPT ![n].life = "gone"]
     /\ UNCHANGED activation
  \/ /\ AcceptsTermination
     /\ component' = [component EXCEPT !.handle = Gone]
     /\ instance' = [instance EXCEPT ![n].life = "gone", ![n].tokens = @ + 1]
     /\ UNCHANGED activation
  \/ /\ ~AcceptsTermination
     /\ instance' = [instance EXCEPT ![n].life = "gone"]
     /\ IF setup.selfTerminating /\ ok
        THEN component' = [component EXCEPT !.handle = Gone] /\ UNCHANGED activation
        ELSE component' = InState("Fault", Empty) /\ Cancelled(TRUE)

TerminationIsReported(n) ==
  /\ ~aborted /\ instance[n].life \in {"ok", "failed"}
  /\ \/ /\ component.state = "Terminating"
        /\ component' = InState("Terminated", Empty)
        /\ instance' = [instance EXCEPT ![n].life = "gone"]
        /\ UNCHANGED <<activation, aborted>>
     \/ /\ component.state \in {"Starting", "Ready"}
        /\ EndedUnasked(n, instance[n].life = "ok")
        /\ UNCHANGED aborted
     \/ /\ component.state \in {"Terminated", "Fault"}
        /\ aborted' = TRUE
        /\ UNCHANGED <<component, activation, instance>>
  /\ UNCHANGED setup

-----------------------------------------------------------------------------
(* The process.                                                             *)

InstanceReports(n) ==
  /\ ~aborted /\ instance[n].life = "alive" /\ setup.ready # "File"
  /\ \/ instance[n].said = "nothing"
        /\ instance' = [instance EXCEPT ![n].said = "running", ![n].tokens = @ + 1]
     \/ instance[n].said = "running" /\ instance[n].reply
        /\ instance' = [instance EXCEPT ![n].said = "acknowledged", ![n].tokens = @ + 1]
  /\ UNCHANGED <<setup, component, activation, aborted>>

InstanceExits(n, how) ==
  /\ ~aborted /\ instance[n].life = "alive"
  /\ instance' = [instance EXCEPT ![n].life = how]
  /\ UNCHANGED <<setup, component, activation, aborted>>

-----------------------------------------------------------------------------
ActivateResource(w) ==
  \/ ActivateFails(w) \/ StartResource(w) \/ StopRequested(w)
  \/ ReplyAtOnce(w) \/ AwaitRunningReport(w) \/ AwaitAcknowledgement(w) \/ AwaitFileState(w)
  \/ ConditionFails(w) \/ FinishActivation(w)

ResourceNext ==
  \/ \E w \in Activator : ActivateResource(w)
  \/ ResourceDeactivate
  \/ \E n \in Instance : TerminationIsReported(n) \/ InstanceReports(n)
  \/ \E n \in Instance, how \in {"ok", "failed"} : InstanceExits(n, how)

ResourceSpec == ResourceInit /\ [][ResourceNext]_resourceVars

-----------------------------------------------------------------------------
\* "If `deactivate` or `tryHandleTermination` was called during the wait then activation
\* fails" (component.cpp), for the terminations that mean a failure: also when the
\* component has been terminated and activated anew before the old activation has the
\* lock again, and finds the state of the new one.
CancelledActivationFails ==
  \A w \in Activator : activation[w].cancelled => activation[w].result # "kSuccess"

\* A terminated component has no process that is running or not yet reported, so that
\* activate() never starts a second one.
TerminatedHasNoProcess ==
  component.state = "Terminated" => \A n \in Instance : instance[n].life \in {"unborn", "gone"}
=============================================================================
