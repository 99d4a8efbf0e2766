----------------------------- MODULE LogicMonitor -----------------------------
(***************************************************************************)
(* A logic monitor of the health monitor library: one thread moves it      *)
(* along the transitions of a state graph.  The load and the exchange of   *)
(* transition() are one step, because the monitor cannot be shared between *)
(* threads and the monitoring thread only reads it.                        *)
(***************************************************************************)
EXTENDS MonotonicClock

CONSTANTS
  State,          \* the states of the graph
  InitialState,
  AllowedTargets  \* the targets of every state

\* What LogicMonitorBuilder::build() accepts.
LogicBuilds ==
  InitialState \in State /\ AllowedTargets \in [State -> SUBSET State]

ASSUME LogicAssumption == LogicBuilds

VARIABLES
  logic,     \* the current state and the status of the monitor
  derailed   \* history: the times of the invalid transitions

logicVars == <<logic, derailed>>

LogicInit ==
  /\ logic = [state |-> InitialState, status |-> "ok"]
  /\ derailed = {}

TransitionAllowed(target) ==
  /\ logic.status = "ok"
  /\ target \in AllowedTargets[logic.state]
  /\ logic' = [logic EXCEPT !.state = target]
  /\ UNCHANGED derailed

\* The state stays, and no later transition is accepted.
TransitionInvalid(target) ==
  /\ logic.status = "ok"
  /\ target \notin AllowedTargets[logic.state]
  /\ logic' = [logic EXCEPT !.status = "InvalidTransition"]
  /\ derailed' = derailed \cup {now}

LogicUser == \E target \in State : TransitionAllowed(target) \/ TransitionInvalid(target)
===============================================================================
