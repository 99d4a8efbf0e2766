----------------------------- MODULE HealthMonitor -----------------------------
(***************************************************************************)
(* The health monitor library: a HealthMonitor with its monitors, the      *)
(* application threads that use them, and the monitoring thread, which     *)
(* evaluates all monitors once per processing cycle and tells the          *)
(* supervisor that the application is alive as long as none of them        *)
(* reports an error.                                                       *)
(*                                                                         *)
(* The monitoring thread may be late: Jitter bounds the time from the      *)
(* moment a cycle is due to its end.  With a Jitter above the cycle the    *)
(* computation of the next sleep can underflow, which ends the thread.     *)
(***************************************************************************)
EXTENDS DeadlineMonitor, HeartbeatMonitor, LogicMonitor

CONSTANTS
  Configurations,  \* the sets of monitors that are built
  Cycle,           \* internal_processing_cycle
  ApiCycle,        \* supervisor_api_cycle
  Jitter,          \* how late a cycle may end
  LatestStart      \* the time until which the start of the thread is explored

Kind == {"deadline", "heartbeat", "logic"}

\* What HealthMonitorBuilder::build() accepts.
Builds ==
  /\ Configurations \subseteq SUBSET Kind \ {{}}
  /\ Cycle \in Nat \ {0} /\ ApiCycle \in Nat /\ ApiCycle % Cycle = 0
  /\ HeartbeatBuilds(Cycle)

ASSUME BuildAssumption == Builds /\ Jitter \in Nat /\ LatestStart \in Nat

VARIABLES
  monitors,   \* the monitors of this HealthMonitor
  container,  \* MonitorContainer: "available", "taken" by the application, or "none"
  shouldStop, \* should_stop: the HealthMonitor has been dropped
  worker,     \* the monitoring thread
  notified,   \* when the supervisor was last told that the application is alive
  reported    \* history: the errors the monitors have reported

hmVars == <<monitors, container, shouldStop, worker, notified, reported>>

vars == <<clockVars, deadlineVars, heartbeatVars, logicVars, hmVars>>

monitorVars == <<deadlineVars, heartbeatVars, logicVars>>

Init ==
  /\ ClockInit /\ DeadlineInit /\ HeartbeatInit /\ LogicInit
  /\ monitors \in Configurations
  /\ container = [k \in monitors |-> "available"]
  /\ shouldStop = FALSE
  /\ worker = [pc |-> "off", left |-> {}, snapshot |-> Stopped, at |-> 0, failed |-> FALSE,
               offset |-> 0, due |-> 0, begin |-> 0, last |-> 0]
  /\ notified = 0
  /\ reported = {}

--------------------------------------------------------------------------------
\* The application.

GetMonitor(k) ==
  /\ container[k] = "available" /\ ~shouldStop
  /\ container' = [container EXCEPT ![k] = "taken"]
  /\ UNCHANGED <<clockVars, monitorVars, monitors, shouldStop, worker, notified, reported>>

InUse(k) == k \in monitors /\ container[k] # "available"

\* The kinds are collected in this order.
Before(k) == CASE k = "deadline" -> {}
               [] k = "heartbeat" -> {"deadline"}
               [] k = "logic" -> {"deadline", "heartbeat"}

Collected == {k \in monitors : \A j \in (Before(k) \cup {k}) \cap monitors : container[j] = "taken"}

Collect == [k \in monitors |-> IF k \in Collected THEN "none" ELSE container[k]]

\* A monitor that has not been taken makes the start fail, after others were collected.
StartFailsHalfway ==
  /\ Collected # monitors /\ ~shouldStop
  /\ container' = Collect
  /\ UNCHANGED <<clockVars, monitorVars, monitors, shouldStop, worker, notified, reported>>

Start ==
  /\ Collected = monitors /\ ~shouldStop
  /\ container' = Collect
  /\ worker' = [worker EXCEPT !.pc = "asleep", !.offset = now, !.due = now + Cycle, !.last = now]
  /\ notified' = now
  /\ UNCHANGED <<clockVars, monitorVars, monitors, shouldStop, reported>>

\* The HealthMonitor is dropped, and waits for its thread.
Join ==
  /\ ~shouldStop
  /\ shouldStop' = TRUE
  /\ UNCHANGED <<clockVars, monitorVars, monitors, container, worker, notified, reported>>

Application ==
  \/ /\ InUse("deadline") /\ \E d \in Deadline : DeadlineUser(d)
     /\ UNCHANGED <<clockVars, heartbeatVars, logicVars, hmVars>>
  \/ /\ InUse("heartbeat") /\ \E b \in Beater : HeartbeatUser(b)
     /\ UNCHANGED <<clockVars, deadlineVars, logicVars, hmVars>>
  \/ /\ InUse("logic") /\ LogicUser
     /\ UNCHANGED <<clockVars, deadlineVars, heartbeatVars, hmVars>>
  \/ \E k \in monitors : GetMonitor(k)
  \/ StartFailsHalfway
  \/ Start
  \/ Join

--------------------------------------------------------------------------------
\* The monitoring thread.

Jobs == (IF "deadline" \in monitors THEN Deadline ELSE {}) \cup (monitors \ {"deadline"})

Wake ==
  /\ worker.pc = "asleep" /\ now >= worker.due
  /\ worker' = [worker EXCEPT !.pc = "evaluating", !.left = Jobs, !.begin = now, !.failed = FALSE]
  /\ UNCHANGED <<clockVars, monitorVars, monitors, container, shouldStop, notified, reported>>

Evaluating(job) ==
  /\ worker.pc = "evaluating" /\ job \in worker.left
  /\ job \notin Deadline => worker.left \cap (Deadline \cup Before(job)) = {}

\* on_error: remembered for the end of the cycle.
Report(w, error) ==
  /\ worker' = [w EXCEPT !.failed = @ \/ error # "none"]
  /\ reported' = reported \cup ({error} \ {"none"})

SnapshotDeadline(d) ==
  /\ Evaluating(d)
  /\ Report([worker EXCEPT !.left = @ \ {d},
                           !.pc = IF ComparesClock(word[d]) THEN "comparing" ELSE @,
                           !.snapshot = IF ComparesClock(word[d]) THEN word[d] ELSE @],
            IF ReportsUnderrun(word[d]) THEN "Deadline" ELSE "none")
  /\ UNCHANGED <<clockVars, monitorVars, monitors, container, shouldStop, notified>>

CompareClock ==
  /\ worker.pc = "comparing"
  /\ Report([worker EXCEPT !.pc = "evaluating", !.snapshot = Stopped],
            IF ReportsMiss(worker.snapshot) THEN "Deadline" ELSE "none")
  /\ UNCHANGED <<clockVars, monitorVars, monitors, container, shouldStop, notified>>

ReadMonitorNow ==
  /\ Evaluating("heartbeat")
  /\ worker' = [worker EXCEPT !.pc = "taking", !.at = now]
  /\ UNCHANGED <<clockVars, monitorVars, monitors, container, shouldStop, notified, reported>>

TakeHeartbeat ==
  /\ worker.pc = "taking"
  /\ HeartbeatEvaluate(worker.at, worker.offset)
  /\ Report([worker EXCEPT !.pc = "evaluating", !.left = @ \ {"heartbeat"}, !.at = 0],
            HeartbeatError(beat, worker.at, worker.offset))
  /\ UNCHANGED <<clockVars, deadlineVars, logicVars, monitors, container, shouldStop, notified>>

EvaluateLogic ==
  /\ Evaluating("logic")
  /\ Report([worker EXCEPT !.left = @ \ {"logic"}], IF logic.status = "ok" THEN "none" ELSE "Logic")
  /\ UNCHANGED <<clockVars, monitorVars, monitors, container, shouldStop, notified>>

CycleDone == worker.pc = "evaluating" /\ worker.left = {}

\* A thread that only skips the notification of the cycle with the error.
SkipNotification ==
  /\ CycleDone /\ worker.failed
  /\ worker' = [worker EXCEPT !.pc = "asleep", !.due = worker.begin + Cycle]
  /\ UNCHANGED <<clockVars, monitorVars, monitors, container, shouldStop, notified, reported>>

\* An error ends the thread, and with it the notifications.
StopNotifying ==
  /\ CycleDone /\ worker.failed
  /\ worker' = [worker EXCEPT !.pc = "ended"]
  /\ UNCHANGED <<clockVars, monitorVars, monitors, container, shouldStop, notified, reported>>

\* interval - now.elapsed() panics when the cycle took longer than the interval.
NextSleep ==
  IF now - worker.begin > Cycle THEN "panicked"
  ELSE IF shouldStop THEN "ended"
  ELSE "asleep"

NotificationDue == now - worker.last > ApiCycle

\* A cycle that restarts the time of the notification whether it is due or not.
FinishCycleRestarting ==
  /\ CycleDone /\ ~worker.failed
  /\ worker' = [worker EXCEPT !.pc = NextSleep,
                              !.due = worker.begin + Cycle, !.begin = 0, !.last = now]
  /\ notified' = IF NotificationDue THEN now ELSE notified
  /\ UNCHANGED <<clockVars, monitorVars, monitors, container, shouldStop, reported>>

FinishCycle ==
  /\ CycleDone /\ ~worker.failed
  /\ worker' = [worker EXCEPT !.pc = NextSleep,
                              !.due = worker.begin + Cycle, !.begin = 0,
                              !.last = IF NotificationDue THEN now ELSE @]
  /\ notified' = IF NotificationDue THEN now ELSE notified
  /\ UNCHANGED <<clockVars, monitorVars, monitors, container, shouldStop, reported>>

MonitoringThread ==
  \/ Wake
  \/ \E d \in Deadline : SnapshotDeadline(d)
  \/ CompareClock
  \/ ReadMonitorNow
  \/ TakeHeartbeat
  \/ EvaluateLogic
  \/ StopNotifying
  \/ FinishCycle

--------------------------------------------------------------------------------
Active == worker.pc \notin {"off", "ended", "panicked"}

SomeoneReadClock ==
  \/ DeadlineUserReadClock
  \/ HeartbeatUserReadClock
  \/ worker.pc \in {"comparing", "taking"}

\* Time is of interest until the monitoring thread has ended.
Explored == Active \/ (worker.pc = "off" /\ now < LatestStart)

TimePasses ==
  /\ Tick /\ Explored
  /\ Active => now < worker.due + Jitter
  /\ preempted \/ ~SomeoneReadClock
  /\ UNCHANGED <<monitorVars, hmVars>>

Next == TimePasses \/ Application \/ MonitoringThread

Spec == Init /\ [][Next]_vars

--------------------------------------------------------------------------------
\* While the monitoring thread goes on, a deadline that has failed has done so only
\* recently: a deadline that is past its maximum, one that was stopped too early and an
\* invalid transition are found one cycle later at the latest.
FaultIsDetected ==
  Active =>
    /\ \A d \in Deadline :
         Failed(d) => now <= Max({since[d], worker.offset,
                                  IF word[d].underrun THEN 0 ELSE word[d].timestamp}) + Cycle + Jitter
    /\ \A t \in derailed : now <= Max({t, worker.offset}) + Cycle + Jitter

\* A deadline that stop_internal() found too late or too early stays visible to the
\* monitoring thread, also when it is dropped, acquired and started again.
BadStopIsKept == \A d \in misuse : Failed(d)

\* An application that stops sending heartbeats is found out.  evaluate() does not compare
\* the clock with a heartbeat it has just accepted: the silence after it can have lasted
\* for a whole cycle then and is found in the next one.  A heartbeat that is published late
\* can be older than that by the width of the range.
SilenceIsDetected ==
  LET delay == Cycle + Jitter
      slack == IF preempted THEN Max({HeartbeatMax, HeartbeatMax - HeartbeatMin + delay})
               ELSE Max({HeartbeatMax, delay})
  IN  Active /\ "heartbeat" \in monitors =>
        now <= Max({beats.last, worker.offset}) + slack + delay

\* No false alarm, when threads are not preempted: evaluate() reports a deadline only when
\* one has failed, and a heartbeat only when two of them were, or the last one is, too far
\* apart or too close.
ErrorsAreReal ==
  [][~preempted =>
       \A error \in reported' \ reported :
         /\ error = "Deadline" => \E d \in Deadline : Failed(d)
         /\ error = "TooLate" =>
              \/ beats.far \/ beats.first > worker.offset + HeartbeatMax
              \/ now > Max({beats.last, worker.offset}) + HeartbeatMax
         /\ error = "TooEarly" =>
              beats.close \/ beats.first < worker.offset + HeartbeatMin]_vars

\* The supervisor hears from an application without errors at least once per
\* supervisor_api_cycle and processing cycle.
AliveInTime == Active => now <= notified + ApiCycle + Cycle + Jitter

\* After a monitor has reported an error the supervisor is never notified again.
SilentAfterError == [][notified' # notified => reported = {}]_vars

\* An application whose heartbeats all keep the range is not reported for multiple
\* heartbeats in one heartbeat cycle.
MultipleIsOutOfRange ==
  "MultipleHeartbeats" \in reported =>
    \/ beats.close \/ beats.far
    \/ beats.first \notin worker.offset + HeartbeatMin .. worker.offset + HeartbeatMax
================================================================================
