---------------------------- MODULE MCHealthMonitor ----------------------------
(* Small health monitors, with a user thread for every monitor. *)
EXTENDS HealthMonitor

CONSTANTS d1, b1

\* A monitor of either timed kind alone, and a deadline monitor with a logic monitor.
SmallConfigurations == {{"deadline"}, {"heartbeat"}, {"deadline", "logic"}}

OnlyHeartbeat == {{"heartbeat"}}

\* Two states that alternate.
Alternating == [s \in {"idle", "busy"} |-> {"idle", "busy"} \ {s}]

\* Preempted threads are explored with one monitor at a time.
MCInit == Init /\ (Cardinality(monitors) > 1 => ~preempted)

\* Until the thread has ended.  The bounds of the other monitors are reached earlier than
\* those of a heartbeat monitor.
Horizon ==
  /\ worker.pc \notin {"ended", "panicked"}
  /\ now <= IF monitors = {"heartbeat"} THEN MaxTime ELSE MaxTime - 2

MCSpec == MCInit /\ [][Next]_vars
================================================================================
