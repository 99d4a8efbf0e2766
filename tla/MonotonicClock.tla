---------------------------- MODULE MonotonicClock ----------------------------
(***************************************************************************)
(* The clock of the health monitor library: std::time::Instant, read in    *)
(* milliseconds by duration_to_int().  All time stamps of the monitors     *)
(* count from their creation, which is time 0.                             *)
(*                                                                         *)
(* Every operation of a monitor reads the clock first and uses the reading *)
(* later.  preempted says whether time may pass in between; it is chosen   *)
(* once and holds for the whole behaviour.                                 *)
(***************************************************************************)
EXTENDS Integers

CONSTANT MaxTime   \* the end of the time that is explored

ASSUME MaxTimeAssumption == MaxTime \in Nat

VARIABLES
  now,        \* milliseconds since the monitors were created
  preempted   \* can a thread lose the processor between reading and using the clock?

clockVars == <<now, preempted>>

Time == 0..MaxTime

ClockInit == now = 0 /\ preempted \in BOOLEAN

\* A millisecond passes.
Tick == now < MaxTime /\ now' = now + 1 /\ UNCHANGED preempted
===============================================================================
