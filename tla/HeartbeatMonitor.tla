--------------------------- MODULE HeartbeatMonitor ---------------------------
(***************************************************************************)
(* A heartbeat monitor of the health monitor library.  Any thread of the   *)
(* application may call heartbeat(); the monitoring thread takes the word  *)
(* with the latest time stamp and the number of heartbeats, clears it, and *)
(* accepts at most one heartbeat, in a range that begins with the          *)
(* heartbeat accepted before.                                              *)
(***************************************************************************)
EXTENDS MonotonicClock, FiniteSetsExt

CONSTANTS
  Beater,                     \* the threads that call heartbeat()
  HeartbeatMin, HeartbeatMax  \* the range between two heartbeats

ASSUME HeartbeatAssumption ==
  /\ HeartbeatMin \in Nat /\ HeartbeatMax \in Nat
  /\ HeartbeatMin <= HeartbeatMax

VARIABLES
  beat,        \* heartbeat_state: the time stamp and the counter
  start,       \* start_timestamp, 0 until a heartbeat has been accepted
  beating,     \* the time a thread inside heartbeat() has read, or NotBeating
  beats        \* history: the first and the latest heartbeat, and whether two were not in range

heartbeatVars == <<beat, start, beating, beats>>

NotBeating == -1

NoBeat == [timestamp |-> 0, counter |-> 0]

HeartbeatInit ==
  /\ beat = NoBeat
  /\ start = 0
  /\ beating = [b \in Beater |-> NotBeating]
  /\ beats = [first |-> NotBeating, last |-> NotBeating, close |-> FALSE, far |-> FALSE]

HeartbeatReadsClock(b) ==
  /\ beating[b] = NotBeating
  /\ beating' = [beating EXCEPT ![b] = now]
  /\ UNCHANGED <<beat, start, beats>>

Recorded(timestamp) ==
  LET distance == timestamp - beats.last IN
  [first |-> IF beats.first = NotBeating THEN timestamp ELSE beats.first,
   last  |-> Max({beats.last, timestamp}),
   close |-> beats.close \/ (beats.last # NotBeating /\ distance < HeartbeatMin),
   far   |-> beats.far \/ (beats.last # NotBeating /\ distance > HeartbeatMax)]

\* The counter has two bits and stays at its maximum.
HeartbeatUpdates(b) ==
  /\ beating[b] # NotBeating
  /\ beat' = [timestamp |-> beating[b], counter |-> Min({beat.counter + 1, 3})]
  /\ beating' = [beating EXCEPT ![b] = NotBeating]
  /\ beats' = Recorded(beating[b])
  /\ UNCHANGED start

HeartbeatUser(b) == HeartbeatReadsClock(b) \/ HeartbeatUpdates(b)

HeartbeatUserReadClock == \E b \in Beater : beating[b] # NotBeating

-------------------------------------------------------------------------------
\* evaluate(): monitorNow is the clock, read before the word was taken; offset is the
\* time at which the monitoring thread began.

RangeStart(offset) == IF start > 0 THEN start ELSE offset

\* An evaluation that takes a cycle without heartbeat for granted.
SilenceAccepted(snapshot, monitorNow, offset) ==
  CASE snapshot.counter > 1 -> "MultipleHeartbeats"
    [] snapshot.counter = 0 -> "none"
    [] OTHER -> IF snapshot.timestamp < RangeStart(offset) + HeartbeatMin THEN "TooEarly"
                ELSE IF snapshot.timestamp > RangeStart(offset) + HeartbeatMax THEN "TooLate"
                ELSE "none"

HeartbeatError(snapshot, monitorNow, offset) ==
  LET first == RangeStart(offset) + HeartbeatMin
      last  == RangeStart(offset) + HeartbeatMax
  IN  CASE snapshot.counter > 1 -> "MultipleHeartbeats"
        [] snapshot.counter = 0 -> IF monitorNow > last THEN "TooLate" ELSE "none"
        [] OTHER -> IF snapshot.timestamp < first THEN "TooEarly"
                    ELSE IF snapshot.timestamp > last THEN "TooLate"
                    ELSE "none"

\* The word is reset, and a heartbeat in range begins the next cycle.
HeartbeatEvaluate(monitorNow, offset) ==
  /\ beat' = NoBeat
  /\ start' = IF beat.counter = 1 /\ HeartbeatError(beat, monitorNow, offset) = "none"
              THEN beat.timestamp ELSE start
  /\ UNCHANGED <<beating, beats>>

\* The builder's test of the processing cycle.
HeartbeatBuilds(cycle) == HeartbeatMin * 2 > cycle
===============================================================================
