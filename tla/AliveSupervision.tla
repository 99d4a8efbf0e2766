---------------------------- MODULE AliveSupervision ----------------------------
(* Alive supervision of one process, from the supervised process to the recovery     *)
(* request.  The process writes time-stamped checkpoints to a ring in shared memory  *)
(* (ringbuffer.hpp).  A worker thread of the Launch Manager writes time-stamped      *)
(* activation and deactivation events to a second ring (supervision_handle.hpp).     *)
(* The alive monitor thread (CyclicExecutor.cpp) wakes up once per cycle, takes a    *)
(* synchronization timestamp, distributes the events, reads the checkpoints          *)
(* (MonitorIfDaemon.cpp), sorts both by time (TimeSortingBuffer.hpp) and evaluates   *)
(* the reference cycles that ended (Alive.cpp).                                      *)
(*                                                                                   *)
(* Time is an integer clock.  A stamp is taken in one step and written to its ring   *)
(* in a later one, so it may arrive after the cycle it belongs to.  The variables    *)
(* reference, due and exact are history: what a supervision that saw every stamp at  *)
(* its own time would have decided.                                                  *)
EXTENDS Integers, Sequences

CONSTANTS
  ReferenceCycle,     \* k_aliveReferenceCycle
  MinIndications,     \* k_minAliveIndications
  MaxIndications,     \* k_maxAliveIndications
  Tolerance,          \* k_failedSupervisionCyclesTolerance
  ChannelSize,        \* elements of the checkpoint ring
  EventsSize,         \* elements of the supervision event ring
  BufferSize,         \* elements of the time sorting buffer, the sync event included
  LastInstant,        \* bound: the last instant that is explored
  MaxReports,         \* bound: checkpoints the process reports
  MaxRequests         \* bound: activations and deactivations

ASSUME AliveAssumption ==
  /\ {ReferenceCycle, ChannelSize, EventsSize, BufferSize} \subseteq Nat \ {0}
  /\ {MinIndications, MaxIndications, Tolerance} \subseteq Nat

VARIABLES
  clock,       \* the monotonic system clock
  report,      \* the stamp of a checkpoint that is not written yet, or NoStamp
  request,     \* the supervision event a worker has stamped and not written yet
  channel,     \* the checkpoint ring, its overflow flag and its process-shared mutex
  events,      \* the supervision event ring and its overflow flag
  pending,     \* the event of ObservableEventReader::isPushPending, or NoEvent
  interface,   \* MonitorIfDaemon: status and the three flags
  alive,       \* Alive: status, counters, end of the reference cycle, buffer
  monitor,     \* the monitor thread: where it is and its sync timestamp
  reference,   \* history: the supervision as if every stamp were seen when taken
  due,         \* history: the reference status at the last sync timestamp
  exact,       \* history: no stamp was late for its cycle and none was lost
  used         \* checkpoints and requests so far, for the bounds

aliveVars == <<clock, report, request, channel, events, pending, interface, alive,
               monitor, reference, due, exact, used>>

NoStamp == 0

Never == -1    \* std::chrono::nanoseconds::max() as the end of a reference cycle

EventType == {"Activation", "Deactivation"}

NoEvent == [type |-> "None", at |-> NoStamp]

-----------------------------------------------------------------------------
(* The reference.  Every reference cycle of an active supervision adds one to a  *)
(* score when it ends with too few or too many checkpoints and takes one off     *)
(* otherwise; the supervision has expired once the score exceeds the tolerance.  *)

Unsupervised == [on |-> FALSE, score |-> 0, seen |-> 0, end |-> Never]

HasExpired(r) == r.score > Tolerance

StatusOf(r) ==
  CASE ~r.on -> "Deactivated"
    [] r.on /\ HasExpired(r) -> "Expired"
    [] r.on /\ r.score = 0 -> "Ok"
    [] OTHER -> "Failed"

\* A limit of zero is no limit.
CycleIsBad(r) ==
  \/ MinIndications # 0 /\ r.seen < MinIndications
  \/ MaxIndications # 0 /\ r.seen > MaxIndications

\* The instant `at` is over.
InstantOver(r, at) ==
  IF ~r.on \/ HasExpired(r) \/ r.end # at THEN r
  ELSE [r EXCEPT !.score = IF CycleIsBad(r) THEN @ + 1 ELSE IF @ = 0 THEN 0 ELSE @ - 1,
                 !.seen = 0,
                 !.end = @ + ReferenceCycle]

SeenCheckpoint(r) == IF r.on /\ ~HasExpired(r) THEN [r EXCEPT !.seen = @ + 1] ELSE r

SeenRequest(r, type, at) ==
  CASE type = "Deactivation" -> Unsupervised
    [] type = "Activation" /\ ~r.on ->
         [on |-> TRUE, score |-> 0, seen |-> 0, end |-> at + ReferenceCycle]
    [] OTHER -> r

-----------------------------------------------------------------------------
AliveInit ==
  /\ clock = 1
  /\ report = NoStamp
  /\ request = NoEvent
  /\ channel = [q |-> <<>>, overflow |-> FALSE, locked |-> FALSE]
  /\ events = [q |-> <<>>, overflow |-> FALSE]
  /\ pending = NoEvent
  /\ interface = [status |-> "Inactive", activate |-> FALSE, deactivate |-> FALSE,
                  restarted |-> FALSE]
  /\ alive = [status |-> "Deactivated", failed |-> 0, count |-> 0, end |-> Never,
              loss |-> FALSE, buffer |-> <<>>]
  /\ monitor = [pc |-> "asleep", sync |-> NoStamp]
  /\ reference = Unsupervised
  /\ due = "Deactivated"
  /\ exact = TRUE
  /\ used = [reports |-> 0, requests |-> 0, last |-> NoStamp]

ClockAdvances ==
  /\ clock < LastInstant
  /\ clock' = clock + 1
  /\ reference' = InstantOver(reference, clock)

TimeGoesOn ==
  /\ ClockAdvances
  /\ UNCHANGED <<report, request, channel, events, pending, interface, alive, monitor,
                 due, exact, used>>

-----------------------------------------------------------------------------
(* The supervised process.  AliveImpl::ReportCheckpoint reads the clock, then writes *)
(* the stamp under the mutex of the ring.                                            *)

ReportCheckpoint ==
  /\ report = NoStamp
  /\ used.reports < MaxReports
  /\ report' = clock
  /\ reference' = SeenCheckpoint(reference)
  /\ used' = [used EXCEPT !.reports = @ + 1, !.last = clock]
  /\ UNCHANGED <<clock, request, channel, events, pending, interface, alive, monitor,
                 due, exact>>

\* A ring that is full keeps what it has and raises its overflow flag.
Written(ring, size, element) ==
  IF Len(ring.q) = size
  THEN [ring EXCEPT !.overflow = TRUE]
  ELSE [ring EXCEPT !.q = Append(@, element)]

SendEmplace ==
  /\ report # NoStamp
  /\ ~channel.locked
  /\ channel' = Written(channel, ChannelSize, report)
  /\ exact' = (exact /\ Len(channel.q) < ChannelSize)
  /\ report' = NoStamp
  /\ UNCHANGED <<clock, request, events, pending, interface, alive, monitor, reference,
                 due, used>>

\* The process ends between lock and unlock, before or after the element is written.
\* The mutex is process-shared and not robust: nobody gets it any more.
EndsHoldingMutex ==
  /\ report # NoStamp
  /\ ~channel.locked
  /\ \E ring \in {channel, Written(channel, ChannelSize, report)} :
       channel' = [ring EXCEPT !.locked = TRUE]
  /\ exact' = FALSE
  /\ report' = NoStamp
  /\ UNCHANGED <<clock, request, events, pending, interface, alive, monitor, reference,
                 due, used>>

-----------------------------------------------------------------------------
(* The worker thread that starts or stops the process (ProcessInfoNode::activate and *)
(* deactivate).  A process is started again only after it was stopped.  No           *)
(* checkpoint has the stamp of a request that was taken after it.                    *)

StampRequest(type) ==
  /\ request = NoEvent
  /\ used.requests < MaxRequests
  /\ used.last # clock
  /\ type = "Activation" => ~reference.on
  /\ request' = [type |-> type, at |-> clock]
  /\ reference' = SeenRequest(reference, type, clock)
  /\ used' = [used EXCEPT !.requests = @ + 1]
  /\ UNCHANGED <<clock, report, channel, events, pending, interface, alive, monitor,
                 due, exact>>

\* The answer of queueSupervisionEvent is ignored.
QueueSupervisionEvent ==
  /\ request # NoEvent
  /\ events' = Written(events, EventsSize, request)
  /\ exact' = (exact /\ Len(events.q) < EventsSize)
  /\ request' = NoEvent
  /\ UNCHANGED <<clock, report, channel, pending, interface, alive, monitor, reference,
                 due, used>>

-----------------------------------------------------------------------------
(* The time sorting buffer: a new element goes behind the last one that is not later. *)

SortedIn(buffer, element) ==
  LET earlier == SelectSeq(buffer, LAMBDA e : e.at <= element.at)
      later == SelectSeq(buffer, LAMBDA e : e.at > element.at)
  IN  earlier \o <<element>> \o later

\* Alive::updateData and Alive::storeSyncEvent: a full buffer is a data loss.
Buffered(a, element) ==
  IF Len(a.buffer) = BufferSize
  THEN [a EXCEPT !.loss = TRUE]
  ELSE [a EXCEPT !.buffer = SortedIn(@, element)]

-----------------------------------------------------------------------------
(* Alive::evaluate *)

SetNextCycle(a) == [a EXCEPT !.end = @ + ReferenceCycle, !.count = 0]

SwitchToOk(a) == [a EXCEPT !.status = "Ok", !.failed = 0]

SwitchToFailed(a) == SetNextCycle([a EXCEPT !.status = "Failed", !.failed = @ + 1])

\* Here the recovery request is sent that ProcessGroupManager handles.
SwitchToExpired(a) ==
  [a EXCEPT !.status = "Expired", !.failed = Tolerance, !.count = 0, !.end = Never,
            !.loss = FALSE]

SwitchToDeactivated(a) ==
  [a EXCEPT !.status = "Deactivated", !.failed = 0, !.count = 0, !.end = Never]

IsMinError(a) == MinIndications # 0 /\ a.count < MinIndications

IsMaxError(a) == MaxIndications # 0 /\ a.count > MaxIndications

CycleFailed(a) == IsMinError(a) \/ IsMaxError(a)

EvaluateRefCycleOutOfOk(a) ==
  CASE ~CycleFailed(a) -> SetNextCycle(a)
    [] CycleFailed(a) /\ a.failed < Tolerance -> SwitchToFailed(a)
    [] OTHER -> SwitchToExpired(a)

EvaluateRefCycleOutOfFailed(a) ==
  CASE CycleFailed(a) /\ a.failed + 1 <= Tolerance ->
         SetNextCycle([a EXCEPT !.failed = @ + 1])
    [] CycleFailed(a) /\ a.failed + 1 > Tolerance -> SwitchToExpired(a)
    [] ~CycleFailed(a) /\ a.failed <= 1 -> SetNextCycle(SwitchToOk(a))
    [] OTHER -> SetNextCycle([a EXCEPT !.failed = @ - 1])

EvaluateRefCycle(a) ==
  IF a.status = "Ok" THEN EvaluateRefCycleOutOfOk(a) ELSE EvaluateRefCycleOutOfFailed(a)

Supervising(a) == a.status \in {"Ok", "Failed"}

\* Mutant: the end of the reference cycle comes before what has the same stamp.
EvaluatesAtEnd(a, e) == Supervising(a) /\ a.end <= e.at

\* A checkpoint at the end of the reference cycle still belongs to it.
DetectEvaluationEvent(a, e) ==
  Supervising(a) /\ (a.end < e.at \/ (a.end = e.at /\ e.type = "Sync"))

Transition(a, e) ==
  CASE e.type = "Activation" /\ a.status = "Deactivated" ->
         SwitchToOk([a EXCEPT !.end = e.at + ReferenceCycle])
    [] e.type = "Checkpoint" /\ Supervising(a) -> [a EXCEPT !.count = @ + 1]
    [] e.type = "Deactivation" /\ a.status # "Deactivated" -> SwitchToDeactivated(a)
    [] OTHER -> a

RECURSIVE Scanned(_, _)
Scanned(a, buffer) ==
  CASE buffer = <<>> -> a
    [] buffer # <<>> /\ DetectEvaluationEvent(a, Head(buffer)) ->
         Scanned(EvaluateRefCycle(a), buffer)
    [] OTHER -> Scanned(Transition(a, Head(buffer)), Tail(buffer))

\* A data loss expires the supervision whatever its status is, and empties the buffer.
HandleDataLossReaction(a) ==
  [(IF a.status = "Expired" THEN a ELSE SwitchToExpired(a))
     EXCEPT !.loss = FALSE, !.buffer = <<>>]

StoreSyncEvent(a, sync) == Buffered(a, [type |-> "Sync", at |-> sync])

Evaluate(a, sync) ==
  LET stored == StoreSyncEvent(a, sync)
  IN  IF stored.loss
      THEN HandleDataLossReaction(stored)
      ELSE [Scanned(stored, stored.buffer) EXCEPT !.buffer = <<>>]

-----------------------------------------------------------------------------
(* ObservableEventReader: the events are pushed to the interface and to the          *)
(* supervision, those stamped after the sync timestamp one cycle later.              *)

InterfaceUpdated(i, e) ==
  IF e.type = "Activation"
  THEN [i EXCEPT !.restarted = @ \/ i.deactivate, !.activate = TRUE, !.deactivate = FALSE]
  ELSE [i EXCEPT !.deactivate = TRUE]

\* What one round of distributeChanges has pushed, kept and left in the ring.
PushData(d, e) ==
  [d EXCEPT !.interface = InterfaceUpdated(@, e), !.alive = Buffered(@, e)]

\* Mutant: every event is pushed in the cycle that finds it.
RECURSIVE DistributedAtOnce(_, _)
DistributedAtOnce(d, sync) ==
  IF events.overflow \/ d.q = <<>> THEN d
  ELSE DistributedAtOnce([PushData(d, Head(d.q)) EXCEPT !.q = Tail(@)], sync)

RECURSIVE Distributed(_, _)
Distributed(d, sync) ==
  CASE events.overflow \/ d.q = <<>> -> d
    [] ~events.overflow /\ d.q # <<>> /\ Head(d.q).at <= sync ->
         Distributed([PushData(d, Head(d.q)) EXCEPT !.q = Tail(@)], sync)
    [] OTHER -> [d EXCEPT !.q = Tail(@), !.pending = Head(d.q)]

TakeSync ==
  /\ monitor.pc = "asleep"
  /\ ClockAdvances
  /\ monitor' = [pc |-> "distributing", sync |-> clock]
  /\ due' = StatusOf(reference')
  /\ exact' = (exact /\ report = NoStamp /\ request = NoEvent)
  /\ UNCHANGED <<report, request, channel, events, pending, interface, alive, used>>

\* After an overflow of the event ring nothing is distributed and nothing evaluated.
DistributeChanges ==
  LET first == [interface |-> interface, alive |-> alive, q |-> events.q,
                pending |-> NoEvent]
      done == Distributed(IF pending = NoEvent THEN first ELSE PushData(first, pending),
                          monitor.sync)
  IN  /\ monitor.pc = "distributing"
      /\ interface' = done.interface
      /\ alive' = done.alive
      /\ events' = [events EXCEPT !.q = done.q]
      /\ pending' = done.pending
      /\ monitor' = [monitor EXCEPT
                       !.pc = IF events.overflow THEN "asleep" ELSE "checking"]
      /\ exact' = (exact /\ ~done.alive.loss)
      /\ UNCHANGED <<clock, report, request, channel, reference, due, used>>

-----------------------------------------------------------------------------
(* MonitorIfDaemon::checkForNewData and Alive::evaluate, one after the other *)

Activated(i) ==
  IF i.activate /\ i.status = "Inactive" THEN [i EXCEPT !.status = "Active"] ELSE i

\* readIpcUntil: the checkpoints of this cycle, which stand first in the ring
ReadNow == SelectSeq(channel.q, LAMBDA at : at <= monitor.sync)

RECURSIVE CheckpointsPushed(_, _)
CheckpointsPushed(a, stamps) ==
  IF stamps = <<>> THEN a
  ELSE CheckpointsPushed(Buffered(a, [type |-> "Checkpoint", at |-> Head(stamps)]),
                         Tail(stamps))

EvaluateSupervision(a) ==
  /\ alive' = Evaluate(a, monitor.sync)
  /\ exact' = (exact /\ ~StoreSyncEvent(a, monitor.sync).loss)

\* The channel is active and has no overflow.
CheckActive(i) ==
  /\ i.status = "Active" /\ ~channel.overflow
  /\ ~channel.locked
  /\ channel' = [channel EXCEPT !.q = SubSeq(@, Len(ReadNow) + 1, Len(@))]
  /\ interface' = IF i.deactivate
                  THEN [i EXCEPT !.status = "Inactive", !.activate = FALSE,
                                 !.deactivate = FALSE]
                  ELSE i
  /\ EvaluateSupervision(CheckpointsPushed(alive, ReadNow))

\* handleOverflow: from now on the channel is never read again.
CheckOverflow(i) ==
  /\ i.status = "Active" /\ channel.overflow
  /\ interface' = [i EXCEPT !.status = "InactiveOverflow"]
  /\ EvaluateSupervision([alive EXCEPT !.loss = TRUE])
  /\ UNCHANGED channel

\* Mutant: the overflow is told once.
CheckBrokenSilently(i) ==
  /\ i.status = "InactiveOverflow"
  /\ interface' = [i EXCEPT !.restarted = FALSE]
  /\ EvaluateSupervision(alive)
  /\ UNCHANGED channel

\* The supervision is told of the overflow once more when the process was restarted.
CheckBroken(i) ==
  /\ i.status = "InactiveOverflow"
  /\ interface' = [i EXCEPT !.restarted = FALSE]
  /\ EvaluateSupervision([alive EXCEPT !.loss = @ \/ i.restarted])
  /\ UNCHANGED channel

CheckInactive(i) ==
  /\ i.status = "Inactive"
  /\ interface' = i
  /\ EvaluateSupervision(alive)
  /\ UNCHANGED channel

PerformCyclicTriggers ==
  /\ monitor.pc = "checking"
  /\ LET i == Activated(interface)
     IN  CheckActive(i) \/ CheckOverflow(i) \/ CheckBroken(i) \/ CheckInactive(i)
  /\ monitor' = [monitor EXCEPT !.pc = "asleep"]
  /\ UNCHANGED <<clock, report, request, events, pending, reference, due, used>>

-----------------------------------------------------------------------------
Supervised == ReportCheckpoint \/ SendEmplace \/ EndsHoldingMutex

Requesting == (\E type \in EventType : StampRequest(type)) \/ QueueSupervisionEvent

Monitoring == TakeSync \/ DistributeChanges \/ PerformCyclicTriggers

AliveNext == TimeGoesOn \/ Supervised \/ Requesting \/ Monitoring

AliveSpec == AliveInit /\ [][AliveNext]_aliveVars

-----------------------------------------------------------------------------
\* Every cycle of the monitor thread ends in the status that supervising the process
\* without a break up to the sync timestamp would have reached: reading two rings once
\* per cycle, sorting, carrying an event over to the next cycle and evaluating several
\* reference cycles at once change nothing, as long as no stamp was written late and
\* none was lost (Alive.cpp, MonitorIfDaemon.cpp, ObservableEventReader.cpp).
PollingIsExact ==
  exact /\ monitor.pc = "asleep" => alive.status = due

\* A supervision whose checkpoint ring has lost data is never seen as working again, not
\* after a restart of the process either (MonitorIfDaemon::handleOverflow and
\* checkForNewData).
BrokenChannelIsNotAlive ==
  monitor.pc = "asleep" /\ interface.status = "InactiveOverflow" => ~Supervising(alive)

\* What evaluate() asserts: no element of the buffer is later than the sync timestamp it
\* is evaluated with, the event that was carried over from the last cycle included
\* (Alive.cpp:116).
NothingBeyondSync ==
  monitor.pc = "checking" => \A k \in DOMAIN alive.buffer : alive.buffer[k].at <= monitor.sync
=================================================================================
