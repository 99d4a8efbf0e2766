------------------------------ MODULE MainLoop ------------------------------
(***************************************************************************)
(* The main thread of the Launch Manager from run() to its end, with the   *)
(* bounded queue of component events that other threads fill and the       *)
(* watchdog it services.  What an event does to the graph is modelled by   *)
(* ProcessGroupManager, which takes the queue to have room; here events are *)
(* only counted, and the question is what happens when one is lost.        *)
(*                                                                          *)
(* A sender holds the mutex of the queue while it stores an event; when     *)
(* there is no room it sets the overflow flag after it has released it.     *)
(***************************************************************************)
EXTENDS Watchdog

CONSTANTS
  Sender,         \* threads that push events: workers, OsHandler, alive monitor
  EventCapacity,  \* of the queue: three events for each component
  MaxEvents       \* bound: events a sender pushes

VARIABLES
  mainAt,          \* where the main thread is
  emCancelled,     \* em_cancelled
  eventCount,      \* events in the queue
  queueStopped,    \* stopped_ of the queue
  overflow,        \* overflow_
  overflowLogged,  \* overflow_logged of run()
  dropping,        \* senders between a refused push and setting the flag
  sent,            \* history: pushes by each sender
  eventLost        \* history: an event was refused for want of room

queueOfEventsVars == <<eventCount, queueStopped, overflow, dropping, sent, eventLost>>
loopVars == <<mainAt, emCancelled, overflowLogged, queueOfEventsVars, watchdogVars>>

MainLoopInit ==
  /\ WatchdogInit
  /\ mainAt = "initialize"
  /\ emCancelled = FALSE
  /\ eventCount = 0
  /\ queueStopped = FALSE
  /\ overflow = FALSE
  /\ overflowLogged = FALSE
  /\ dropping = {}
  /\ sent = [s \in Sender |-> 0]
  /\ eventLost = FALSE

-----------------------------------------------------------------------------
(* The other threads.                                                       *)

\* The threads are started by createProcessComponentsObjects() and joined by
\* deinitialize().
SendersRun == mainAt \notin {"initialize", "exited"} /\ ~machineReset

HasRoom == eventCount < EventCapacity

\* ComponentEventQueue::push() as far as it holds the mutex of the queue.
PushEvent(s) ==
  /\ SendersRun /\ s \notin dropping
  /\ sent[s] < MaxEvents
  /\ sent' = [sent EXCEPT ![s] = @ + 1]
  /\ \/ queueStopped /\ UNCHANGED <<eventCount, dropping, eventLost>>
     \/ /\ ~queueStopped /\ HasRoom
        /\ eventCount' = eventCount + 1
        /\ UNCHANGED <<dropping, eventLost>>
     \/ /\ ~queueStopped /\ ~HasRoom
        /\ dropping' = dropping \cup {s}
        /\ eventLost' = TRUE
        /\ UNCHANGED eventCount
  /\ UNCHANGED <<mainAt, emCancelled, overflowLogged, queueStopped, overflow,
                 watchdogVars>>

\* The flag, after the mutex is released.
StoreOverflow(s) ==
  /\ SendersRun /\ s \in dropping
  /\ overflow' = TRUE
  /\ dropping' = dropping \ {s}
  /\ UNCHANGED <<mainAt, emCancelled, overflowLogged, eventCount, queueStopped, sent,
                 eventLost, watchdogVars>>

\* A signal arrives; installing the handler is the first thing initialize() does.
SignalHandler ==
  /\ mainAt \notin {"initialize", "exited"} /\ ~machineReset
  /\ ~emCancelled
  /\ emCancelled' = TRUE
  /\ UNCHANGED <<mainAt, overflowLogged, queueOfEventsVars, watchdogVars>>

-----------------------------------------------------------------------------
(* The main thread: start.                                                  *)

\* initialize() up to the watchdog: too many processes or an alive monitor that
\* fails leave the queue and the threads uncreated, and deinitialize() follows.
Initialize ==
  /\ mainAt = "initialize"
  /\ mainAt' \in {"exited", "configure"}
  /\ UNCHANGED <<emCancelled, overflowLogged, queueOfEventsVars, watchdogVars>>

\* The watchdog is initialized and enabled when there is a configuration.
InitializeWatchdog ==
  /\ mainAt = "configure"
  /\ IF watchdogConfig = NoConfig
       THEN mainAt' = "provide" /\ UNCHANGED watchdogVars
       ELSE \E ok \in BOOLEAN :
              /\ WatchdogConfigure(ok)
              /\ mainAt' = IF ok THEN "enable" ELSE "disable"
  /\ UNCHANGED <<emCancelled, overflowLogged, queueOfEventsVars>>

EnableWatchdog ==
  /\ mainAt = "enable"
  /\ \E ok \in BOOLEAN :
       /\ WatchdogEnable(ok)
       /\ mainAt' = IF ok THEN "provide" ELSE "disable"
  /\ UNCHANGED <<emCancelled, overflowLogged, queueOfEventsVars>>

\* run(): the control provider may fail; otherwise the initial transition starts.
CreateProvider ==
  /\ mainAt = "provide"
  /\ mainAt' \in {"disable", "cycle"}
  /\ UNCHANGED <<emCancelled, overflowLogged, queueOfEventsVars, watchdogVars>>

-----------------------------------------------------------------------------
(* The main thread: the loop of ProcessGroupManager::run().                 *)

\* tryPop().
TakeEvent == eventCount > 0 /\ eventCount' = eventCount - 1

BeginCycle ==
  /\ mainAt = "cycle"
  /\ mainAt' = IF emCancelled THEN "off" ELSE "wait"
  /\ UNCHANGED <<emCancelled, overflowLogged, queueOfEventsVars, watchdogVars>>

\* Mutant: the overflow is only looked at when there were events.
WaitOrService ==
  /\ mainAt = "wait"
  /\ mainAt' = IF eventCount > 0 THEN "drain" ELSE "service"
  /\ UNCHANGED <<emCancelled, overflowLogged, queueOfEventsVars, watchdogVars>>

\* waitForEvents(): there is an event, or the wait times out.
WaitForEvents ==
  /\ mainAt = "wait"
  /\ mainAt' = IF eventCount > 0 THEN "drain" ELSE "check"
  /\ UNCHANGED <<emCancelled, overflowLogged, queueOfEventsVars, watchdogVars>>

\* processComponentEvents(): one event, until there is none.
ProcessComponentEvents ==
  /\ mainAt = "drain"
  /\ \/ TakeEvent /\ UNCHANGED mainAt
     \/ eventCount = 0 /\ mainAt' = "check" /\ UNCHANGED eventCount
  /\ UNCHANGED <<emCancelled, overflowLogged, queueStopped, overflow, dropping, sent,
                 eventLost, watchdogVars>>

\* The reaction to an overflow: the first time it is seen the watchdog is fired, and
\* the main thread stays in waitForever() if there is a device.
CheckOverflow ==
  /\ mainAt = "check"
  /\ overflowLogged' = (overflowLogged \/ overflow)
  /\ IF overflow /\ ~overflowLogged /\ watchdogState = "activated"
       THEN FireWatchdogReaction /\ mainAt' = "forever"
       ELSE mainAt' = "service" /\ UNCHANGED watchdogVars
  /\ UNCHANGED <<emCancelled, queueOfEventsVars>>

\* The end of a cycle, after processGroupHandler().
ServiceAndRepeat ==
  /\ mainAt = "service"
  /\ ServiceWatchdog
  /\ mainAt' = "cycle"
  /\ UNCHANGED <<emCancelled, overflowLogged, queueOfEventsVars>>

-----------------------------------------------------------------------------
(* The main thread: end.                                                    *)

\* allProcessGroupsOff(): events are consumed until the graph has settled or time
\* is up.  The watchdog is not serviced.
AllProcessGroupsOff ==
  /\ mainAt = "off"
  /\ \/ TakeEvent /\ UNCHANGED mainAt
     \/ mainAt' = "disable" /\ UNCHANGED eventCount
  /\ UNCHANGED <<emCancelled, overflowLogged, queueStopped, overflow, dropping, sent,
                 eventLost, watchdogVars>>

\* deinitialize(): the watchdog first, then the queue is stopped, then the threads
\* are joined.
DisableWatchdog ==
  /\ mainAt = "disable"
  /\ WatchdogDisable
  /\ mainAt' = "stop"
  /\ UNCHANGED <<emCancelled, overflowLogged, queueOfEventsVars>>

StopEventQueue ==
  /\ mainAt = "stop"
  /\ queueStopped' = TRUE
  /\ mainAt' = "join"
  /\ UNCHANGED <<emCancelled, overflowLogged, eventCount, overflow, dropping, sent,
                 eventLost, watchdogVars>>

\* A thread is joined when it has left push().
JoinThreads ==
  /\ mainAt = "join"
  /\ dropping = {}
  /\ mainAt' = "exited"
  /\ UNCHANGED <<emCancelled, overflowLogged, queueOfEventsVars, watchdogVars>>

MainThread ==
  /\ ~machineReset
  /\ \/ Initialize \/ InitializeWatchdog \/ EnableWatchdog \/ CreateProvider
     \/ BeginCycle \/ WaitForEvents \/ ProcessComponentEvents \/ CheckOverflow
     \/ ServiceAndRepeat
     \/ AllProcessGroupsOff \/ DisableWatchdog \/ StopEventQueue \/ JoinThreads

DeviceStep ==
  Elapse /\ UNCHANGED <<mainAt, emCancelled, overflowLogged, queueOfEventsVars>>

MainLoopNext ==
  \/ MainThread
  \/ \E s \in Sender : PushEvent(s) \/ StoreOverflow(s)
  \/ SignalHandler
  \/ DeviceStep

-----------------------------------------------------------------------------

InLoop == mainAt \in {"cycle", "wait", "drain", "check", "service"}

\* Once the loop runs with an active watchdog, an event that was refused ends in a
\* reset of the machine, unless the Launch Manager is told to end.  The flag may be
\* set after the queue was emptied again, and no further event may ever come (the
\* loop of run() and ComponentEventQueue::push()).
LostEventResets ==
  (eventLost /\ InLoop /\ watchdogState = "activated") ~> (machineReset \/ emCancelled)
=============================================================================
