--------------------------- MODULE ProcessInfoNode ---------------------------
(***************************************************************************)
(* One process component of the Launch Manager: class ProcessInfoNode with *)
(* the launcher, the process map and the termination waiter it uses.       *)
(*                                                                         *)
(* Three threads meet in a component.  "worker" executes activate() and    *)
(* deactivate() for the graph.  "main" executes deactivate() when it       *)
(* handles an UnexpectedTermination.  "os" is the OsHandler thread, which  *)
(* reaps dead processes and executes tryHandleTermination() for them; the  *)
(* worker executes it itself for a process that died before it was entered *)
(* into the map.  pc is where a thread is; setState() reads process_state_ *)
(* in one step (LoadState) and writes it in the next, because other        *)
(* threads may change the state in between.                                *)
(*                                                                         *)
(* Every timed wait may end by timeout at any moment, a process may exit   *)
(* at any moment with any status, and the kernel may reuse a process id    *)
(* once it has been reaped.                                                *)
(*                                                                         *)
(* Nothing in the code makes a worker wait for an OsHandler that is still  *)
(* inside tryHandleTermination() for an earlier process of the component.  *)
(* Overtaking = FALSE assumes that the OsHandler is done when the worker   *)
(* begins another attempt or ends its task; the steps within an attempt    *)
(* interleave freely with it.                                              *)
(***************************************************************************)
EXTENDS Integers, FiniteSets

CONSTANTS
  Pid,        \* process ids
  NoPid,      \* pid_ = 0
  Profiles,   \* the component configurations to consider
  Retries,    \* start_retries_
  Overtaking  \* can a worker get ahead of the OsHandler?

ASSUME ConstantsAssumption ==
  /\ NoPid \notin Pid
  /\ Profiles \subseteq [reporting : BOOLEAN, selfTerminating : BOOLEAN,
                         ready : {"Running", "Terminated", "File"}]
  /\ Retries \in Nat /\ Overtaking \in BOOLEAN

VARIABLES
  profile,    \* the configuration of the component
  node,       \* the members of the ProcessInfoNode and of its TerminationWaiter
  pc,         \* what a thread executes next
  old,        \* the state a thread has read in setState(), or "none"
  task,       \* the worker's task and the attempts of its startProcess()
  reaped,     \* whose termination a thread is handling
  os,         \* the processes of the operating system
  map,        \* SafeProcessMap
  ipc,        \* send_sync_, what the process has reported and whether a report is late
  events      \* UnexpectedTermination events in the queue

vars == <<profile, node, pc, old, task, reaped, os, map, ipc, events>>

Thread == {"worker", "main", "os"}

None == "none"
Nobody == [pid |-> NoPid, ok |-> TRUE]
NoTask == [type |-> None, attempts |-> 0]

\* enum ProcessState, in its order.
Rank == [kIdle |-> 0, kStarting |-> 1, kRunning |-> 2, kTerminating |-> 3,
         kTerminated |-> 4, kFailed |-> 5]

Init ==
  /\ profile \in Profiles
  /\ node = [state |-> "kIdle",       \* process_state_
             returned |-> FALSE,      \* success_returned_
             ready |-> FALSE,         \* reached_ready_
             requested |-> FALSE,     \* termination_requested_
             result |-> None,         \* termination_result_
             exitOk |-> TRUE,         \* exit_status_ == 0
             terminated |-> FALSE,    \* is_terminated_
             pid |-> NoPid]           \* pid_
  /\ pc = [t \in Thread |-> "idle"]
  /\ old = [t \in Thread |-> None]
  /\ task = NoTask
  /\ reaped = [t \in Thread |-> Nobody]
  /\ os = [p \in Pid |-> "gone"]
  /\ map = [p \in Pid |-> None]
  /\ ipc = [posts |-> 0, report |-> None, late |-> FALSE]
  /\ events = 0

-----------------------------------------------------------------------------
(* setState().                                                              *)

Goto(t, from, to) ==
  /\ pc[t] = from
  /\ pc' = [pc EXCEPT ![t] = to]

\* The places from which setState() is called, and its argument.
SetStateAt ==
  [setIdle |-> "kIdle", setStarting |-> "kStarting", setRunning |-> "kRunning",
   setFailed |-> "kFailed", setTerminating |-> "kTerminating",
   setTerminatedAsked |-> "kTerminated", setTerminated |-> "kTerminated",
   setIdleAgain |-> "kIdle"]

LoadState(t) ==
  /\ pc[t] \in DOMAIN SetStateAt
  /\ old[t] = None
  /\ old' = [old EXCEPT ![t] = node.state]
  /\ UNCHANGED <<profile, node, pc, task, reaped, os, map, ipc, events>>

\* What setState(new) makes of the state s, having read r: a later state is
\* exchanged for r, kIdle is stored over a final one.
Written(new, r, s) ==
  LET exchange == Rank[new] > Rank[r] \/ (new = "kIdle" /\ r = "kIdle")
      store    == new = "kIdle" /\ r \in {"kTerminated", "kFailed"}
  IN  (exchange /\ s = r) \/ (~exchange /\ store)

\* The caller goes on at yes if the state was written and at no if it was not.
SetState(t, from, yes, no) ==
  LET done == Written(SetStateAt[from], old[t], node.state) IN
  /\ old[t] # None
  /\ Goto(t, from, IF done THEN yes ELSE no)
  /\ old' = [old EXCEPT ![t] = None]
  /\ node' = IF done THEN [node EXCEPT !.state = SetStateAt[from]] ELSE node
  /\ UNCHANGED <<profile, task, reaped, os, map, ipc, events>>

\* A step that changes the component only.
Update(t, from, to, new) ==
  /\ Goto(t, from, to)
  /\ node' = new
  /\ UNCHANGED <<profile, old, task, reaped, os, map, ipc, events>>

\* A step that changes nothing but the control.
Branch(t, from, to) == Update(t, from, to, node)

\* tryReportSuccess(), in a component n.
ReportedSuccess(n) ==
  [n EXCEPT !.returned = TRUE, !.ready = n.ready \/ ~n.returned]

-----------------------------------------------------------------------------
(* The worker: activate().                                                  *)

CaughtUp == Overtaking \/ pc["os"] = "idle"

\* A task of the graph.  The main thread dispatches it: it is not busy, and it has
\* handled the events that precede the completion of the last task.
BeginActivate ==
  /\ ~node.ready /\ pc["main"] = "idle" /\ events = 0
  /\ Goto("worker", "idle", "loadReady")
  /\ node' = [node EXCEPT !.returned = FALSE]
  /\ task' = [type |-> "activate", attempts |-> 0]
  /\ UNCHANGED <<profile, old, reaped, os, map, ipc, events>>

\* A component that became active meanwhile has nothing to do.
LoadReady == Branch("worker", "loadReady", IF node.ready THEN "reportSuccess" ELSE "setIdle")

\* startProcess(): a new attempt forgets the previous one.
ResetAttempt ==
  /\ CaughtUp
  /\ Update("worker", "resetAttempt", "setStarting",
            [node EXCEPT !.pid = NoPid, !.exitOk = TRUE, !.result = None, !.terminated = FALSE])

LaunchFails == Branch("worker", "launch", "setFailed")

Launch(p) ==
  /\ os[p] = "gone"
  /\ Goto("worker", "launch", "insert")
  /\ os' = [os EXCEPT ![p] = "alive"]
  /\ node' = [node EXCEPT !.pid = p]
  /\ ipc' = [posts |-> 0, report |-> None, late |-> FALSE]
  /\ UNCHANGED <<profile, old, task, reaped, map, events>>

\* What the worker waits for first: the report of a reporting process, unless
\* the ready condition is a file, and then what the condition says.
FirstWait ==
  IF profile.ready = "File" THEN "waitFile"
  ELSE IF profile.reporting THEN "waitReport"
  ELSE IF profile.ready = "Terminated" THEN "waitTerminated" ELSE "checkExit"

\* insertIfNotTerminated(): kOk.
InsertProcess ==
  /\ Goto("worker", "insert", FirstWait)
  /\ map[node.pid] = None
  /\ map' = [map EXCEPT ![node.pid] = "component"]
  /\ UNCHANGED <<profile, node, old, task, reaped, os, ipc, events>>

\* insertIfNotTerminated(): kYield, the process has already been reaped and the
\* worker handles its termination.
InsertTerminated ==
  /\ Goto("worker", "insert", "storeStatus")
  /\ map[node.pid] \in {"ok", "failed"}
  /\ reaped' = [reaped EXCEPT !["worker"] = [pid |-> node.pid, ok |-> map[node.pid] = "ok"]]
  /\ map' = [map EXCEPT ![node.pid] = None]
  /\ UNCHANGED <<profile, node, old, task, os, ipc, events>>

\* Mutant: one token is enough.
AwaitOneToken ==
  /\ ipc.posts > 0
  /\ Goto("worker", "waitReport", "checkExit")
  /\ ipc' = [ipc EXCEPT !.posts = 0]
  /\ UNCHANGED <<profile, node, old, task, reaped, os, map, events>>

\* waitForkRunning(): the first token is taken for the report and replied to,
\* the second for the acknowledgement; then the semaphores are destroyed.
AwaitReport ==
  /\ ipc.posts > 0
  /\ Goto("worker", "waitReport", "waitAck")
  /\ ipc' = [ipc EXCEPT !.posts = @ - 1]
  /\ UNCHANGED <<profile, node, old, task, reaped, os, map, events>>

AwaitAck ==
  /\ ipc.posts > 0
  /\ Goto("worker", "waitAck",
          IF profile.ready = "Terminated" THEN "waitTerminated" ELSE "checkExit")
  /\ ipc' = [ipc EXCEPT !.posts = 0]
  /\ UNCHANGED <<profile, node, old, task, reaped, os, map, events>>

AwaitTerminated == node.terminated /\ Branch("worker", "waitTerminated", "checkExit")

\* waitForFile(): the file reaches its state, whatever the process does.
AwaitFile == Branch("worker", "waitFile", "checkExit")

\* No report within the ready timeout: kTimeout is not kFail, so waitForkRunning() replies
\* and waits once more, and a token that comes now makes it succeed.
ReportTimeout ==
  /\ ipc.posts = 0
  /\ Goto("worker", "waitReport", "waitAck")
  /\ ipc' = [ipc EXCEPT !.late = TRUE]
  /\ UNCHANGED <<profile, node, old, task, reaped, os, map, events>>

\* A wait for the ready condition ends by timeout.
ReadyTimeout ==
  /\ \/ pc["worker"] = "waitAck" /\ ipc.posts = 0
     \/ pc["worker"] = "waitTerminated" /\ ~node.terminated
     \/ pc["worker"] = "waitFile"
  /\ Branch("worker", pc["worker"], "notReady")

CheckExit == Branch("worker", "checkExit", IF node.exitOk THEN "setRunning" ELSE "notReady")

\* Mutant: the process is given up and left running.
GiveUp == Branch("worker", "notReady", IF node.state = "kTerminated" THEN "retry" ELSE "setFailed")

\* The ready condition was not met: terminate the process unless it is dead.
NotReady ==
  Branch("worker", "notReady", IF node.state = "kTerminated" THEN "retry" ELSE "setTerminating")

Retry ==
  LET again == task.attempts < Retries IN
  /\ Goto("worker", "retry", IF again THEN "setIdle" ELSE "reportError")
  /\ task' = [task EXCEPT !.attempts = IF again THEN @ + 1 ELSE @]
  /\ UNCHANGED <<profile, node, old, reaped, os, map, ipc, events>>

\* tryReportCompletion(kRunning).
ReportRunning ==
  IF profile.ready = "Terminated"
  THEN Branch("worker", "reportRunning", "failed")
  ELSE Update("worker", "reportRunning", IF node.returned THEN "failed" ELSE "succeeded",
              ReportedSuccess(node))

\* setState(kRunning) failed: the process terminated after it was ready.
ReportTerminated ==
  Branch("worker", "reportTerminated",
         IF node.result = "kIgnore" THEN "reportSuccess" ELSE "reportError")

TryReportSuccess ==
  Update("worker", "reportSuccess", IF node.returned THEN "failed" ELSE "succeeded",
         ReportedSuccess(node))

TryReportError == Update("worker", "reportError", "failed", [node EXCEPT !.returned = TRUE])

\* doWork(): the completion event is pushed and the worker takes its next task.
CompleteTask ==
  /\ CaughtUp
  /\ pc["worker"] \in {"succeeded", "failed", "deactivated"}
  /\ Goto("worker", pc["worker"], "idle")
  /\ task' = NoTask
  /\ ipc' = [posts |-> 0, report |-> None, late |-> FALSE]
  /\ UNCHANGED <<profile, node, old, reaped, os, map, events>>

-----------------------------------------------------------------------------
(* deactivate(), by the worker or by the main thread.                       *)

StartDeactivating(t) ==
  /\ Goto(t, "idle", "setTerminating")
  /\ node' = [node EXCEPT !.returned = FALSE, !.ready = FALSE]
  /\ UNCHANGED <<profile, old, reaped, os, map, ipc>>

\* A task of the graph.
BeginDeactivate ==
  /\ node.ready /\ pc["main"] = "idle"
  /\ StartDeactivating("worker")
  /\ task' = [type |-> "deactivate", attempts |-> 0]
  /\ UNCHANGED events

\* The main thread takes an UnexpectedTermination from the queue.
HandleUnexpectedTermination ==
  /\ events > 0
  /\ StartDeactivating("main")
  /\ events' = events - 1
  /\ UNCHANGED task

\* Where terminateProcess() returns to.
AfterTermination(t) ==
  IF t = "worker" /\ task.type = "activate" THEN "retry" ELSE "setIdleAgain"

\* What deactivate() ends with.
Deactivated(t) == IF t = "worker" THEN "deactivated" ELSE "idle"

RequestTermination(t) == Update(t, "request", "sigterm", [node EXCEPT !.requested = TRUE])

\* kill() reaches a process until it has been reaped.
Exists(p) == p \in Pid /\ os[p] # "gone"

\* Mutant: the termination is requested and not awaited.
SigTermAndGo(t) == Branch(t, "sigterm", "release")

\* requestTermination(): SIGTERM asks the process to exit.
SigTerm(t) == Branch(t, "sigterm", IF Exists(node.pid) THEN "await" ELSE "release")

AwaitTermination(t) ==
  /\ pc[t] \in {"await", "awaitKilled"} /\ node.terminated
  /\ Branch(t, pc[t], "release")

\* Mutant: the wait for a process to obey SIGTERM has no limit.
KillTimeoutOnly(t) ==
  /\ pc[t] = "awaitKilled" /\ ~node.terminated
  /\ Branch(t, pc[t], "sigkill")

TerminationTimeout(t) ==
  /\ pc[t] \in {"await", "awaitKilled"} /\ ~node.terminated
  /\ Branch(t, pc[t], "sigkill")

\* forceTermination(): SIGKILL ends the process.
SigKill(t) ==
  /\ Goto(t, "sigkill", IF Exists(node.pid) THEN "awaitKilled" ELSE "release")
  /\ os' = [p \in Pid |-> IF p = node.pid /\ os[p] = "alive" THEN "failed" ELSE os[p]]
  /\ UNCHANGED <<profile, node, old, task, reaped, map, ipc, events>>

Release(t) == Update(t, "release", AfterTermination(t), [node EXCEPT !.requested = FALSE])

-----------------------------------------------------------------------------
(* The process, the OsHandler thread and tryHandleTermination().            *)

Exit(p, how) ==
  /\ os[p] = "alive"
  /\ os' = [os EXCEPT ![p] = how]
  /\ UNCHANGED <<profile, node, pc, old, task, reaped, map, ipc, events>>

\* reportKRunningtoDaemon(): the report, and the acknowledgement of the reply.
ReportKRunning ==
  /\ profile.reporting /\ Exists(node.pid) /\ os[node.pid] = "alive"
  /\ \/ ipc.report = None /\ pc["worker"] \in {"insert", "waitReport", "waitAck"}
        /\ ipc' = [ipc EXCEPT !.posts = @ + 1, !.report = "reported"]
     \/ ipc.report = "reported" /\ pc["worker"] = "waitAck"
        /\ ipc' = [ipc EXCEPT !.posts = @ + 1, !.report = "acknowledged"]
  /\ UNCHANGED <<profile, node, pc, old, task, reaped, os, map, events>>

\* OsHandler::run(): wait() returns.
Reap(p) ==
  /\ os[p] \in {"ok", "failed"}
  /\ Goto("os", "idle", "find")
  /\ os' = [os EXCEPT ![p] = "gone"]
  /\ reaped' = [reaped EXCEPT !["os"] = [pid |-> p, ok |-> os[p] = "ok"]]
  /\ UNCHANGED <<profile, node, old, task, map, ipc, events>>

\* Mutant: the entry stays in the map.
FindAndKeep ==
  /\ Goto("os", "find", "storeStatus")
  /\ map[reaped["os"].pid] = "component"
  /\ UNCHANGED <<profile, node, old, task, reaped, os, map, ipc, events>>

\* findTerminated(): the process is in the map and the termination is handed
\* to its component ...
FindComponent ==
  LET p == reaped["os"].pid IN
  /\ Goto("os", "find", "storeStatus")
  /\ map[p] = "component"
  /\ map' = [map EXCEPT ![p] = None]
  /\ UNCHANGED <<profile, node, old, task, reaped, os, ipc, events>>

\* ... or it is not, and the status is left for the worker that will enter it.
LeaveStatus ==
  LET r == reaped["os"] IN
  /\ Goto("os", "find", "idle")
  /\ map[r.pid] = None
  /\ map' = [map EXCEPT ![r.pid] = IF r.ok THEN "ok" ELSE "failed"]
  /\ reaped' = [reaped EXCEPT !["os"] = Nobody]
  /\ UNCHANGED <<profile, node, old, task, os, ipc, events>>

StoreStatus(t) ==
  LET ok == reaped[t].ok IN
  Update(t, "storeStatus", "classify",
         [node EXCEPT !.exitOk = ok,
                      !.result = IF profile.selfTerminating /\ ok THEN "kIgnore" ELSE "kFailure"])

\* termination_requested_.exchange(false).
Classify(t) ==
  Update(t, "classify", IF node.requested THEN "setTerminatedAsked" ELSE "stillStarting",
         [node EXCEPT !.requested = FALSE])

\* compare_exchange(kStarting, kTerminated).
StillStarting(t) ==
  LET starting == node.state = "kStarting" IN
  Update(t, "stillStarting", IF starting THEN "unblock" ELSE "setTerminated",
         [node EXCEPT !.state = IF starting THEN "kTerminated" ELSE @])

\* unblockSync(): of use only while the worker waits for the report.
UnblockSync(t) ==
  /\ Goto(t, "unblock", "signal")
  /\ ipc' = [ipc EXCEPT !.posts =
               IF profile.reporting /\ pc["worker"] \in {"insert", "waitReport", "waitAck"}
               THEN @ + 1 ELSE @]
  /\ UNCHANGED <<profile, node, old, task, reaped, os, map, events>>

\* Mutant: an exit status of zero is always acceptable.
JudgeByStatus(t) ==
  Update(t, "judge", IF node.exitOk THEN "signal" ELSE "signalFailure", node)

\* A termination during normal execution: an accepted one may be what the ready
\* condition asks for, any other is an unexpected termination.
JudgeTermination(t) ==
  Update(t, "judge", IF node.result = "kFailure" THEN "signalFailure" ELSE "signal",
         IF node.result = "kIgnore" /\ profile.ready = "Terminated"
         THEN ReportedSuccess(node) ELSE node)

\* TerminationWaiter::terminated(), and the event that ProcessMonitor pushes.
SignalTerminated(t) ==
  /\ pc[t] \in {"signal", "signalFailure"}
  /\ Goto(t, pc[t], IF t = "os" THEN "idle"
                    ELSE IF profile.reporting THEN "retry" ELSE "setRunning")
  /\ node' = [node EXCEPT !.terminated = TRUE]
  /\ reaped' = [reaped EXCEPT ![t] = Nobody]
  /\ events' = IF pc[t] = "signalFailure" THEN events + 1 ELSE events
  /\ UNCHANGED <<profile, old, task, os, map, ipc>>

-----------------------------------------------------------------------------
StartProcess ==
  \/ SetState("worker", "setIdle", "resetAttempt", "reportError")
  \/ SetState("worker", "setStarting", "launch", "launch")
  \/ SetState("worker", "setFailed", "reportError", "reportError")
  \/ SetState("worker", "setRunning", "reportRunning", "reportTerminated")
  \/ LoadReady \/ ResetAttempt \/ LaunchFails \/ \E p \in Pid : Launch(p)
  \/ InsertProcess \/ InsertTerminated
  \/ AwaitReport \/ ReportTimeout \/ AwaitAck \/ AwaitTerminated \/ AwaitFile \/ ReadyTimeout
  \/ CheckExit \/ NotReady \/ Retry
  \/ ReportRunning \/ ReportTerminated \/ TryReportSuccess \/ TryReportError

TerminateProcess(t) ==
  \/ SetState(t, "setTerminating", "request", AfterTermination(t))
  \/ SetState(t, "setIdleAgain", Deactivated(t), Deactivated(t))
  \/ RequestTermination(t) \/ SigTerm(t) \/ AwaitTermination(t) \/ TerminationTimeout(t)
  \/ SigKill(t) \/ Release(t)

TryHandleTermination(t) ==
  \/ StoreStatus(t) \/ Classify(t) \/ StillStarting(t) \/ UnblockSync(t)
  \/ SetState(t, "setTerminatedAsked", "unblock", "unblock")
  \/ SetState(t, "setTerminated", "judge", "judge")
  \/ JudgeTermination(t) \/ SignalTerminated(t)

Worker == LoadState("worker") \/ StartProcess \/ TerminateProcess("worker")
          \/ TryHandleTermination("worker") \/ CompleteTask
Main == LoadState("main") \/ TerminateProcess("main")
OsHandler == (\E p \in Pid : Reap(p)) \/ FindComponent \/ LeaveStatus
             \/ LoadState("os") \/ TryHandleTermination("os")
Process == ReportKRunning \/ \E p \in Pid, how \in {"ok", "failed"} : Exit(p, how)

Next == Worker \/ Main \/ OsHandler \/ Process
        \/ BeginActivate \/ BeginDeactivate \/ HandleUnexpectedTermination

\* Threads are scheduled; a process need not ever report or exit by itself.
Fairness ==
  /\ WF_vars(Worker) /\ WF_vars(Main) /\ WF_vars(OsHandler)
  /\ WF_vars(HandleUnexpectedTermination)

Spec == Init /\ [][Next]_vars /\ Fairness

-----------------------------------------------------------------------------
(* Properties.                                                              *)

Alive == {p \in Pid : os[p] = "alive"}

\* startProcess() never launches a second process of the component while one is
\* alive, however activations, deactivations by two threads, timeouts and exits
\* follow each other.
OneInstance == Cardinality(Alive) <= 1

\* When deactivate() returns to the graph, or activate() reports a failure, no
\* process of the component is left running.
NothingLeftRunning == pc["worker"] \in {"deactivated", "failed"} => Alive = {}

\* A component whose reporting process has to report kRunning is not activated
\* before the process has reported: tokens that unblockSync() posts are not
\* mistaken for the report.  The exception is a process that ends well after the
\* ready timeout, while waitForkRunning() waits once more.
ActivatedHasReported ==
  (pc["worker"] = "succeeded" /\ profile.reporting /\ profile.ready # "File")
    => ipc.report # None \/ (ipc.late /\ node.exitOk /\ Alive = {})

\* When a process is entered into the map no other entry of the component is left
\* there.  So a map with one item per component is never full and
\* insertIfNotTerminated() never fails.
RoomInMap ==
  pc["worker"] = "insert" => \A p \in Pid : map[p] # None => p = node.pid

\* activate() and deactivate() return, even if the process neither reports nor
\* obeys SIGTERM: SIGKILL, the OsHandler and the timeouts see to it.
TaskEnds == pc["worker"] # "idle" ~> pc["worker"] = "idle"

\* A process that may not terminate by itself and dies after its activation has
\* been completed is noticed: its termination reaches the component, and the
\* UnexpectedTermination the main thread, which deactivates it.
CrashIsNoticed ==
  (/\ node.ready /\ ~profile.selfTerminating
   /\ pc["worker"] = "idle" /\ pc["main"] = "idle"
   /\ \E p \in Pid : os[p] \in {"ok", "failed"})
     ~> ~node.ready

\* kTerminating is a passing state: once no thread works on the component, no
\* event is waiting and no process exists, its state is another one, for
\* startProcess() takes kTerminating for a termination in progress and fails.
TerminatingIsInProgress ==
  ((\A t \in Thread : pc[t] = "idle") /\ events = 0 /\ \A p \in Pid : os[p] = "gone")
    => node.state # "kTerminating"
=============================================================================
