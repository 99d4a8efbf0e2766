------------------------------- MODULE LmControl -------------------------------
(* The control client library (lm_control_impl.hpp) in a state manager, and the side *)
(* of the control provider (control_provider.hpp) it talks to.  Service discovery    *)
(* creates the proxy, subscribes to activation results and sends the registration of *)
(* its receive handler.  The application registers a callback, waits for the         *)
(* connection and calls the Launch Manager.  The Launch Manager handles the messages *)
(* of the client in order and sends an activation result whenever a run target has   *)
(* settled.  Dispatch threads of mw::com run the receive handler, also several at    *)
(* once; it reads the stored results in batches and forwards them to the callback,   *)
(* which may call back into the library.                                             *)
EXTENDS Integers, Sequences

CONSTANTS
  App,            \* the thread of the application
  Dispatcher,     \* the threads of mw::com that run the receive handler
  Discovery,      \* the thread of mw::com that runs onServiceFound()
  NoThread,
  SampleCount,    \* kActivationResultSampleCount
  MaxResults      \* bound: activation results the Launch Manager sends

ASSUME LmControlAssumption ==
  /\ SampleCount \in Nat \ {0} /\ MaxResults \in Nat
  /\ App \notin Dispatcher /\ {Discovery, NoThread} \cap ({App} \cup Dispatcher) = {}
  /\ Discovery # NoThread

VARIABLES
  mutex,        \* owner of mutex_
  sampling,     \* owner of sample_processing_mutex_
  proxy,        \* proxy_ has a value
  callback,     \* callback_ is not empty
  thread,       \* where a thread is, and the batch of results it is forwarding
  link,         \* messages from the client to the Launch Manager, in order
  lm,           \* the Launch Manager: results sent, and whether it notifies the client
  store,        \* results that are sent and not read
  dispatch,     \* notifications no dispatch thread has taken yet
  seen,         \* history: results given to the callback, and results dropped
  history       \* history: what the application has done

lmControlVars == <<mutex, sampling, proxy, callback, thread, link, lm, store, dispatch,
                   seen, history>>

Thread == {App} \cup Dispatcher

At(pc) == [pc |-> pc, back |-> "idle", batch |-> <<>>, size |-> 0, copied |-> FALSE]

HandlerMessage == [kind |-> "handler", by |-> NoThread]

CallMessage(t) == [kind |-> "call", by |-> t]

LmControlInit ==
  /\ mutex = NoThread
  /\ sampling = NoThread
  /\ proxy = FALSE
  /\ callback = FALSE
  /\ thread = [t \in Thread |-> At("idle")]
  /\ link = <<>>
  /\ lm = [sent |-> 0, notifies |-> FALSE]
  /\ store = <<>>
  /\ dispatch = 0
  /\ seen = [given |-> <<>>, dropped |-> {}]
  /\ history = [confirmed |-> FALSE, drained |-> FALSE, registered |-> -1,
                failed |-> FALSE]

MoveTo(t, pc) == thread' = [thread EXCEPT ![t].pc = pc]

-----------------------------------------------------------------------------
(* Service discovery: onServiceFound() under mutex_.  A failed Create or Subscribe *)
(* leaves everything as it was.                                                    *)

ServiceFound ==
  /\ mutex = NoThread /\ ~proxy
  /\ thread[App].pc # "gone"
  /\ mutex' = Discovery
  /\ proxy' = TRUE
  /\ UNCHANGED <<sampling, callback, thread, link, lm, store, dispatch, seen, history>>

SetReceiveHandler ==
  /\ mutex = Discovery
  /\ link' = Append(link, HandlerMessage)
  /\ mutex' = NoThread
  /\ UNCHANGED <<sampling, proxy, callback, thread, lm, store, dispatch, seen, history>>

\* The proxy is reset and its subscription ends.
SetReceiveHandlerFails ==
  /\ mutex = Discovery
  /\ proxy' = FALSE
  /\ store' = <<>>
  /\ mutex' = NoThread
  /\ UNCHANGED <<sampling, callback, thread, link, lm, dispatch, seen, history>>

-----------------------------------------------------------------------------
(* The Launch Manager: ControlProvider::handleActivationResult and the handlers of *)
(* the methods.  A result that is sent before the registration of the receive      *)
(* handler is handled is stored without a notification.  One that cannot be        *)
(* allocated or sent is as if it had not been there.                               *)

SendResult ==
  /\ lm.sent < MaxResults
  /\ lm' = [lm EXCEPT !.sent = @ + 1]
  /\ store' = IF proxy THEN Append(store, lm.sent + 1) ELSE store
  /\ dispatch' = IF lm.notifies THEN dispatch + 1 ELSE dispatch
  /\ UNCHANGED <<mutex, sampling, proxy, callback, thread, link, seen, history>>

HandleMessage ==
  /\ link # <<>>
  /\ link' = Tail(link)
  /\ \/ /\ Head(link).kind = "handler"
        /\ lm' = [lm EXCEPT !.notifies = TRUE]
        /\ UNCHANGED <<thread, history>>
     \/ /\ Head(link).kind = "call"
        /\ LET t == Head(link).by
           IN  /\ thread' = [thread EXCEPT ![t].pc = IF @ = "confirming" THEN "idle"
                                                     ELSE thread[t].back]
               /\ history' = [history EXCEPT
                                !.confirmed = @ \/ thread[t].pc = "confirming"]
        /\ UNCHANGED lm
  /\ UNCHANGED <<mutex, sampling, proxy, callback, store, dispatch, seen>>

-----------------------------------------------------------------------------
(* The calls of the application, and of the callback it has registered *)

RegisterCallback ==
  /\ thread[App].pc = "idle"
  /\ callback' = TRUE
  /\ MoveTo(App, "registered")
  /\ UNCHANGED <<mutex, sampling, proxy, link, lm, store, dispatch, seen, history>>

\* register_run_target_activation_callback() has returned.
Registered == [history EXCEPT !.registered = IF @ = -1 THEN lm.sent ELSE @]

\* Results of before the registration are read now if there is a connection.
DrainIfConnected ==
  /\ thread[App].pc = "registered"
  /\ mutex = NoThread
  /\ MoveTo(App, IF proxy THEN "locking" ELSE "idle")
  /\ history' = IF proxy THEN history ELSE Registered
  /\ UNCHANGED <<mutex, sampling, proxy, callback, link, lm, store, dispatch, seen>>

WaitForConnection ==
  /\ thread[App].pc = "idle"
  /\ MoveTo(App, "waiting")
  /\ UNCHANGED <<mutex, sampling, proxy, callback, link, lm, store, dispatch, seen,
                 history>>

WaitTimesOut ==
  /\ thread[App].pc = "waiting"
  /\ mutex = NoThread /\ ~proxy
  /\ MoveTo(App, "idle")
  /\ UNCHANGED <<mutex, sampling, proxy, callback, link, lm, store, dispatch, seen,
                 history>>

\* Mutant: wait_for_connection() returns as soon as there is a proxy.
ConnectedUnconfirmed ==
  /\ thread[App].pc = "waiting"
  /\ mutex = NoThread /\ proxy
  /\ MoveTo(App, "idle")
  /\ history' = [history EXCEPT !.confirmed = TRUE]
  /\ UNCHANGED <<mutex, sampling, proxy, callback, link, lm, store, dispatch, seen>>

\* awaitNotificationRegistration(): the answer to a call shows that the registration
\* of the receive handler was handled before it.
Connected ==
  /\ thread[App].pc = "waiting"
  /\ mutex = NoThread /\ proxy
  /\ MoveTo(App, "confirming")
  /\ link' = Append(link, CallMessage(App))
  /\ UNCHANGED <<mutex, sampling, proxy, callback, lm, store, dispatch, seen, history>>

\* The method call cannot be made: wait_for_connection() succeeds unconfirmed.
ConfirmationFails ==
  /\ thread[App].pc = "waiting"
  /\ mutex = NoThread /\ proxy
  /\ MoveTo(App, "idle")
  /\ UNCHANGED <<mutex, sampling, proxy, callback, link, lm, store, dispatch, seen,
                 history>>

\* activate_run_target() and get_active_run_target()
Call ==
  /\ thread[App].pc = "idle"
  /\ MoveTo(App, "calling")
  /\ UNCHANGED <<mutex, sampling, proxy, callback, link, lm, store, dispatch, seen,
                 history>>

\* Without a proxy, or when the method call fails, the answer is kCommunicationError.
CallProxy(t) ==
  /\ thread[t].pc = "calling"
  /\ mutex = NoThread
  /\ \/ /\ proxy
        /\ MoveTo(t, "called")
        /\ link' = Append(link, CallMessage(t))
     \/ /\ MoveTo(t, thread[t].back)
        /\ UNCHANGED link
  /\ UNCHANGED <<mutex, sampling, proxy, callback, lm, store, dispatch, seen, history>>

\* The destructor: discovery has ended, no receive handler runs, none will be called.
Destroy ==
  /\ thread[App].pc = "idle"
  /\ mutex = NoThread
  /\ \A t \in Dispatcher : thread[t].pc = "idle"
  /\ MoveTo(App, "gone")
  /\ proxy' = FALSE
  /\ store' = <<>>
  /\ dispatch' = 0
  /\ lm' = [lm EXCEPT !.notifies = FALSE]
  /\ link' = <<>>
  /\ UNCHANGED <<mutex, sampling, callback, seen, history>>

-----------------------------------------------------------------------------
(* The receive handler: onActivationResult() and readActivationEvents(), run by a *)
(* dispatch thread, or by the application when it registers its callback          *)

TakeNotification(t) ==
  /\ t \in Dispatcher
  /\ thread[t].pc = "idle"
  /\ dispatch > 0
  /\ dispatch' = dispatch - 1
  /\ MoveTo(t, "locking")
  /\ UNCHANGED <<mutex, sampling, proxy, callback, link, lm, store, seen, history>>

\* The callback is copied once, at the beginning.
StartReading(t) ==
  thread' = [thread EXCEPT ![t] = [At("reading") EXCEPT !.back = "forwarding",
                                                        !.copied = callback]]

\* Mutant: the handler is not serialized against itself.
LockNothing(t) ==
  /\ thread[t].pc = "locking"
  /\ StartReading(t)
  /\ UNCHANGED <<mutex, sampling, proxy, callback, link, lm, store, dispatch, seen,
                 history>>

\* Mutant: the handler takes mutex_ as well.
LockBoth(t) ==
  /\ thread[t].pc = "locking"
  /\ sampling = NoThread /\ mutex = NoThread
  /\ sampling' = t /\ mutex' = t
  /\ StartReading(t)
  /\ UNCHANGED <<proxy, callback, link, lm, store, dispatch, seen, history>>

Lock(t) ==
  /\ thread[t].pc = "locking"
  /\ sampling = NoThread
  /\ sampling' = t
  /\ StartReading(t)
  /\ UNCHANGED <<mutex, proxy, callback, link, lm, store, dispatch, seen, history>>

\* GetNewSamples() hands out at most SampleCount results.
ReadBatch(t) ==
  LET size == IF Len(store) < SampleCount THEN Len(store) ELSE SampleCount
  IN  /\ thread[t].pc = "reading"
      /\ thread' = [thread EXCEPT ![t] = [@ EXCEPT !.pc = "forwarding", !.size = size,
                                                   !.batch = SubSeq(store, 1, size)]]
      /\ store' = SubSeq(store, size + 1, Len(store))
      /\ UNCHANGED <<mutex, sampling, proxy, callback, link, lm, dispatch, seen, history>>

\* What a thread does after it has unlocked sample_processing_mutex_.
Unlocked(t) ==
  /\ thread' = [thread EXCEPT ![t] = At("idle")]
  /\ sampling' = NoThread
  /\ UNCHANGED <<mutex, proxy, callback, link, lm, store, dispatch, seen>>

\* The application unlocks at the end of its registration.
Finished(t) ==
  IF t # App THEN history
  ELSE [Registered EXCEPT !.drained = @ \/ (history.confirmed /\ ~history.failed)]

\* GetNewSamples() fails: the results stay where they are.
ReadFails(t) ==
  /\ thread[t].pc = "reading"
  /\ Unlocked(t)
  /\ history' = [Finished(t) EXCEPT !.failed = TRUE]

\* forwardSample(): without a callback the result is dropped.  A callback may call the
\* Launch Manager, or register again and then wait for the mutex its thread holds.
Forward(t) ==
  /\ thread[t].pc = "forwarding"
  /\ thread[t].batch # <<>>
  /\ LET result == Head(thread[t].batch)
         rest == Tail(thread[t].batch)
     IN  \/ /\ ~thread[t].copied
            /\ seen' = [seen EXCEPT !.dropped = @ \cup {result}]
            /\ thread' = [thread EXCEPT ![t].batch = rest]
         \/ /\ thread[t].copied
            /\ seen' = [seen EXCEPT !.given = Append(@, result)]
            /\ \E pc \in {"forwarding", "calling", "locking"} :
                 thread' = [thread EXCEPT ![t] = [@ EXCEPT !.pc = pc, !.batch = rest]]
  /\ UNCHANGED <<mutex, sampling, proxy, callback, link, lm, store, dispatch, history>>

\* A full batch may not have been the last one.
ReadOn(t) ==
  /\ thread[t].pc = "forwarding"
  /\ thread[t].batch = <<>> /\ thread[t].size = SampleCount
  /\ MoveTo(t, "reading")
  /\ UNCHANGED <<mutex, sampling, proxy, callback, link, lm, store, dispatch, seen,
                 history>>

FinishReading(t) ==
  /\ thread[t].pc = "forwarding"
  /\ thread[t].batch = <<>> /\ thread[t].size < SampleCount
  /\ Unlocked(t)
  /\ history' = Finished(t)

-----------------------------------------------------------------------------
DiscoveryThread == ServiceFound \/ SetReceiveHandler \/ SetReceiveHandlerFails

LaunchManager == SendResult \/ HandleMessage

Calls ==
  \/ RegisterCallback \/ DrainIfConnected \/ WaitForConnection \/ WaitTimesOut
  \/ Connected \/ ConfirmationFails \/ Call \/ Destroy

Handler(t) ==
  \/ CallProxy(t) \/ TakeNotification(t) \/ Lock(t) \/ ReadBatch(t) \/ ReadFails(t)
  \/ Forward(t) \/ ReadOn(t) \/ FinishReading(t)

LmControlNext ==
  DiscoveryThread \/ LaunchManager \/ Calls \/ \E t \in Thread : Handler(t)

LmControlSpec == LmControlInit /\ [][LmControlNext]_lmControlVars

-----------------------------------------------------------------------------
\* Nobody is reading results or about to.
NobodyReads == dispatch = 0 /\ \A t \in Thread : thread[t].pc \in {"idle", "waiting", "gone"}

\* Once a callback was registered after wait_for_connection() had confirmed the
\* registration of the receive handler, no result stays unread: one that was stored
\* without a notification is read by the registration of the callback, every later one
\* by the receive handler (awaitNotificationRegistration(), readActivationEvents()).
NoResultIsStranded ==
  history.drained /\ ~history.failed /\ NobodyReads => store = <<>>

\* The callback sees results in the order they were sent, each at most once, and a
\* result that is sent after the registration of a callback has returned is never
\* dropped, although the receive handler runs on several threads and copies the
\* callback before it reads (onActivationResult(), currentCallback()).
ResultsInOrder ==
  /\ \A k \in 1..(Len(seen.given) - 1) : seen.given[k] < seen.given[k + 1]
  /\ history.registered # -1 => \A r \in seen.dropped : r <= history.registered

\* A callback may call activate_run_target() and get_active_run_target(): its thread
\* never waits for mutex_ while it holds it (the note at onActivationResult()).
CallbackMayCall == \A t \in Thread : thread[t].pc = "calling" => mutex # t

\* "The subscriber sees every settling": with a callback registered and the connection
\* confirmed, a result that nobody is about to read is not left in the store.
EverySettlingIsSeen ==
  /\ callback /\ history.confirmed /\ ~history.failed /\ NobodyReads
  /\ thread[App].pc = "idle"
  => store = <<>>
================================================================================
