---------------------- MODULE ResourceComponentProofs ----------------------
(***************************************************************************)
(* What TLC checks of ResourceComponent for two threads and two processes  *)
(* holds for any number of them and for every configuration.               *)
(*                                                                         *)
(* Neither property is inductive.  A cancelled activation fails because at *)
(* most one activation is not stopped, the one whose stop source the state *)
(* holds (WantedInv); a terminated component has no process because the    *)
(* handle in the state leads to the only one there is (HandleInv).         *)
(***************************************************************************)
EXTENDS ResourceComponent, TLAPS

CallState ==
  [at : {"idle", "report", "acknowledgement", "noReport", "file", "relock"},
   handle : Int, stop : BOOLEAN, cancelled : BOOLEAN,
   result : {"none", "kFailure", "kSuccess"}]

InstanceState ==
  [life : {"unborn", "alive", "ok", "failed", "gone"}, tokens : Nat,
   said : {"nothing", "running", "acknowledged"}, reply : BOOLEAN]

ComponentState ==
  [state : {"Terminated", "Starting", "Ready", "Terminating", "Fault"},
   handle : Int, by : Activator \cup {NoActivator}]

ResourceTypeOK ==
  /\ setup \in Setups
  /\ component \in ComponentState
  /\ activation \in [Activator -> CallState]
  /\ instance \in [Instance -> InstanceState]
  /\ aborted \in BOOLEAN

\* An activation that is under way and not stopped is the one in StartingState, unless
\* the component has failed, which is for good; one that was cancelled is stopped.
WantedInv ==
  \A w \in Activator : activation[w].at # "idle" =>
    /\ \/ activation[w].stop
       \/ component.state = "Fault"
       \/ component.state = "Starting" /\ component.by = w
    /\ activation[w].cancelled => activation[w].stop \/ component.state = "Fault"
    /\ activation[w].result = "none"

\* A process that is running or whose end was not reported is the one of the handle.
HandleInv ==
  \A n \in Instance : instance[n].life \in {"alive", "ok", "failed"} =>
    component.handle = n /\ component.state # "Terminated"

ResourceInv == ResourceTypeOK /\ WantedInv /\ HandleInv /\ CancelledActivationFails

-----------------------------------------------------------------------------
\* No component has been activated at first (Component::Component).
LEMMA ResourceInitially == ResourceInit => ResourceInv
<1> SUFFICES ASSUME ResourceInit PROVE ResourceInv
  OBVIOUS
<1> USE DEF ResourceInit
<1>1. NoCallOfActivate \in CallState
  BY DEF NoCallOfActivate, CallState, Empty
<1>2. [life |-> "unborn", tokens |-> 0, said |-> "nothing", reply |-> FALSE] \in InstanceState
  BY DEF InstanceState
<1>3. component \in ComponentState
  BY DEF ComponentState, Empty
<1>4. ResourceTypeOK
  BY <1>1, <1>2, <1>3 DEF ResourceTypeOK
<1>5. \A w \in Activator : activation[w].at = "idle" /\ ~activation[w].cancelled
  BY DEF NoCallOfActivate
<1>6. WantedInv /\ CancelledActivationFails
  BY <1>5 DEF WantedInv, CancelledActivationFails
<1>7. HandleInv
  BY DEF HandleInv
<1> QED
  BY <1>4, <1>6, <1>7 DEF ResourceInv

\* Component::activate() fails before there is a process.
LEMMA ActivateFailsKeeps ==
  ASSUME ResourceInv, NEW w \in Activator, ActivateFails(w)
  PROVE  ResourceInv'
<1> DEFINE failed == [NoCallOfActivate EXCEPT !.result = "kFailure"]
<1>1. failed \in CallState /\ failed.at = "idle" /\ failed.cancelled = FALSE
  <2>1. NoCallOfActivate \in CallState
    BY DEF NoCallOfActivate, CallState, Empty
  <2>2. failed \in CallState
    BY <2>1 DEF CallState
  <2>3. failed.at = "idle" /\ failed.cancelled = FALSE
    BY DEF NoCallOfActivate
  <2> QED
    BY <2>2, <2>3
<1>2. component' \in ComponentState /\ component'.state = "Fault"
  BY DEF ActivateFails, InState, ComponentState, Empty
<1>3. activation' = [activation EXCEPT ![w] = failed] /\ UNCHANGED <<setup, instance, aborted>>
  BY DEF ActivateFails
<1> HIDE DEF failed
<1>4. ResourceTypeOK'
  BY <1>1, <1>2, <1>3 DEF ResourceInv, ResourceTypeOK
<1>5. WantedInv' /\ CancelledActivationFails'
  BY <1>1, <1>2, <1>3 DEF ResourceInv, ResourceTypeOK, WantedInv, CancelledActivationFails
<1>6. HandleInv'
  BY <1>3 DEF ActivateFails, MayActivate, ResourceInv, HandleInv
<1> QED
  BY <1>4, <1>5, <1>6 DEF ResourceInv

\* Component::activate() has started its resource and waits: every activation that is
\* still under way was stopped, since the state was TerminatedState.
LEMMA StartResourceKeeps ==
  ASSUME ResourceInv, NEW w \in Activator, StartResource(w)
  PROVE  ResourceInv'
<1>1. PICK h \in Instance \cup {Empty} :
        /\ Starting(w, h)
        /\ instance' = IF h = Empty THEN instance ELSE [instance EXCEPT ![h].life = "alive"]
  BY DEF StartResource, Instance, Empty
<1> DEFINE call == [NoCallOfActivate EXCEPT !.at = FirstWaitFor, !.handle = h]
<1>2. h \in Int
  BY ResourceAssumption DEF Instance, Empty, ResourceAssumption
<1>3. FirstWaitFor \in {"file", "report", "noReport"}
  BY ResourceAssumption DEF ResourceAssumption, FirstWaitFor, ResourceInv, ResourceTypeOK
<1>4. call \in CallState /\ call.at # "idle" /\ call.cancelled = FALSE /\ call.result = "none"
  BY <1>2, <1>3 DEF NoCallOfActivate, CallState, Empty
<1>5. component' = [state |-> "Starting", handle |-> h, by |-> w]
  BY <1>1 DEF Starting
<1>6. activation' = [activation EXCEPT ![w] = call]
  BY <1>1 DEF Starting
<1> HIDE DEF call
<1>7. component' \in ComponentState
  BY <1>2, <1>5 DEF ComponentState
<1>8. instance' \in [Instance -> InstanceState]
  BY <1>1 DEF ResourceInv, ResourceTypeOK, InstanceState
<1>9. ResourceTypeOK'
  BY <1>4, <1>6, <1>7, <1>8 DEF ResourceInv, ResourceTypeOK, StartResource
<1>10. WantedInv' /\ CancelledActivationFails'
  BY <1>4, <1>5, <1>6 DEF ResourceInv, ResourceTypeOK, WantedInv, CancelledActivationFails,
     StartResource, MayActivate
<1>11. HandleInv'
  BY <1>1, <1>5 DEF ResourceInv, ResourceTypeOK, HandleInv, StartResource, MayActivate
<1> QED
  BY <1>9, <1>10, <1>11 DEF ResourceInv

\* The stop token of the caller of activate() is stopped.
LEMMA StopRequestedKeeps ==
  ASSUME ResourceInv, NEW w \in Activator, StopRequested(w)
  PROVE  ResourceInv'
<1>1. ResourceTypeOK'
  BY DEF ResourceInv, ResourceTypeOK, StopRequested, CallState
<1>2. WantedInv' /\ CancelledActivationFails'
  BY DEF ResourceInv, ResourceTypeOK, StopRequested, WantedInv, CancelledActivationFails, CallState
<1>3. HandleInv'
  BY DEF ResourceInv, HandleInv, StopRequested
<1> QED
  BY <1>1, <1>2, <1>3 DEF ResourceInv

\* A wait of activate() goes on; the semaphores change, the processes do not.
LEMMA ProceedKeeps ==
  ASSUME ResourceInv, NEW w \in Activator, NEW from \in {"report", "acknowledgement", "noReport", "file"},
         NEW to \in {"acknowledgement", "relock"}, Proceed(w, from, to),
         instance' \in [Instance -> InstanceState],
         \A n \in Instance : instance'[n].life = instance[n].life
  PROVE  ResourceInv'
<1>1. activation' = [activation EXCEPT ![w].at = to] /\ activation[w].at # "idle"
  BY DEF Proceed
<1>2. ResourceTypeOK'
  BY <1>1 DEF ResourceInv, ResourceTypeOK, Proceed, CallState
<1>3. \A x \in Activator : /\ activation'[x].at # "idle" => activation[x].at # "idle"
                           /\ activation'[x].stop = activation[x].stop
                           /\ activation'[x].cancelled = activation[x].cancelled
                           /\ activation'[x].result = activation[x].result
  BY <1>1 DEF ResourceInv, ResourceTypeOK, CallState
<1>4. WantedInv' /\ CancelledActivationFails'
  BY <1>3 DEF ResourceInv, WantedInv, CancelledActivationFails, Proceed
<1>5. HandleInv'
  BY DEF ResourceInv, HandleInv, Proceed
<1> QED
  BY <1>2, <1>4, <1>5 DEF ResourceInv

\* The steps of waitForkRunning() and of waitForFile() that do not fail.
LEMMA WaitsKeep ==
  ASSUME ResourceInv, NEW w \in Activator,
         ReplyAtOnce(w) \/ AwaitRunningReport(w) \/ AwaitAcknowledgement(w) \/ AwaitFileState(w)
  PROVE  ResourceInv'
<1> DEFINE k == activation[w].handle
<1>0. instance \in [Instance -> InstanceState]
  BY DEF ResourceInv, ResourceTypeOK
<1>1. CASE ReplyAtOnce(w)
  <2>1. instance' = [instance EXCEPT ![k].reply = TRUE] /\ Proceed(w, "noReport", "relock")
    BY <1>1 DEF ReplyAtOnce
  <2> HIDE DEF k
  <2>2. /\ instance' \in [Instance -> InstanceState]
        /\ \A n \in Instance : instance'[n].life = instance[n].life
    BY <1>0, <2>1 DEF InstanceState
  <2> QED
    BY <2>1, <2>2, ProceedKeeps
<1>2. CASE AwaitRunningReport(w)
  <2>1. /\ instance' = [instance EXCEPT ![k].reply = TRUE,
                                       ![k].tokens = IF @ = 0 THEN 0 ELSE @ - 1]
        /\ Proceed(w, "report", "acknowledgement")
    BY <1>2 DEF AwaitRunningReport
  <2> HIDE DEF k
  <2>2. \A n \in Instance : instance'[n] \in InstanceState /\ instance'[n].life = instance[n].life
    <3> SUFFICES ASSUME NEW n \in Instance
                 PROVE  instance'[n] \in InstanceState /\ instance'[n].life = instance[n].life
      OBVIOUS
    <3>1. instance[n] \in InstanceState
      BY <1>0
    <3>2. CASE n = k
      <4> DEFINE t == IF instance[n].tokens = 0 THEN 0 ELSE instance[n].tokens - 1
      <4>1. instance'[n] = [instance[n] EXCEPT !.reply = TRUE, !.tokens = t]
        BY <1>0, <2>1, <3>2
      <4>2. t \in Nat
        BY <3>1 DEF InstanceState
      <4> HIDE DEF t
      <4> QED
        BY <3>1, <4>1, <4>2 DEF InstanceState
    <3>3. CASE n # k
      BY <1>0, <2>1, <3>1, <3>3
    <3> QED
      BY <3>2, <3>3
  <2>3. instance' \in [Instance -> InstanceState]
    BY <1>0, <2>1, <2>2
  <2> QED
    BY <2>1, <2>2, <2>3, ProceedKeeps
<1>3. CASE AwaitAcknowledgement(w)
  <2>1. /\ instance' = [instance EXCEPT ![k].tokens = @ - 1] /\ instance[k].tokens > 0
        /\ Proceed(w, "acknowledgement", "relock")
    BY <1>3 DEF AwaitAcknowledgement
  <2> HIDE DEF k
  <2>2. \A n \in Instance : instance'[n] \in InstanceState /\ instance'[n].life = instance[n].life
    <3> SUFFICES ASSUME NEW n \in Instance
                 PROVE  instance'[n] \in InstanceState /\ instance'[n].life = instance[n].life
      OBVIOUS
    <3>1. instance[n] \in InstanceState
      BY <1>0
    <3>2. CASE n = k
      <4>1. instance'[n] = [instance[n] EXCEPT !.tokens = instance[n].tokens - 1]
        BY <1>0, <2>1, <3>2
      <4> QED
        BY <3>1, <3>2, <4>1, <2>1 DEF InstanceState
    <3>3. CASE n # k
      BY <1>0, <2>1, <3>1, <3>3
    <3> QED
      BY <3>2, <3>3
  <2>3. instance' \in [Instance -> InstanceState]
    BY <1>0, <2>1, <2>2
  <2> QED
    BY <2>1, <2>2, <2>3, ProceedKeeps
<1>4. CASE AwaitFileState(w)
  BY <1>0, <1>4, ProceedKeeps DEF AwaitFileState
<1> QED
  BY <1>1, <1>2, <1>3, <1>4

\* activate() returns and gives its result: nobody else's activation changes.
LEMMA ReturnsCall ==
  ASSUME ResourceTypeOK, NEW w \in Activator, NEW r \in {"kFailure", "kSuccess"}, Returns(w, r)
  PROVE  /\ activation' \in [Activator -> CallState]
         /\ \A x \in Activator : x # w => activation'[x] = activation[x]
         /\ activation'[w].at = "idle" /\ activation'[w].result = r
         /\ activation'[w].cancelled = activation[w].cancelled
<1> DEFINE call == [NoCallOfActivate EXCEPT !.cancelled = activation[w].cancelled, !.result = r]
<1>1. NoCallOfActivate \in CallState
  BY DEF NoCallOfActivate, CallState, Empty
<1>2. activation[w].cancelled \in BOOLEAN
  BY DEF ResourceTypeOK, CallState
<1>3. call \in CallState
  BY <1>1, <1>2 DEF CallState
<1>4. call.at = "idle" /\ call.result = r /\ call.cancelled = activation[w].cancelled
  BY DEF NoCallOfActivate
<1>5. activation' = [activation EXCEPT ![w] = call]
  BY DEF Returns
<1> HIDE DEF call
<1> QED
  BY <1>3, <1>4, <1>5 DEF ResourceTypeOK

\* A ready condition fails, and with it activate().
LEMMA ConditionFailsKeeps ==
  ASSUME ResourceInv, NEW w \in Activator, ConditionFails(w)
  PROVE  ResourceInv'
<1>1. Returns(w, "kFailure") /\ UNCHANGED <<setup, component, instance, aborted>>
  BY DEF ConditionFails
<1>2. /\ activation' \in [Activator -> CallState]
      /\ \A x \in Activator : x # w => activation'[x] = activation[x]
      /\ activation'[w].at = "idle" /\ activation'[w].result = "kFailure"
  BY <1>1, ReturnsCall DEF ResourceInv
<1>3. ResourceTypeOK'
  BY <1>1, <1>2 DEF ResourceInv, ResourceTypeOK
<1>4. WantedInv' /\ CancelledActivationFails'
  BY <1>1, <1>2 DEF ResourceInv, WantedInv, CancelledActivationFails
<1>5. HandleInv'
  BY <1>1 DEF ResourceInv, HandleInv
<1> QED
  BY <1>3, <1>4, <1>5 DEF ResourceInv

\* activate() has the lock again: an activation that is not stopped in StartingState is
\* the one of that state, and was not cancelled.
LEMMA FinishActivationKeeps ==
  ASSUME ResourceInv, NEW w \in Activator, FinishActivation(w)
  PROVE  ResourceInv'
<1>0. UNCHANGED <<setup, instance>> /\ activation[w].at # "idle"
  BY DEF FinishActivation
<1>1. CASE activation[w].stop /\ Returns(w, "kFailure") /\ UNCHANGED <<component, aborted>>
  <2>1. /\ activation' \in [Activator -> CallState]
        /\ \A x \in Activator : x # w => activation'[x] = activation[x]
        /\ activation'[w].at = "idle" /\ activation'[w].result = "kFailure"
    BY <1>1, ReturnsCall DEF ResourceInv
  <2>2. ResourceTypeOK'
    BY <1>0, <1>1, <2>1 DEF ResourceInv, ResourceTypeOK
  <2>3. WantedInv' /\ CancelledActivationFails'
    BY <1>0, <1>1, <2>1 DEF ResourceInv, WantedInv, CancelledActivationFails
  <2>4. HandleInv'
    BY <1>0, <1>1 DEF ResourceInv, HandleInv
  <2> QED
    BY <2>2, <2>3, <2>4 DEF ResourceInv
<1>2. CASE ~activation[w].stop /\ component.state = "Starting"
  <2>1. PICK ok \in BOOLEAN :
          /\ component' = InState(IF ok THEN "Ready" ELSE "Fault", component.handle)
          /\ Returns(w, IF ok THEN "kSuccess" ELSE "kFailure") /\ UNCHANGED aborted
    BY <1>2 DEF FinishActivation, SupervisionCalls
  <2>2. PICK r \in {"kFailure", "kSuccess"} : Returns(w, r)
    BY <2>1
  <2>3. PICK s \in {"Ready", "Fault"} : component' = InState(s, component.handle)
    BY <2>1
  <2>4. /\ activation' \in [Activator -> CallState]
        /\ \A x \in Activator : x # w => activation'[x] = activation[x]
        /\ activation'[w].at = "idle" /\ activation'[w].result = r
        /\ activation'[w].cancelled = activation[w].cancelled
    BY <2>2, ReturnsCall DEF ResourceInv
  <2>5. /\ component' \in ComponentState
        /\ component'.state \in {"Ready", "Fault"} /\ component'.handle = component.handle
    BY <2>3 DEF InState, ComponentState, ResourceInv, ResourceTypeOK
  <2>6. ResourceTypeOK'
    BY <1>0, <2>1, <2>4, <2>5 DEF ResourceInv, ResourceTypeOK
  <2>7. component.by = w /\ ~activation[w].cancelled
    BY <1>0, <1>2 DEF ResourceInv, WantedInv
  <2>8. \A x \in Activator : x # w /\ activation[x].at # "idle" => activation[x].stop
    BY <1>2, <2>7 DEF ResourceInv, WantedInv
  <2>9. WantedInv'
    BY <2>4, <2>8 DEF ResourceInv, WantedInv
  <2>10. CancelledActivationFails'
    BY <2>4, <2>7 DEF ResourceInv, CancelledActivationFails
  <2>11. HandleInv'
    BY <1>0, <2>5 DEF ResourceInv, HandleInv
  <2> QED
    BY <2>6, <2>9, <2>10, <2>11 DEF ResourceInv
<1>3. CASE aborted' = TRUE /\ UNCHANGED <<component, activation>>
  <2>1. ResourceTypeOK'
    BY <1>0, <1>3 DEF ResourceInv, ResourceTypeOK
  <2>2. WantedInv' /\ HandleInv' /\ CancelledActivationFails'
    BY <1>0, <1>3 DEF ResourceInv, WantedInv, HandleInv, CancelledActivationFails
  <2> QED
    BY <2>1, <2>2 DEF ResourceInv
<1> QED
  BY <1>1, <1>2, <1>3 DEF FinishActivation

\* The stop source of StartingState is stopped, and every activation under way is then
\* stopped, or the component has failed.
LEMMA CancelledKeeps ==
  ASSUME ResourceInv, NEW stopping \in BOOLEAN, Cancelled(stopping),
         component.state # "Fault", stopping \/ component'.state = "Fault"
  PROVE  /\ activation' \in [Activator -> CallState]
         /\ WantedInv' /\ CancelledActivationFails'
<1>1. ASSUME NEW w \in Activator
      PROVE  /\ activation'[w] \in CallState
             /\ activation'[w].at # "idle" =>
                  /\ activation'[w].stop \/ component'.state = "Fault"
                  /\ activation'[w].result = "none"
             /\ activation'[w].cancelled => activation'[w].result # "kSuccess"
  <2>1. CASE activation[w].at = "idle"
    <3>1. activation'[w] = activation[w]
      BY <2>1 DEF Cancelled
    <3> QED
      BY <2>1, <3>1 DEF ResourceInv, ResourceTypeOK, CancelledActivationFails
  <2>2. CASE activation[w].at # "idle"
    <3> DEFINE st == activation[w].stop \/ (stopping /\ IsStarting /\ w = component.by)
    <3>1. activation'[w] = [activation[w] EXCEPT !.cancelled = TRUE, !.stop = st]
      BY <2>2 DEF Cancelled
    <3>2. activation[w] \in CallState /\ activation[w].result = "none"
      BY <2>2 DEF ResourceInv, ResourceTypeOK, WantedInv
    <3>3. st \in BOOLEAN
      BY <3>2 DEF CallState
    <3>4. st \/ component'.state = "Fault"
      BY <2>2 DEF ResourceInv, WantedInv, IsStarting
    <3> HIDE DEF st
    <3>5. /\ activation'[w] \in CallState /\ activation'[w].stop = st
          /\ activation'[w].result = "none"
      BY <3>1, <3>2, <3>3 DEF CallState
    <3> QED
      BY <3>4, <3>5
  <2> QED
    BY <2>1, <2>2
<1>2. activation' \in [Activator -> CallState]
  BY <1>1 DEF Cancelled
<1>3. WantedInv' /\ CancelledActivationFails'
  BY <1>1 DEF WantedInv, CancelledActivationFails
<1> QED
  BY <1>2, <1>3

\* Component::deactivate(): whatever fails in it, the process stays that of the handle.
LEMMA ResourceDeactivateKeeps ==
  ASSUME ResourceInv, ResourceDeactivate
  PROVE  ResourceInv'
<1>1. PICK s \in {"Terminating", "Fault"}, stopping \in BOOLEAN :
        /\ component' = InState(s, component.handle)
        /\ Cancelled(stopping) /\ (stopping \/ s = "Fault")
  BY DEF ResourceDeactivate
<1>2. UNCHANGED <<setup, instance, aborted>> /\ component.state \in {"Starting", "Ready"}
  BY DEF ResourceDeactivate
<1>3. /\ component' \in ComponentState
      /\ component'.state = s /\ component'.handle = component.handle
  BY <1>1 DEF InState, ComponentState, ResourceInv, ResourceTypeOK
<1>4. activation' \in [Activator -> CallState] /\ WantedInv' /\ CancelledActivationFails'
  BY <1>1, <1>2, <1>3, CancelledKeeps
<1>5. ResourceTypeOK'
  BY <1>2, <1>3, <1>4 DEF ResourceInv, ResourceTypeOK
<1>6. HandleInv'
  BY <1>2, <1>3 DEF ResourceInv, HandleInv
<1> QED
  BY <1>4, <1>5, <1>6 DEF ResourceInv

\* The process that ended was the one of the handle, so that none is left.
LEMMA GoneKeepsHandle ==
  ASSUME ResourceTypeOK, HandleInv, NEW n \in Instance, instance[n].life \in {"ok", "failed"},
         \A m \in Instance : m # n => instance'[m].life = instance[m].life,
         instance'[n].life = "gone"
  PROVE  HandleInv'
<1>1. \A m \in Instance : m # n => instance'[m].life \notin {"alive", "ok", "failed"}
  BY DEF HandleInv
<1> QED
  BY <1>1 DEF HandleInv

\* A resource ends that nobody asked to end.
LEMMA EndedUnaskedKeeps ==
  ASSUME ResourceInv, NEW n \in Instance, NEW ok \in BOOLEAN, EndedUnasked(n, ok),
         instance[n].life \in {"ok", "failed"}, component.state \in {"Starting", "Ready"},
         UNCHANGED <<setup, aborted>>
  PROVE  ResourceInv'
<1>0. ResourceTypeOK /\ instance \in [Instance -> InstanceState]
  BY DEF ResourceInv, ResourceTypeOK
<1>1. /\ instance' \in [Instance -> InstanceState] /\ instance'[n].life = "gone"
      /\ \A m \in Instance : m # n => instance'[m].life = instance[m].life
  <2>1. CASE instance' = [instance EXCEPT ![n].life = "gone"]
    BY <1>0, <2>1 DEF InstanceState
  <2>2. CASE instance' = [instance EXCEPT ![n].life = "gone", ![n].tokens = @ + 1]
    BY <1>0, <2>2 DEF InstanceState
  <2> QED
    BY <2>1, <2>2 DEF EndedUnasked
<1>2. HandleInv'
  BY <1>1, GoneKeepsHandle DEF ResourceInv
<1>3. CASE component' = InState("Fault", Gone) /\ UNCHANGED activation
  <2>1. component' \in ComponentState /\ component'.state = "Fault"
    BY <1>3 DEF InState, ComponentState, Gone
  <2>2. ResourceTypeOK'
    BY <1>1, <1>3, <2>1 DEF ResourceInv, ResourceTypeOK
  <2>3. WantedInv' /\ CancelledActivationFails'
    BY <1>3, <2>1 DEF ResourceInv, WantedInv, CancelledActivationFails
  <2> QED
    BY <1>2, <2>2, <2>3 DEF ResourceInv
<1>4. CASE component' = [component EXCEPT !.handle = Gone] /\ UNCHANGED activation
  <2>1. /\ component' \in ComponentState
        /\ component'.state = component.state /\ component'.by = component.by
    BY <1>0, <1>4 DEF ComponentState, Gone, ResourceTypeOK
  <2>2. ResourceTypeOK'
    BY <1>1, <1>4, <2>1 DEF ResourceInv, ResourceTypeOK
  <2>3. WantedInv' /\ CancelledActivationFails'
    BY <1>4, <2>1 DEF ResourceInv, WantedInv, CancelledActivationFails
  <2> QED
    BY <1>2, <2>2, <2>3 DEF ResourceInv
<1>5. CASE component' = InState("Fault", Empty) /\ Cancelled(TRUE)
  <2>1. component' \in ComponentState /\ component'.state = "Fault"
    BY <1>5 DEF InState, ComponentState, Empty
  <2>2. activation' \in [Activator -> CallState] /\ WantedInv' /\ CancelledActivationFails'
    BY <1>5, CancelledKeeps
  <2>3. ResourceTypeOK'
    BY <1>1, <2>1, <2>2 DEF ResourceInv, ResourceTypeOK
  <2> QED
    BY <1>2, <2>2, <2>3 DEF ResourceInv
<1> QED
  BY <1>3, <1>4, <1>5 DEF EndedUnasked

\* Component::tryHandleTermination().
LEMMA TerminationIsReportedKeeps ==
  ASSUME ResourceInv, NEW n \in Instance, TerminationIsReported(n)
  PROVE  ResourceInv'
<1>0. UNCHANGED setup /\ instance[n].life \in {"ok", "failed"}
  BY DEF TerminationIsReported
<1>1. CASE /\ component.state = "Terminating" /\ component' = InState("Terminated", Empty)
           /\ instance' = [instance EXCEPT ![n].life = "gone"] /\ UNCHANGED <<activation, aborted>>
  <2>1. component' \in ComponentState
    BY <1>1 DEF InState, ComponentState, Empty
  <2>2. /\ instance' \in [Instance -> InstanceState] /\ instance'[n].life = "gone"
        /\ \A m \in Instance : m # n => instance'[m].life = instance[m].life
    BY <1>1 DEF ResourceInv, ResourceTypeOK, InstanceState
  <2>3. ResourceTypeOK'
    BY <1>0, <1>1, <2>1, <2>2 DEF ResourceInv, ResourceTypeOK
  <2>4. \A w \in Activator : activation[w].at # "idle" => activation[w].stop
    BY <1>1 DEF ResourceInv, WantedInv
  <2>5. WantedInv' /\ CancelledActivationFails'
    BY <1>1, <2>4 DEF ResourceInv, WantedInv, CancelledActivationFails
  <2>6. HandleInv'
    BY <1>0, <2>2, GoneKeepsHandle DEF ResourceInv
  <2> QED
    BY <2>3, <2>5, <2>6 DEF ResourceInv
<1>2. CASE /\ component.state \in {"Starting", "Ready"} /\ UNCHANGED aborted
           /\ EndedUnasked(n, instance[n].life = "ok")
  <2>1. PICK ok \in BOOLEAN : EndedUnasked(n, ok)
    BY <1>2
  <2> QED
    BY <1>0, <1>2, <2>1, EndedUnaskedKeeps
<1>3. CASE aborted' = TRUE /\ UNCHANGED <<component, activation, instance>>
  <2>1. ResourceTypeOK'
    BY <1>0, <1>3 DEF ResourceInv, ResourceTypeOK
  <2>2. WantedInv' /\ HandleInv' /\ CancelledActivationFails'
    BY <1>0, <1>3 DEF ResourceInv, WantedInv, HandleInv, CancelledActivationFails
  <2> QED
    BY <2>1, <2>2 DEF ResourceInv
<1> QED
  BY <1>1, <1>2, <1>3 DEF TerminationIsReported

\* A process reports or exits; it exits only while it runs.
LEMMA InstanceStepsKeep ==
  ASSUME ResourceInv, NEW n \in Instance,
         InstanceReports(n) \/ \E how \in {"ok", "failed"} : InstanceExits(n, how)
  PROVE  ResourceInv'
<1>0. UNCHANGED <<setup, component, activation, aborted>> /\ instance[n].life = "alive"
  BY DEF InstanceReports, InstanceExits
<1>1. /\ instance' \in [Instance -> InstanceState]
      /\ \A m \in Instance : m # n => instance'[m] = instance[m]
  <2>1. CASE instance' = [instance EXCEPT ![n].said = "running", ![n].tokens = @ + 1]
    BY <2>1 DEF ResourceInv, ResourceTypeOK, InstanceState
  <2>2. CASE instance' = [instance EXCEPT ![n].said = "acknowledged", ![n].tokens = @ + 1]
    BY <2>2 DEF ResourceInv, ResourceTypeOK, InstanceState
  <2>3. ASSUME NEW how \in {"ok", "failed"}, instance' = [instance EXCEPT ![n].life = how]
        PROVE  <1>1!1
    BY <2>3 DEF ResourceInv, ResourceTypeOK, InstanceState
  <2> QED
    BY <2>1, <2>2, <2>3 DEF InstanceReports, InstanceExits
<1>2. ResourceTypeOK'
  BY <1>0, <1>1 DEF ResourceInv, ResourceTypeOK
<1>3. WantedInv' /\ CancelledActivationFails'
  BY <1>0 DEF ResourceInv, WantedInv, CancelledActivationFails
<1>4. HandleInv'
  BY <1>0, <1>1 DEF ResourceInv, HandleInv
<1> QED
  BY <1>2, <1>3, <1>4 DEF ResourceInv

\* Nothing happens to the component.
LEMMA ResourceStutterKeeps == ResourceInv /\ UNCHANGED resourceVars => ResourceInv'
<1> SUFFICES ASSUME ResourceInv, UNCHANGED resourceVars PROVE ResourceInv'
  OBVIOUS
<1> USE DEF resourceVars, ResourceInv
<1>1. ResourceTypeOK'
  BY DEF ResourceTypeOK
<1>2. WantedInv' /\ HandleInv' /\ CancelledActivationFails'
  BY DEF WantedInv, HandleInv, CancelledActivationFails
<1> QED
  BY <1>1, <1>2

\* The inductive invariant of the component.
THEOREM ResourceInvHolds == ResourceSpec => []ResourceInv
<1>1. ResourceInv /\ [ResourceNext]_resourceVars => ResourceInv'
  <2> SUFFICES ASSUME ResourceInv, [ResourceNext]_resourceVars PROVE ResourceInv'
    OBVIOUS
  <2>1. ASSUME NEW w \in Activator, ActivateResource(w) PROVE ResourceInv'
    BY <2>1, ActivateFailsKeeps, StartResourceKeeps, StopRequestedKeeps, WaitsKeep,
       ConditionFailsKeeps, FinishActivationKeeps DEF ActivateResource
  <2>2. CASE ResourceDeactivate
    BY <2>2, ResourceDeactivateKeeps
  <2>3. ASSUME NEW n \in Instance, TerminationIsReported(n) PROVE ResourceInv'
    BY <2>3, TerminationIsReportedKeeps
  <2>4. ASSUME NEW n \in Instance,
               InstanceReports(n) \/ \E how \in {"ok", "failed"} : InstanceExits(n, how)
        PROVE  ResourceInv'
    BY <2>4, InstanceStepsKeep
  <2>5. CASE UNCHANGED resourceVars
    BY <2>5, ResourceStutterKeeps
  <2> QED
    BY <2>1, <2>2, <2>3, <2>4, <2>5 DEF ResourceNext
<1> QED
  BY ResourceInitially, <1>1, PTL DEF ResourceSpec

\* However many threads activate the component, and whatever fails on the way: an
\* activation that deactivate() or a failed process has overtaken never succeeds, not even
\* when the component was activated anew in the meantime (Component::activate).
THEOREM CancelledActivationNeverSucceeds == ResourceSpec => []CancelledActivationFails
<1>1. ResourceInv => CancelledActivationFails
  BY DEF ResourceInv
<1> QED
  BY <1>1, ResourceInvHolds, PTL

\* Component::activate() starts a process in TerminatedState only, and then there is none
\* that runs or whose end is still to be reported: a component never has two processes.
THEOREM ComponentHasOneProcess ==
  ResourceSpec => [](/\ TerminatedHasNoProcess
                     /\ \A m, n \in Instance :
                          instance[m].life = "alive" /\ instance[n].life = "alive" => m = n)
<1>1. ResourceInv => /\ TerminatedHasNoProcess
                     /\ \A m, n \in Instance :
                          instance[m].life = "alive" /\ instance[n].life = "alive" => m = n
  BY DEF ResourceInv, ResourceTypeOK, InstanceState, HandleInv, TerminatedHasNoProcess
<1> QED
  BY <1>1, ResourceInvHolds, PTL

=============================================================================
