------------------------------- MODULE PidMap -------------------------------
(***************************************************************************)
(* What SafeProcessMap promises its callers: a map from process ids to     *)
(* what has come first, the component of the process or its exit status.   *)
(* A call that brings the other one takes the entry out and hands both to  *)
(* the component.  A call takes effect at one moment, and a clash of two   *)
(* components or two statuses leaves the map and the call as they are.     *)
(***************************************************************************)
EXTENDS Integers, FiniteSets

CONSTANTS Pid, Thread, Datum, NoDatum, Capacity, IsComponent(_)

VARIABLES
  entries,   \* what the map holds for a process id
  calls,     \* the call of search() a thread is in
  answers    \* what search() has returned to a thread, and what it has matched

pidMapVars == <<entries, calls, answers>>

NoCall == [key |-> 0, data |-> NoDatum]
NoAnswer == [value |-> 0, mine |-> NoDatum, found |-> NoDatum]

PidMapInit ==
  /\ entries = [p \in Pid |-> NoDatum]
  /\ calls = [t \in Thread |-> NoCall]
  /\ answers = [t \in Thread |-> NoAnswer]

Used == {p \in Pid : entries[p] # NoDatum}

Call(t, p, d) ==
  /\ calls[t] = NoCall /\ answers[t] = NoAnswer
  /\ calls' = [calls EXCEPT ![t] = [key |-> p, data |-> d]]
  /\ UNCHANGED <<entries, answers>>

Answer(t, value, found) ==
  /\ answers' = [answers EXCEPT ![t] = [value |-> value, mine |-> calls[t].data, found |-> found]]
  /\ calls' = [calls EXCEPT ![t] = NoCall]

\* The id is not in the map: it is entered if there is room.
Enter(t) ==
  LET p == calls[t].key d == calls[t].data IN
  /\ d # NoDatum /\ entries[p] = NoDatum
  /\ \/ /\ Cardinality(Used) < Capacity
        /\ entries' = [entries EXCEPT ![p] = d]
        /\ Answer(t, IF IsComponent(d) THEN 0 ELSE 1, NoDatum)
     \/ /\ Cardinality(Used) = Capacity
        /\ Answer(t, -1, NoDatum)
        /\ UNCHANGED entries

\* A component meets a status, or a status a component.
Match(t) ==
  LET p == calls[t].key d == calls[t].data IN
  /\ d # NoDatum /\ entries[p] # NoDatum
  /\ IsComponent(d) # IsComponent(entries[p])
  /\ entries' = [entries EXCEPT ![p] = NoDatum]
  /\ Answer(t, IF IsComponent(d) THEN 1 ELSE 0, entries[p])

Leave(t) ==
  /\ answers[t] # NoAnswer
  /\ answers' = [answers EXCEPT ![t] = NoAnswer]
  /\ UNCHANGED <<entries, calls>>

PidMapNext ==
  \E t \in Thread : \/ \E p \in Pid, d \in Datum : Call(t, p, d)
                    \/ Enter(t) \/ Match(t) \/ Leave(t)

PidMapSpec == PidMapInit /\ [][PidMapNext]_pidMapVars
=============================================================================
