--------------------------- MODULE DeadlineMonitor ---------------------------
(***************************************************************************)
(* A deadline monitor of the health monitor library: the deadlines an      *)
(* application thread acquires, starts, stops and releases, each with one  *)
(* atomic word that the monitoring thread evaluates.                       *)
(*                                                                         *)
(* The word is a record of its running and finished_too_early bits and of  *)
(* the time stamp by which the deadline has to be stopped.  The stopped    *)
(* bit is set in every word that is ever stored.                           *)
(***************************************************************************)
EXTENDS MonotonicClock

CONSTANTS
  Deadline,                 \* the tags of the monitor
  DeadlineMin, DeadlineMax  \* the range of every deadline

ASSUME DeadlineAssumption ==
  /\ DeadlineMin \in Nat /\ DeadlineMax \in Nat
  /\ DeadlineMin <= DeadlineMax

VARIABLES
  word,      \* active_deadlines: the DeadlineState of every tag
  user,      \* where the thread that uses a deadline is, and the time it has read
  misuse,    \* history: the deadlines that were not stopped within their range
  since      \* history: when the word of a deadline was written

deadlineVars == <<word, user, misuse, since>>

Stopped == [running |-> FALSE, underrun |-> FALSE, timestamp |-> 0]

Running(timestamp) == [running |-> TRUE, underrun |-> FALSE, timestamp |-> timestamp]

DeadlineInit ==
  /\ word = [d \in Deadline |-> Stopped]
  /\ user = [d \in Deadline |-> [pc |-> "free", at |-> 0]]
  /\ misuse = {}
  /\ since = [d \in Deadline |-> 0]

Goto(d, from, to) ==
  user[d].pc = from /\ user' = [user EXCEPT ![d] = [pc |-> to, at |-> 0]]

ReadClock(d, from, to) ==
  user[d].pc = from /\ user' = [user EXCEPT ![d] = [pc |-> to, at |-> now]]

SetWord(d, w) ==
  word' = [word EXCEPT ![d] = w] /\ since' = [since EXCEPT ![d] = now]

\* The template hands out one instance of a deadline at a time.
GetDeadline(d) ==
  Goto(d, "free", "held") /\ UNCHANGED <<word, misuse, since>>

DropDeadline(d) ==
  Goto(d, "held", "free") /\ UNCHANGED <<word, misuse, since>>

StartReadsClock(d) ==
  ReadClock(d, "held", "starting") /\ UNCHANGED <<word, misuse, since>>

\* A deadline that has failed keeps its word, and its user gets an error.
StartFails(d) ==
  /\ word[d].running \/ word[d].underrun
  /\ Goto(d, "starting", "held")
  /\ UNCHANGED <<word, misuse, since>>

\* A start that does not look at the state the deadline was left in.
StartRegardless(d) ==
  /\ Goto(d, "starting", "started")
  /\ SetWord(d, Running(user[d].at + DeadlineMax))
  /\ UNCHANGED misuse

StartSucceeds(d) ==
  /\ ~word[d].running /\ ~word[d].underrun
  /\ Goto(d, "starting", "started")
  /\ SetWord(d, Running(user[d].at + DeadlineMax))
  /\ UNCHANGED misuse

StopReadsClock(d) ==
  ReadClock(d, "started", "stopping") /\ UNCHANGED <<word, misuse, since>>

TooLate(d) == word[d].timestamp < user[d].at

TooEarly(d) == user[d].at < word[d].timestamp - DeadlineMax + DeadlineMin

\* A missed deadline keeps its word, one stopped early is marked: both wait for the
\* monitoring thread to report them.
StopUpdates(d) ==
  /\ Goto(d, "stopping", "held")
  /\ IF TooLate(d) THEN UNCHANGED <<word, since>>
     ELSE SetWord(d, IF TooEarly(d) THEN [word[d] EXCEPT !.underrun = TRUE] ELSE Stopped)
  /\ misuse' = IF TooLate(d) \/ TooEarly(d) THEN misuse \cup {d} ELSE misuse

DeadlineUser(d) ==
  \/ GetDeadline(d)
  \/ DropDeadline(d)
  \/ StartReadsClock(d)
  \/ StartFails(d)
  \/ StartSucceeds(d)
  \/ StopReadsClock(d)
  \/ StopUpdates(d)

DeadlineUserReadClock == \E d \in Deadline : user[d].pc \in {"starting", "stopping"}

------------------------------------------------------------------------------
\* evaluate() for one deadline: it takes a snapshot of the word, and reads the clock
\* only when the deadline is running.

ReportsUnderrun(snapshot) == snapshot.underrun

ComparesClock(snapshot) == ~snapshot.underrun /\ snapshot.running

\* The comparison with a bound that belongs to the deadline.
MissesAtTheBound(snapshot) == now >= snapshot.timestamp

\* The comparison with the maximum added once more.
MissesTwiceAsLate(snapshot) == now > snapshot.timestamp + DeadlineMax

ReportsMiss(snapshot) == now > snapshot.timestamp

\* What the monitoring thread has to report: a deadline that is past its maximum, or was
\* stopped before its minimum.
Failed(d) == word[d].underrun \/ (word[d].running /\ now > word[d].timestamp)
==============================================================================
