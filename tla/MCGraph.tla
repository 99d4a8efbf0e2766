------------------------------- MODULE MCGraph -------------------------------
(***************************************************************************)
(* Instances of Graph for TLC.                                             *)
(***************************************************************************)
EXTENDS Graph

CONSTANTS p1, p2, p3, run, fallback, off, none

MCProcess == {p1, p2, p3}
MCRunTarget == {run, fallback, off}

\* p2 and p3 need p1: they start and stop in parallel, and p1 waits for both.
FanOut == [n \in {p1, p2, p3, run, fallback, off} |->
  CASE n \in {p2, p3} -> {p1} [] n = run -> {p2, p3} [] n = fallback -> {p1} [] OTHER -> {}]

OneSelfTerminating == {p2}
NoneSelfTerminating == {}
=============================================================================
