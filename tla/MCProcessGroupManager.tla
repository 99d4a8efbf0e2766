----------------------- MODULE MCProcessGroupManager -----------------------
(***************************************************************************)
(* Instances of ProcessGroupManager for TLC.                               *)
(***************************************************************************)
EXTENDS ProcessGroupManager

CONSTANTS p1, p2, run, fallback, off, none, unknown, c1

MCProcess == {p1, p2}
MCRunTarget == {run, fallback, off}

\* p2 needs p1, run needs p2, the fallback needs p1.
Chain == [n \in {p1, p2, run, fallback, off} |->
  CASE n = p2 -> {p1} [] n = run -> {p2} [] n = fallback -> {p1} [] OTHER -> {}]

\* Two processes nobody depends on, both in run.
Pair == [n \in {p1, p2, run, fallback, off} |->
  CASE n = run -> {p1, p2} [] n = fallback -> {p1} [] OTHER -> {}]

\* One process, in run only.
OneProcess == {p1}
Single == [n \in {p1, run, fallback, off} |-> IF n = run THEN {p1} ELSE {}]

OneSupervised == {p2}
NoneSupervised == {}
OneClient == {c1}
NoClient == {}
NoneSelfTerminating == {}
=============================================================================
