------------------------------- MODULE MCNodes -------------------------------
(***************************************************************************)
(* The graph and the component made of actions, a node for a graph, for    *)
(* TLC.  The two modules share no variable; a behaviour is one of the part *)
(* it starts with, and the other keeps its first state.                    *)
(***************************************************************************)
EXTENDS MCGraph, ResourceComponent

CONSTANTS act1, act2

VARIABLE part

nodesVars == <<graphVars, resourceVars, part>>

\* Each kind of resource, of ready condition and of supervision, and a process that may
\* end by itself.
Setup(r, c, t, v) == [resource |-> r, ready |-> c, selfTerminating |-> t, supervision |-> v]

MCSetups == {Setup("process", "Report", FALSE, "set"), Setup("process", "NoReport", FALSE, "none"),
             Setup("process", "File", TRUE, "none"), Setup("process", "File", FALSE, "set"),
             Setup("process", "File", FALSE, "missing"), Setup("empty", "File", FALSE, "none")}

\* One configuration of the component stands in for all while the graph runs.
NodesInit ==
  /\ part \in {"graph", "resource"}
  /\ GraphInit /\ ResourceInit
  /\ part = "graph" => setup = CHOOSE s \in Setups : TRUE

\* The component has failed, has nothing to wait for, or every process was started.
ResourceLeft ==
  /\ part = "resource"
  /\ \/ aborted
     \/ component.state # "Terminated" /\ \A w \in Activator : activation[w].at = "idle"
     \/ \A n \in Instance : instance[n].life # "unborn"
  /\ UNCHANGED nodesVars

NodesNext ==
  \/ part = "graph" /\ GraphNext /\ UNCHANGED <<resourceVars, part>>
  \/ part = "resource" /\ ResourceNext /\ UNCHANGED <<graphVars, part>>
  \/ ResourceLeft

NodesSpec == NodesInit /\ [][NodesNext]_nodesVars
==============================================================================
