------------------------- MODULE MCProcessInfoNode -------------------------
(* Every configuration of a process component that the code tells apart. *)
EXTENDS ProcessInfoNode

CONSTANTS p1, p2

AllProfiles == [reporting : BOOLEAN, selfTerminating : BOOLEAN,
                ready : {"Running", "Terminated", "File"}]

\* Two process ids: a restarted process may get the id of its predecessor or another.
TwoPids == {p1, p2}
=============================================================================
