------------------------------- MODULE DagRun -------------------------------
(***************************************************************************)
(* What os/README.md promises of the process manager, without pids,        *)
(* statuses or passes: every node of a graph runs at most once, and not    *)
(* before every node with an edge to it has finished.                      *)
(***************************************************************************)
CONSTANT Nodes   \* every node a graph can have

VARIABLES
  edges,   \* the graph: <<q, n>> when n is a child of q
  phase    \* of each node

Init ==
  /\ edges \subseteq Nodes \X Nodes
  /\ phase = [n \in Nodes |-> "waiting"]

Start(n) ==
  /\ phase[n] = "waiting"
  /\ \A q \in Nodes : <<q, n>> \in edges => phase[q] = "done"
  /\ phase' = [phase EXCEPT ![n] = "running"]
  /\ UNCHANGED edges

Finish(n) ==
  /\ phase[n] = "running"
  /\ phase' = [phase EXCEPT ![n] = "done"]
  /\ UNCHANGED edges

Next == \E n \in Nodes : Start(n) \/ Finish(n)

Spec == Init /\ [][Next]_<<edges, phase>>
=============================================================================
