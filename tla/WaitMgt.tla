------------------------------- MODULE WaitMgt -------------------------------
(***************************************************************************)
(* os/test.c: the other process manager.  It runs the graph in batches:    *)
(* every eligible node is made READY, every READY node is forked, and then *)
(* wait(NULL) is called once for each RUNNING node.  wait returns whichever *)
(* child exits first, but it is the node at the loop index that is marked  *)
(* FINISHED.                                                               *)
(*                                                                         *)
(* A line of the file is what decides the parser's outcome: how many fields *)
(* it has, and its child list.                                             *)
(***************************************************************************)
EXTENDS Integers, Sequences, FiniteSets, Functions

CONSTANTS
  MAX_NODES, MAX_CHILDREN,   \* lengths of nodes[] and children[]
  Graphs,      \* the graph files
  StackJunk,   \* what uninitialised counters may hold
  Pids         \* the process ids fork may return

Slot == 0 .. MAX_NODES - 1

ASSUME LimitsAssumption == MAX_NODES \in Nat \ {0} /\ MAX_CHILDREN \in Nat

\* none: the child list is the word "none".
ASSUME GraphsAssumption ==
  \A g \in Graphs : g \in Seq([fields : Nat, none : BOOLEAN, kids : Seq(Nat)])

ASSUME StackJunkAssumption == StackJunk \subseteq Int /\ StackJunk # {}

VARIABLES
  pc,               \* where main is
  graph,            \* the graph file
  status,           \* of each node
  numParents,       \* num_parents of each node
  parentsFinished,  \* num_parents_finished of each node
  numNodesFinished,
  cur,              \* loop index of the pass main is in
  proc,             \* the kernel's table of this program's children
  ignored           \* is SIGCHLD ignored, as inherited?

vars == <<pc, graph, status, numParents, parentsFinished, numNodesFinished, cur, proc, ignored>>
counters == <<numParents, parentsFinished>>

Node == {i \in Slot : i < Len(graph)}

children(i) == IF graph[i + 1].none THEN <<>> ELSE graph[i + 1].kids

\* Where i occurs in the child list of q.
Places(i, q) == {k \in DOMAIN children(q) : children(q)[k] = i}

\* Mutant: a repeated child hears once.
Times_Once(i, q) == IF i \in Range(children(q)) THEN 1 ELSE 0

\* How often it does.
Times(i, q) == Cardinality(Places(i, q))

\* The edges to i from the nodes in S, repeated ones as often as they occur.
EdgesTo(i, S) == UNION {{q} \X Places(i, q) : q \in S}

\* Mutant: a child listed twice is counted once.
Occurrences_Once(i) == Cardinality({q \in Node : Times(i, q) > 0})

\* How often i occurs in the child lists of all nodes.
Occurrences(i) == Cardinality(EdgesTo(i, Node))

free == [node |-> 0, state |-> "free"]
Used(p) == proc[p].state # "free"

Init ==
  /\ pc = "load"
  /\ graph \in Graphs
  /\ status = [s \in Slot |-> "INELIGIBLE"]
  /\ numParents \in [Slot -> StackJunk]
  /\ parentsFinished \in [Slot -> StackJunk]
  /\ numNodesFinished = 0
  /\ cur = 0
  /\ proc = [p \in Pids |-> free]
  /\ ignored \in BOOLEAN

-----------------------------------------------------------------------------
(***************************************************************************)
(* main: parse_graph_file and populateParents, then execute_all_nodes.     *)
(***************************************************************************)

\* A line parse_input_line stores within nodes[] and children[].
Legal(k) ==
  /\ k <= MAX_NODES
  /\ graph[k].fields >= 4
  /\ graph[k].none \/ Len(graph[k].kids) \in 1 .. MAX_CHILDREN

\* The file cannot be read; or the first line that is not legal ends the load.  Without
\* a child list it is an error; a null pointer or an overrun, which nothing checks for,
\* counts as a crash (what the program does after an overrun is not followed).
ParseFails ==
  /\ pc = "load"
  /\ \/ pc' = "failure"
     \/ \E k \in DOMAIN graph :
          /\ ~Legal(k) /\ \A j \in 1 .. k - 1 : Legal(j)
          /\ \/ graph[k].fields < 2 /\ pc' = "failure"
             \/ graph[k].fields # 1 /\ pc' = "crashed"
  /\ UNCHANGED <<graph, status, counters, numNodesFinished, cur, proc, ignored>>

\* The file is read, and populateParents counts; to count for a child that is no slot
\* writes past nodes[].
PopulateParents ==
  /\ pc = "load"
  /\ \A k \in DOMAIN graph : Legal(k)
  /\ numParents' = [s \in Slot |-> numParents[s] + Occurrences(s)]
  /\ pc' = IF \A i \in Node : Range(children(i)) \subseteq Slot THEN "ready" ELSE "crashed"
  /\ UNCHANGED <<graph, status, parentsFinished, numNodesFinished, cur, proc, ignored>>

\* Mutant: a node is eligible as soon as one parent has finished.
Eligible_OneParent(i) ==
  /\ status[i] = "INELIGIBLE"
  /\ numParents[i] > 0 => parentsFinished[i] > 0

\* Mutant: without the test of the node's own status.
Eligible_AnyStatus(i) == parentsFinished[i] = numParents[i]

Eligible(i) == status[i] = "INELIGIBLE" /\ parentsFinished[i] = numParents[i]

\* Mutant: the loop ends one node early.
AllFinished_OneEarly == numNodesFinished + 1 >= Len(graph)

AllFinished == numNodesFinished >= Len(graph)

\* The first pass of the loop.
ReadyPass ==
  /\ pc = "ready"
  /\ ~AllFinished
  /\ status' = [s \in Slot |-> IF s \in Node /\ Eligible(s) THEN "READY" ELSE status[s]]
  /\ cur' = 0
  /\ pc' = "fork"
  /\ UNCHANGED <<graph, counters, numNodesFinished, proc, ignored>>

\* The fork pass on a READY node: fork returns a pid.
ForkNode ==
  /\ pc = "fork"
  /\ cur < Len(graph)
  /\ status[cur] = "READY"
  /\ \E p \in Pids :
       /\ ~Used(p)
       /\ proc' = [proc EXCEPT ![p] = [node |-> cur, state |-> "running"]]
  /\ status' = [status EXCEPT ![cur] = "RUNNING"]
  /\ cur' = cur + 1
  /\ UNCHANGED <<pc, graph, counters, numNodesFinished, ignored>>

\* It fails, and main returns EXIT_FAILURE.  (Bound: only for want of a pid.)
ForkFails ==
  /\ pc = "fork"
  /\ cur < Len(graph)
  /\ status[cur] = "READY"
  /\ \A p \in Pids : Used(p)
  /\ pc' = "failure"
  /\ UNCHANGED <<graph, status, counters, numNodesFinished, cur, proc, ignored>>

SkipFork ==
  /\ pc = "fork"
  /\ cur < Len(graph)
  /\ status[cur] # "READY"
  /\ cur' = cur + 1
  /\ UNCHANGED <<pc, graph, status, counters, numNodesFinished, proc, ignored>>

EndForkPass ==
  /\ pc = "fork"
  /\ cur = Len(graph)
  /\ pc' = "wait"
  /\ cur' = 0
  /\ UNCHANGED <<graph, status, counters, numNodesFinished, proc, ignored>>

\* Mutant: wait is called with WNOHANG and its result taken for an exit.
Reaped_NoHang == (\E p \in Pids : proc[p].state = "zombie" /\ proc' = [proc EXCEPT ![p] = free])
                   \/ UNCHANGED proc

\* wait(NULL) blocks until some child has exited, and returns it, whichever it is.
Reaped == \E p \in Pids : proc[p].state = "zombie" /\ proc' = [proc EXCEPT ![p] = free]

\* The wait pass on a RUNNING node: whoever exited, it is this node that is FINISHED,
\* and its children that are told.
WaitAny ==
  /\ pc = "wait"
  /\ cur < Len(graph)
  /\ status[cur] = "RUNNING"
  /\ Reaped
  /\ status' = [status EXCEPT ![cur] = "FINISHED"]
  /\ numNodesFinished' = numNodesFinished + 1
  /\ parentsFinished' = [s \in Slot |-> parentsFinished[s] + Times(s, cur)]
  /\ cur' = cur + 1
  /\ UNCHANGED <<pc, graph, numParents, ignored>>

\* No child is left to wait for: ECHILD, and main returns EXIT_FAILURE.
WaitFails ==
  /\ pc = "wait"
  /\ cur < Len(graph)
  /\ status[cur] = "RUNNING"
  /\ \A p \in Pids : ~Used(p)
  /\ pc' = "failure"
  /\ UNCHANGED <<graph, status, counters, numNodesFinished, cur, proc, ignored>>

SkipWait ==
  /\ pc = "wait"
  /\ cur < Len(graph)
  /\ status[cur] # "RUNNING"
  /\ cur' = cur + 1
  /\ UNCHANGED <<pc, graph, status, counters, numNodesFinished, proc, ignored>>

EndWaitPass ==
  /\ pc = "wait"
  /\ cur = Len(graph)
  /\ pc' = "ready"
  /\ UNCHANGED <<graph, status, counters, numNodesFinished, cur, proc, ignored>>

\* The loop's condition is false: main returns EXIT_SUCCESS.
Finish ==
  /\ pc = "ready"
  /\ AllFinished
  /\ pc' = "success"
  /\ UNCHANGED <<graph, status, counters, numNodesFinished, cur, proc, ignored>>

Main == \/ ParseFails
        \/ PopulateParents
        \/ ReadyPass
        \/ ForkNode \/ ForkFails \/ SkipFork \/ EndForkPass
        \/ WaitAny \/ WaitFails \/ SkipWait \/ EndWaitPass
        \/ Finish

MainGone == pc \in {"success", "failure", "crashed"}

\* A child runs execute_node and its program; it exits, or fails to start it and
\* returns EXIT_FAILURE.
ChildExit(p) ==
  /\ proc[p].state = "running"
  /\ proc' = [proc EXCEPT ![p] = IF ignored \/ MainGone THEN free
                                 ELSE [@ EXCEPT !.state = "zombie"]]
  /\ UNCHANGED <<pc, graph, status, counters, numNodesFinished, cur, ignored>>

\* init reaps the zombies main left.
InitReaps(p) ==
  /\ MainGone
  /\ proc[p].state = "zombie"
  /\ proc' = [proc EXCEPT ![p] = free]
  /\ UNCHANGED <<pc, graph, status, counters, numNodesFinished, cur, ignored>>

Stopped == MainGone /\ UNCHANGED vars

Next == Main \/ (\E p \in Pids : ChildExit(p) \/ InitReaps(p)) \/ Stopped

\* main is sequential and blocks only in wait; programs do not run for ever.
Spec == Init /\ [][Next]_vars /\ WF_vars(Main) /\ \A p \in Pids : WF_vars(ChildExit(p))

-----------------------------------------------------------------------------
(***************************************************************************)
(* Properties.                                                             *)
(***************************************************************************)

Preds(i) == {q \in Node : i \in Range(children(q))}

Initialised == StackJunk = {0}

\* Some node of any set of nodes has no parent in the set.
Acyclic == \A S \in (SUBSET Node) \ {{}} : \E i \in S : Preds(i) \cap S = {}

Of(state) == {p \in Pids : proc[p].state = state}
RunningNodes == {i \in Node : status[i] = "RUNNING"}

\* The types of the variables.
TypeOK ==
  /\ pc \in {"load", "ready", "fork", "wait", "success", "failure", "crashed"}
  /\ graph \in Graphs
  /\ status \in [Slot -> {"INELIGIBLE", "READY", "RUNNING", "FINISHED"}]
  /\ numParents \in [Slot -> Int] /\ parentsFinished \in [Slot -> Int]
  /\ numNodesFinished \in 0 .. Len(graph)
  /\ cur \in 0 .. Len(graph)
  /\ proc \in [Pids -> [node : Slot, state : {"free", "running", "zombie"}]]
  /\ ignored \in BOOLEAN

\* Although wait takes any child, a program never runs while one it depends on has a
\* process: by the time nodes become READY the whole batch before them is gone.
DependencyOrder ==
  \A p \in Pids : Used(p) =>
    \A q \in Preds(proc[p].node) :
      /\ status[q] = "FINISHED"
      /\ \A r \in Pids : Used(r) => proc[r].node # q

\* While main forks and waits there are exactly as many children to wait for as nodes
\* that are RUNNING, so wait never blocks for ever and never takes a later batch's.
WaitsBalanced ==
  ~ignored /\ ~MainGone =>
    Cardinality(Of("running") \cup Of("zombie")) = Cardinality(RunningNodes)

\* The counts main compares agree with the graph: a node has heard once from every
\* edge whose source is FINISHED, also if the child list repeats it.
ParentsHeard ==
  Initialised /\ pc # "load" =>
    \A i \in Node :
      parentsFinished[i] = Cardinality(EdgesTo(i, {q \in Node : status[q] = "FINISHED"}))

\* EXIT_SUCCESS only if all nodes have been run and no process is left.
CleanSuccess ==
  pc = "success" => /\ \A i \in Node : status[i] = "FINISHED"
                    /\ \A p \in Pids : ~Used(p)

\* Every acyclic graph that is read is run to its end, whatever order its edges and
\* repeated children come in; main gives up only if it has no pid left for a batch.
Completes ==
  (pc = "ready" /\ Acyclic /\ Initialised /\ ~ignored)
    ~> \/ pc = "success"
       \/ pc = "failure" /\ Cardinality(RunningNodes) = Cardinality(Pids)

Phase(i) == CASE status[i] = "RUNNING"  -> "running"
              [] status[i] = "FINISHED" -> "done"
              [] OTHER                  -> "waiting"

Dag == INSTANCE DagRun WITH
  Nodes <- Slot,
  edges <- UNION {Preds(i) \X {i} : i \in Node},
  phase <- [i \in Slot |-> Phase(i)]

\* This program, too, implements DagRun.
ImplementsDagRun == Dag!Spec
=============================================================================
