------------------------------- MODULE ProcMgt -------------------------------
(***************************************************************************)
(* os/processmgt.c: the graph file is loaded (module GraphLoad), then one  *)
(* loop polls and forks until every node has finished.  An iteration is    *)
(* parse_node_status (make eligible nodes READY, waitpid each RUNNING one, *)
(* count the FINISHED) and a pass that forks the READY nodes.              *)
(*                                                                         *)
(* The forked processes run concurrently with all of it: each redirects    *)
(* its files and calls execvp, and exits at a time of its own.  proc is    *)
(* the kernel's process table, as far as it holds children of this program.*)
(***************************************************************************)
EXTENDS GraphLoad

CONSTANTS
  Pids,          \* the process ids fork may return; a reaped one is reused
  ForkErrnos,    \* the errno values fork may fail with although a pid is free
  SigchldIgnored \* may SIGCHLD be ignored, as inherited? Then exited children vanish

ASSUME KernelAssumption ==
  /\ ForkErrnos \subseteq {"EAGAIN", "ENOMEM", "ENOSYS"}
  /\ SigchldIgnored \in (SUBSET BOOLEAN) \ {{}}

VARIABLES
  status,    \* of each node; main sets it after the tree is printed
  pid,       \* of each node's process; garbage, here 0, until the node is RUNNING
  finished,  \* num_nodes_finished, as parse_node_status last returned it
  cur,       \* the loop index of the pass main is in
  proc,      \* process table
  ignored    \* is SIGCHLD ignored?

runVars == <<status, pid, finished, cur, proc, ignored>>
fixed == <<loadVars, ignored>>
vars == <<pc, loadVars, runVars>>

free == [node |-> 0, state |-> "free"]

Process == [node : Slot, state : {"free", "setup", "exec", "zombie"}]

Used(p) == proc[p].state # "free"

Init ==
  /\ LoadInit
  /\ status = [s \in Slot |-> "UNSET"]
  /\ pid = [s \in Slot |-> 0]
  /\ finished = 0
  /\ cur = 0
  /\ proc = [p \in Pids |-> free]
  /\ ignored \in SigchldIgnored

-----------------------------------------------------------------------------
(***************************************************************************)
(* main and parse_node_status.                                             *)
(***************************************************************************)

Load == LoadNext /\ UNCHANGED runVars

\* The tree is printed; all statuses are set.
StartRun ==
  /\ TreePrinted
  /\ status' = [s \in Slot |-> IF s \in Node THEN "INELIGIBLE" ELSE status[s]]
  /\ finished' = 0
  /\ UNCHANGED <<pid, cur, proc, ignored>>

\* Mutant: a parent that runs is as good as one that has finished.
Eligible_ParentsStarted(i) ==
  /\ status[i] = "INELIGIBLE"
  /\ \A q \in parents[i] : status[q] \in {"RUNNING", "FINISHED"}

\* Mutant: without the test of the node's own status.
Eligible_AnyStatus(i) == \A q \in parents[i] : status[q] = "FINISHED"

\* Mutant: nodes become READY in batches, as in os/test.c.
Eligible_Batch(i) ==
  /\ status[i] = "INELIGIBLE"
  /\ \A q \in parents[i] : status[q] = "FINISHED"
  /\ \A j \in Node : status[j] # "RUNNING"

Eligible(i) ==
  /\ status[i] = "INELIGIBLE"
  /\ \A q \in parents[i] : status[q] = "FINISHED"

\* Mutant: the loop ends one node early.
AllFinished_OneEarly == finished + 1 >= numNodes

AllFinished == finished >= numNodes

\* The first loop of parse_node_status.
StatusPass ==
  /\ pc = "status"
  /\ ~AllFinished
  /\ status' = [s \in Slot |-> IF s \in Node /\ Eligible(s) THEN "READY" ELSE status[s]]
  /\ cur' = 0
  /\ pc' = "reap"
  /\ UNCHANGED <<fixed, pid, finished, proc>>

\* waitpid(pid, _, WNOHANG).
WaitResult(p) == CASE proc[p].state = "zombie" -> "reaped"
                   [] proc[p].state = "free"   -> "ECHILD"
                   [] OTHER                    -> "running"

\* Mutant: wait for any child, as os/test.c does.
WaitNode_AnyChild ==
  /\ pc = "reap"
  /\ cur < numNodes
  /\ status[cur] = "RUNNING"
  /\ \E p \in Pids :
       /\ proc[p].state = "zombie"
       /\ proc' = [proc EXCEPT ![p] = free]
  /\ status' = [status EXCEPT ![cur] = "FINISHED"]
  /\ cur' = cur + 1
  /\ UNCHANGED <<pc, fixed, pid, finished>>

\* One iteration of its second loop on a RUNNING node; an error makes main
\* return EXIT_FAILURE.
WaitNode ==
  /\ pc = "reap"
  /\ cur < numNodes
  /\ status[cur] = "RUNNING"
  /\ LET result == WaitResult(pid[cur]) IN
     /\ status' = IF result = "reaped" THEN [status EXCEPT ![cur] = "FINISHED"] ELSE status
     /\ proc' = IF result = "reaped" THEN [proc EXCEPT ![pid[cur]] = free] ELSE proc
     /\ pc' = IF result = "ECHILD" THEN "failure" ELSE "reap"
  /\ cur' = cur + 1
  /\ UNCHANGED <<fixed, pid, finished>>

SkipWait ==
  /\ pc = "reap"
  /\ cur < numNodes
  /\ status[cur] # "RUNNING"
  /\ cur' = cur + 1
  /\ UNCHANGED <<pc, fixed, status, pid, finished, proc>>

\* Mutant: the last node is not counted.
HasFinished_OffByOne(i) == status[i] = "FINISHED" /\ i + 1 < numNodes

HasFinished(i) == status[i] = "FINISHED"

\* Its last loop, and the assignment of its result in main.
CountFinished ==
  /\ pc = "reap"
  /\ cur = numNodes
  /\ finished' = Cardinality({i \in Node : HasFinished(i)})
  /\ cur' = 0
  /\ pc' = "fork"
  /\ UNCHANGED <<fixed, status, pid, proc>>

\* Mutant: child_pid is not stored.
StorePid_Lost(p) == UNCHANGED pid

StorePid(p) == pid' = [pid EXCEPT ![cur] = p]

\* One iteration of the fork pass on a READY node: fork returns a pid.
ForkNode ==
  /\ pc = "fork"
  /\ cur < numNodes
  /\ status[cur] = "READY"
  /\ \E p \in Pids :
       /\ ~Used(p)
       /\ proc' = [proc EXCEPT ![p] = [node |-> cur, state |-> "setup"]]
       /\ StorePid(p)
  /\ status' = [status EXCEPT ![cur] = "RUNNING"]
  /\ cur' = cur + 1
  /\ UNCHANGED <<pc, fixed, finished>>

\* Out of pids, fork fails with EAGAIN.
ErrnosOfFork ==
  ForkErrnos \cup (IF \A p \in Pids : Used(p) THEN {"EAGAIN"} ELSE {})

\* It fails: main gives up on EAGAIN and ENOMEM; any other errno falls through
\* the switch and leaves the node READY for the next iteration.
ForkFails ==
  /\ pc = "fork"
  /\ cur < numNodes
  /\ status[cur] = "READY"
  /\ \E errno \in ErrnosOfFork :
       pc' = IF errno \in {"EAGAIN", "ENOMEM"} THEN "failure" ELSE "fork"
  /\ cur' = cur + 1
  /\ UNCHANGED <<fixed, status, pid, finished, proc>>

SkipFork ==
  /\ pc = "fork"
  /\ cur < numNodes
  /\ status[cur] # "READY"
  /\ cur' = cur + 1
  /\ UNCHANGED <<pc, fixed, status, pid, finished, proc>>

EndForkPass ==
  /\ pc = "fork"
  /\ cur = numNodes
  /\ pc' = "status"
  /\ UNCHANGED <<loadVars, runVars>>

\* The loop's condition is false: main returns EXIT_SUCCESS.
Finish ==
  /\ pc = "status"
  /\ AllFinished
  /\ pc' = "success"
  /\ UNCHANGED <<loadVars, runVars>>

Main == \/ Load \/ StartRun
        \/ StatusPass \/ WaitNode \/ SkipWait \/ CountFinished
        \/ ForkNode \/ ForkFails \/ SkipFork \/ EndForkPass
        \/ Finish

-----------------------------------------------------------------------------
(***************************************************************************)
(* The forked processes.                                                   *)
(***************************************************************************)

MainGone == pc \in {"success", "failure", "crashed"}

\* The child has redirected its files and execvp succeeds.
ChildExec(p) ==
  /\ proc[p].state = "setup"
  /\ proc' = [proc EXCEPT ![p].state = "exec"]
  /\ UNCHANGED <<pc, fixed, status, pid, finished, cur>>

\* The program ends, or the child could not open a file or execute it and
\* returns EXIT_FAILURE.  Without a parent to wait for it, it is gone at once.
ChildExit(p) ==
  /\ proc[p].state \in {"setup", "exec"}
  /\ proc' = [proc EXCEPT ![p] = IF ignored \/ MainGone THEN free
                                 ELSE [@ EXCEPT !.state = "zombie"]]
  /\ UNCHANGED <<pc, fixed, status, pid, finished, cur>>

\* init reaps the zombies main left.
InitReaps(p) ==
  /\ MainGone
  /\ proc[p].state = "zombie"
  /\ proc' = [proc EXCEPT ![p] = free]
  /\ UNCHANGED <<pc, fixed, status, pid, finished, cur>>

Child(p) == ChildExec(p) \/ ChildExit(p)

Stopped ==
  /\ MainGone
  /\ UNCHANGED vars

Next == Main \/ (\E p \in Pids : Child(p) \/ InitReaps(p)) \/ Stopped

\* main is a sequential program that never blocks.
Spec == Init /\ [][Next]_vars /\ WF_vars(Main)

-----------------------------------------------------------------------------
(***************************************************************************)
(* Properties.                                                             *)
(***************************************************************************)

\* Every variable has the type the C declarations and the limits give it.
TypeOK ==
  /\ pc \in {"open", "parse", "parents", "print", "status", "reap", "fork",
             "success", "failure", "crashed"}
  /\ file \in GraphFiles
  /\ numNodes \in 0 .. Len(file) /\ numNodes <= MAX_NODES
  /\ children \in [Slot -> Seq(Int)]
  /\ \A s \in Slot : Len(children[s]) <= MAX_CHILDREN
  /\ leftover \in [Slot -> Int]
  /\ numParents \in [Slot -> Int]
  /\ parents \in [Slot -> SUBSET Slot]
  /\ notVisited \in [Slot -> Int]
  /\ nodesDone \in Nat
  /\ status \in [Slot -> {"UNSET", "INELIGIBLE", "READY", "RUNNING", "FINISHED"}]
  /\ pid \in [Slot -> Pids \cup {0}]
  /\ finished \in Nat
  /\ cur \in 0 .. numNodes
  /\ proc \in [Pids -> Process]
  /\ ignored \in BOOLEAN

\* A program never runs while a program it depends on runs: if a node's process
\* exists, every true parent of the node is FINISHED and the process table holds
\* no process of it.  (README: a node is READY once its parents have finished;
\* the code learns of parents by bsearch, of exits by waitpid on a stored pid.)
\* The memory of nodes[] must not make a count too small: a num_parents that is
\* negative before it is incremented hides parents, and the node does start early.
\* One that is too large only makes nodes wait.
DependencyOrder ==
  Searchable /\ NoneNegative =>
    \A p \in Pids : Used(p) =>
      \A q \in Preds(proc[p].node) :
        /\ status[q] = "FINISHED"
        /\ \A r \in Pids : Used(r) => proc[r].node # q

\* Pids stored in nodes[] stay true although the kernel reuses pids: every process
\* is that of the RUNNING node that stores its pid, and while main waits for
\* children (SIGCHLD not ignored) each RUNNING node's pid is a process of its own,
\* so waitpid never reports another node's exit, or ECHILD.
PidOwnership ==
  /\ \A p \in Pids : Used(p) =>
       status[proc[p].node] = "RUNNING" /\ pid[proc[p].node] = p
  /\ ~ignored /\ ~MainGone =>
       \A i \in Node : status[i] = "RUNNING" =>
         pid[i] \in Pids /\ Used(pid[i]) /\ proc[pid[i]].node = i

\* main returns EXIT_SUCCESS only when every line of the file has been run and no
\* process of it is left, neither running nor zombie ("All processes finished").
\* The count that ends the loop is a pass old when it is tested.
CleanSuccess ==
  pc = "success" =>
    /\ \A i \in FileNode : status[i] = "FINISHED"
    /\ \A p \in Pids : ~Used(p)

Running == pc \in {"status", "reap", "fork"}

Exited(q) == \/ status[q] = "FINISHED"
             \/ status[q] = "RUNNING" /\ proc[pid[q]].state = "zombie"

\* There is no barrier: once the programs of all of a node's parents have exited,
\* the node is started, even if every other program runs on for ever.
EligibleStarts ==
  \A i \in Slot :
    (/\ Running /\ i \in FileNode /\ \A q \in Preds(i) : Exited(q)
     /\ Searchable /\ NoJunkCells)
      ~> (status[i] \in {"RUNNING", "FINISHED"} \/ MainGone)

\* If no program runs for ever, every well-formed graph whose file was read is
\* printed and run to its end: the tree loop and the polling loop both terminate.
Completes ==
  (\A p \in Pids : WF_vars(ChildExit(p))) => ((pc = "print" /\ WellFormed) ~> pc = "success")

\* README.md:63-69 for any legal file: without conditions on the order of a
\* child list.
RunsAfterParents ==
  \A p \in Pids : Used(p) =>
    \A q \in Preds(proc[p].node) : status[q] = "FINISHED"

\* README.md:69, "The program ends when all processes have completed their run".
EndsAfterAll == MainGone => \A p \in Pids : proc[p].state \notin {"setup", "exec"}

-----------------------------------------------------------------------------
\* A node that still waits, runs, or is done, as README.md tells it.
Phase(i) == CASE status[i] = "RUNNING"  -> "running"
              [] status[i] = "FINISHED" -> "done"
              [] OTHER                  -> "waiting"

Dag == INSTANCE DagRun WITH
  Nodes <- Slot,
  edges <- {e \in Slot \X Slot : e[1] \in Preds(e[2])},
  phase <- [i \in Slot |-> Phase(i)]

\* The program implements DagRun on files whose edges the parent search sees.
ImplementsDagRun == Dag!Spec
=============================================================================
