--------------------------- MODULE ProcMgt_proofs ---------------------------
(***************************************************************************)
(* Proofs of the safety properties of ProcMgt for every graph file, every  *)
(* limit, every set of pids and every bsearch that meets its contract.     *)
(*                                                                         *)
(* IInv is the inductive invariant.  Its parts follow the data through the *)
(* program: what the parser stored is what the file says (LoadInv), what   *)
(* the parent search stored covers the true parents, unless memory held    *)
(* negative counts in nodes[] (ParentsInv, LeftoverInv), statuses, stored  *)
(* pids and the process table agree (ProcInv), a node leaves INELIGIBLE    *)
(* only after its parents (OrderInv), the count is a lower bound of the    *)
(* FINISHED nodes (CountInv), and the tree starts from no printed nodes    *)
(* (StartInv).  At the end, the binary search of LibC keeps that contract. *)
(***************************************************************************)
EXTENDS ProcMgt, LibC, FiniteSetTheorems, WellFoundedInduction, TLAPS

LoadInv ==
  /\ pc \in {"open", "parse"} => numNodes < MAX_NODES
  /\ pc \in {"parents", "print", "status", "reap", "fork", "success"} =>
       numNodes = Len(file)
  /\ \A k \in Node : children[k] = Kids(file[k + 1])
  /\ pc \in {"open", "parse", "parents", "print"} =>
       \A s \in Slot : status[s] = "UNSET"

ParentsInv ==
  pc \in {"print", "status", "reap", "fork"} /\ Searchable /\ NoneNegative =>
    \A i \in Node : Preds(i) \subseteq parents[i]

LeftoverInv == NoNegativeJunk => NoneNegative

ProcInv ==
  /\ \A i \in Slot : status[i] # "UNSET" => i \in Node
  /\ \A i \in Slot : status[i] = "RUNNING" => pid[i] \in Pids
  /\ \A p \in Pids : Used(p) =>
       status[proc[p].node] = "RUNNING" /\ pid[proc[p].node] = p
  /\ ~ignored /\ ~MainGone =>
       \A i \in Slot : status[i] = "RUNNING" =>
         Used(pid[i]) /\ proc[pid[i]].node = i
  /\ ignored => \A p \in Pids : proc[p].state # "zombie"

OrderInv ==
  Searchable /\ NoneNegative =>
    \A i \in Slot : status[i] \in {"READY", "RUNNING", "FINISHED"} =>
      \A q \in Preds(i) : status[q] = "FINISHED"

FinishedNodes == {i \in Node : status[i] = "FINISHED"}

CountInv == Running => finished <= Cardinality(FinishedNodes)

StartInv == pc \in {"open", "parse", "parents"} => nodesDone = 0

IInv == /\ TypeOK /\ LoadInv /\ ParentsInv /\ LeftoverInv /\ ProcInv /\ OrderInv
        /\ CountInv /\ CleanSuccess /\ StartInv /\ TreeOrder

-----------------------------------------------------------------------------
(***************************************************************************)
(* Facts about the operators the actions use.                              *)
(***************************************************************************)

\* The ids of the parsed nodes are a finite set of numNodes slots.
LEMMA NodeFinite ==
  ASSUME TypeOK
  PROVE  /\ Node \subseteq Slot
         /\ IsFiniteSet(Node)
         /\ Cardinality(Node) = numNodes
<1>1. numNodes \in Nat /\ numNodes <= MAX_NODES
  BY LimitsAssumption DEF TypeOK
<1>2. Node \subseteq Slot
  BY <1>1, LimitsAssumption DEF Node, Slot
<1>3. IsFiniteSet(0 .. numNodes - 1)
      /\ Cardinality(0 .. numNodes - 1) = IF 0 > numNodes - 1 THEN 0 ELSE numNodes - 1 - 0 + 1
  BY <1>1, FS_Interval
<1>4. QED
  BY <1>1, <1>2, <1>3 DEF Node

\* Every line of the file is a Line, so the ids it lists are a sequence of integers.
LEMMA KidsType ==
  ASSUME file \in GraphFiles, NEW k \in DOMAIN file
  PROVE  file[k] \in Line /\ Kids(file[k]) \in Seq(Int)
<1>1. file \in Seq(Line)
  BY GraphFilesAssumption
<1>2. file[k] \in Line
  BY <1>1
<1>3. QED
  BY <1>2 DEF Line, Kids

\* The row of the tree that is printed, and the child cells it decrements, are finite.
LEMMA RowFinite ==
  ASSUME TypeOK
  PROVE  /\ Cardinality(Row) \in Nat
         /\ \A x : Decrements(x) \in Nat
<1>1. Row \subseteq Node /\ IsFiniteSet(Row)
  <2>1. Row \subseteq Node
    BY DEF Row
  <2>2. QED
    BY <2>1, NodeFinite, FS_Subset
<1>2. RowCells \subseteq Node \X (1 .. MAX_CHILDREN)
  <2>1. \A i \in Row : DOMAIN children[i] \subseteq 1 .. MAX_CHILDREN
    BY <1>1, NodeFinite, LimitsAssumption DEF TypeOK
  <2>2. QED
    BY <1>1, <2>1 DEF RowCells
<1>3. IsFiniteSet(Node \X (1 .. MAX_CHILDREN))
  <2>1. IsFiniteSet(1 .. MAX_CHILDREN)
    BY LimitsAssumption, FS_Interval
  <2>2. QED
    BY <2>1, NodeFinite, FS_Product
<1>4. ASSUME NEW x PROVE Decrements(x) \in Nat
  <2>1. {c \in RowCells : children[c[1]][c[2]] = x} \subseteq Node \X (1 .. MAX_CHILDREN)
    BY <1>2
  <2>2. QED
    BY <2>1, <1>3, FS_Subset, FS_CardinalityType DEF Decrements
<1>5. QED
  BY <1>1, <1>4, FS_CardinalityType

\* On a searchable file the parent search finds the true parents: bsearch finds an id
\* in a sorted list exactly if it occurs there.
LEMMA ParentsExact ==
  ASSUME TypeOK, LoadInv, pc = "parents", Searchable, NEW i \in Node
  PROVE  FoundParents(i) = Preds(i) /\ Cardinality(Preds(i)) <= MAX_PARENTS
<1>1. numNodes = Len(file) /\ FileNode = Node /\ file \in Seq(Line) /\ i \in Slot
  BY NodeFinite, GraphFilesAssumption DEF LoadInv, FileNode, Node, TypeOK
<1>2. ASSUME NEW q \in Node
      PROVE  /\ children[q] = Kids(file[q + 1])
             /\ q + 1 \in DOMAIN file
             /\ Bsearch(i, children[q]) => i \in Range(children[q])
             /\ i \in Range(children[q]) => Bsearch(i, children[q])
  <2>1. q + 1 \in DOMAIN file
    BY <1>1 DEF Node
  <2>2. children[q] = Kids(file[q + 1]) /\ Ascending(Kids(file[q + 1]))
    BY <1>1 DEF LoadInv, Searchable
  <2>3. QED
    BY <1>1, <2>1, <2>2, BsearchAssumption DEF TypeOK
<1>3. FoundParents(i) = Preds(i)
  BY <1>1, <1>2 DEF FoundParents, Preds
<1>4. Cardinality(Preds(i)) <= MAX_PARENTS
  BY <1>1 DEF Searchable
<1>5. QED
  BY <1>3, <1>4

\* So it stores them all, as parents[] has room for them, and the status check reads
\* them all unless the count is too small.  It is not if it was not negative before.
LEMMA ParentsFound ==
  ASSUME TypeOK, LoadInv, pc = "parents", Searchable, NEW i \in Node, NEW junk \in StackJunk
  PROVE  /\ IsFiniteSet(Preds(i))
         /\ NumParents(i, junk) = junk.count + Cardinality(Preds(i))
         /\ junk.count >= 0 => NumParents(i, junk) >= Cardinality(Preds(i))
         /\ NumParents(i, junk) >= Cardinality(Preds(i)) => Preds(i) \subseteq ParentCells(i, junk)
<1>1. junk.count \in Int
  BY StackJunkAssumption
<1>2. IsFiniteSet(Preds(i)) /\ Cardinality(Preds(i)) \in Nat
  <2>1. Preds(i) \subseteq Node
    BY DEF LoadInv, FileNode, Node, Preds
  <2>2. QED
    BY <2>1, NodeFinite, FS_Subset, FS_CardinalityType
<1>3. ~Overflows(i) /\ FoundParents(i) = Preds(i)
  BY <1>2, ParentsExact, LimitsAssumption DEF Overflows
<1>4. NumParents(i, junk) = junk.count + Cardinality(Preds(i))
  BY <1>3 DEF NumParents
<1>5. ASSUME NumParents(i, junk) >= Cardinality(Preds(i)), NEW q \in Preds(i)
      PROVE  q \in ParentCells(i, junk)
  <2> DEFINE upTo == {r \in Preds(i) : r <= q}
  <2>1. Cardinality(upTo) <= Cardinality(Preds(i)) /\ Cardinality(upTo) \in Nat
    BY <1>2, FS_Subset, FS_CardinalityType
  <2>2. Cardinality(upTo) <= NumParents(i, junk)
    <3> HIDE DEF upTo
    <3> QED BY <1>1, <1>2, <1>4, <1>5, <2>1
  <2>3. QED
    BY <1>3, <2>2 DEF ParentCells
<1>6. QED
  BY <1>1, <1>2, <1>4, <1>5

-----------------------------------------------------------------------------
\* The invariant holds initially.
LEMMA InitInv == Init => IInv
<1> SUFFICES ASSUME Init PROVE IInv
  OBVIOUS
<1> USE DEF Init, LoadInit
<1>1. Len(file) \in Nat /\ file \in Seq(Line)
  BY GraphFilesAssumption
<1>2. Node = {} /\ numNodes = 0
  BY DEF Node
<1>3. TypeOK
  <2>1. 0 \in Slot
    BY LimitsAssumption DEF Slot
  <2>2. QED
    BY <1>1, <2>1, LimitsAssumption, KernelAssumption DEF TypeOK, free, Process
<1>4. LoadInv
  BY <1>2, LimitsAssumption DEF LoadInv
<1>5. ParentsInv /\ LeftoverInv /\ CountInv /\ CleanSuccess /\ StartInv /\ TreeOrder
  BY DEF ParentsInv, LeftoverInv, NoneNegative, CountInv, Running, CleanSuccess, StartInv,
         TreeOrder
<1>6. ProcInv
  BY DEF ProcInv, Used, free
<1>7. OrderInv
  BY DEF OrderInv
<1>8. QED
  BY <1>3, <1>4, <1>5, <1>6, <1>7 DEF IInv

\* Types are preserved.
LEMMA TypeStep ==
  ASSUME TypeOK, LoadInv, ProcInv, [Next]_vars
  PROVE  TypeOK'
<1>0. /\ file \in Seq(Line) /\ Len(file) \in Nat /\ numNodes \in Nat /\ cur \in Nat
      /\ Node \subseteq Slot
  BY GraphFilesAssumption, NodeFinite DEF TypeOK
<1>1. CASE OpenGraphFile /\ UNCHANGED runVars
  BY <1>1 DEF TypeOK, OpenGraphFile, loadVars, runVars, Process
<1>2. CASE AddNode /\ UNCHANGED runVars
  <2>1. numNodes \in Slot /\ numNodes + 1 \in DOMAIN file /\ numNodes + 1 <= MAX_NODES
    BY <1>0, <1>2, LimitsAssumption DEF AddNode, LoadInv, Slot
  <2>2. /\ Kids(file[numNodes + 1]) \in Seq(Int)
        /\ Len(Kids(file[numNodes + 1])) <= MAX_CHILDREN
    <3>1. Kids(file[numNodes + 1]) \in Seq(Int)
      BY <2>1, KidsType DEF TypeOK
    <3>2. ParseInputLine(file[numNodes + 1], numNodes) = "ok"
      BY <1>2 DEF AddNode
    <3>3. ~ (Len(Kids(file[numNodes + 1])) > MAX_CHILDREN)
      BY <3>2 DEF ParseInputLine
    <3>4. QED
      BY <3>1, <3>3, LimitsAssumption
  <2>3. children' \in [Slot -> Seq(Int)] /\ \A s \in Slot : Len(children'[s]) <= MAX_CHILDREN
    BY <1>2, <2>1, <2>2 DEF AddNode, TypeOK
  <2>4. pc' \in {"parse", "failure"} /\ numNodes' = numNodes + 1
    BY <1>2 DEF AddNode
  <2>5. QED
    BY <1>0, <1>2, <2>1, <2>3, <2>4 DEF TypeOK, AddNode, runVars, Process
<1>3. CASE RejectLine /\ UNCHANGED runVars
  BY <1>3 DEF TypeOK, RejectLine, loadVars, runVars, Process
<1>4. CASE EndOfFile /\ UNCHANGED runVars
  BY <1>4 DEF TypeOK, EndOfFile, loadVars, runVars, Process
<1>5. CASE ParseNodeParents /\ UNCHANGED runVars
  <2>1. PICK junk \in [Node -> StackJunk] :
          /\ leftover' = [s \in Slot |-> IF s \in Node THEN junk[s].count ELSE leftover[s]]
          /\ numParents' = [s \in Slot |-> IF s \in Node THEN NumParents(s, junk[s])
                                           ELSE numParents[s]]
          /\ parents' = [s \in Slot |-> IF s \in Node THEN ParentCells(s, junk[s])
                                        ELSE parents[s]]
    BY <1>5 DEF ParseNodeParents
  <2>2. ASSUME NEW s \in Node
        PROVE  ParentCells(s, junk[s]) \subseteq Slot /\ NumParents(s, junk[s]) \in Int
    <3>1. FoundParents(s) \subseteq Node /\ FoundParents(s) \subseteq Slot
      BY <1>0 DEF FoundParents
    <3>2. junk[s].count \in Int /\ junk[s].cells \subseteq Slot
      BY StackJunkAssumption
    <3>3. Cardinality(FoundParents(s)) \in Nat
      BY <3>1, NodeFinite, FS_Subset, FS_CardinalityType
    <3>4. NumParents(s, junk[s]) \in Int
      BY <3>2, <3>3, LimitsAssumption DEF NumParents
    <3>5. CASE ~Overflows(s)
      <4> DEFINE read == {q \in FoundParents(s) :
                            Cardinality({r \in FoundParents(s) : r <= q}) <= NumParents(s, junk[s])}
      <4>1. ParentCells(s, junk[s]) = read \cup junk[s].cells
        BY <3>5 DEF ParentCells
      <4>2. read \subseteq FoundParents(s)
        OBVIOUS
      <4> HIDE DEF read
      <4>3. QED
        BY <3>1, <3>2, <3>4, <4>1, <4>2
    <3>6. CASE Overflows(s)
      <4>1. FoundParents(s) = 0 .. MAX_PARENTS /\ MAX_PARENTS + 1 \in Node
        BY <1>5, <3>6 DEF ParseNodeParents, OverflowBound
      <4>2. 0 .. MAX_PARENTS - 1 \subseteq 0 .. MAX_PARENTS
        BY LimitsAssumption
      <4>3. ParentCells(s, junk[s]) = (0 .. MAX_PARENTS - 1) \cup {MAX_PARENTS + 1}
        BY <3>6 DEF ParentCells
      <4>4. QED
        BY <1>0, <3>1, <3>4, <4>1, <4>2, <4>3
    <3>7. QED
      BY <3>4, <3>5, <3>6
  <2>3. parents' \in [Slot -> SUBSET Slot]
    BY <2>1, <2>2 DEF TypeOK
  <2>4. /\ leftover' \in [Slot -> Int]
        /\ numParents' \in [Slot -> Int]
        /\ notVisited' \in [Slot -> Int]
    <3>1. leftover' \in [Slot -> Int]
      BY <2>1, StackJunkAssumption DEF TypeOK
    <3>2. QED
      BY <1>5, <2>1, <2>2, <3>1 DEF TypeOK, ParseNodeParents
  <2>5. QED
    BY <1>5, <2>3, <2>4 DEF TypeOK, ParseNodeParents, runVars, Process
<1>6. CASE PrintRow /\ UNCHANGED runVars
  <2>1. notVisited' \in [Slot -> Int]
    BY <1>6, RowFinite DEF TypeOK, PrintRow
  <2>2. nodesDone' \in Nat
    <3>1. nodesDone \in Nat /\ nodesDone' = nodesDone + Cardinality(Row)
      BY <1>6 DEF TypeOK, PrintRow
    <3>2. QED
      BY <3>1, RowFinite
  <2>3. pc' \in {"print", "crashed"}
    BY <1>6 DEF PrintRow
  <2>4. QED
    BY <1>6, <2>1, <2>2, <2>3 DEF TypeOK, PrintRow, runVars, Process
<1>7. CASE StartRun
  BY <1>7 DEF TypeOK, StartRun, TreePrinted, loadVars, Process
<1>8. CASE StatusPass
  BY <1>0, <1>8 DEF TypeOK, StatusPass, fixed, loadVars, Process
<1>9. CASE WaitNode
  <2>1. cur \in Node /\ cur \in Slot /\ cur + 1 \in 0 .. numNodes
    BY <1>0, <1>9 DEF WaitNode, Node
  <2>2. pid[cur] \in Pids
    BY <1>9, <2>1 DEF WaitNode, ProcInv
  <2>3. free \in Process
    BY LimitsAssumption DEF free, Process, Slot
  <2>4. proc' \in [Pids -> Process]
    BY <1>9, <2>2, <2>3 DEF WaitNode, TypeOK
  <2>5. status' \in [Slot -> {"UNSET", "INELIGIBLE", "READY", "RUNNING", "FINISHED"}]
    BY <1>9, <2>1 DEF WaitNode, TypeOK
  <2>6. pc' \in {"failure", "reap"} /\ cur' = cur + 1
    BY <1>9 DEF WaitNode
  <2>7. QED
    BY <1>9, <2>1, <2>4, <2>5, <2>6 DEF WaitNode, TypeOK, fixed, loadVars
<1>10. CASE SkipWait
  BY <1>0, <1>10 DEF TypeOK, SkipWait, fixed, loadVars, Process
<1>11. CASE CountFinished
  <2>1. finished' \in Nat
    <3>1. {i \in Node : status[i] = "FINISHED"} \subseteq Node
      OBVIOUS
    <3>2. IsFiniteSet({i \in Node : status[i] = "FINISHED"})
      BY <3>1, NodeFinite, FS_Subset
    <3>3. QED
      BY <1>11, <3>2, FS_CardinalityType DEF CountFinished, HasFinished
  <2>2. QED
    BY <1>0, <1>11, <2>1 DEF TypeOK, CountFinished, fixed, loadVars, Process
<1>12. CASE ForkNode
  <2>1. cur \in Node /\ cur \in Slot /\ cur + 1 \in 0 .. numNodes
    BY <1>0, <1>12 DEF ForkNode, Node
  <2>2. [node |-> cur, state |-> "setup"] \in Process
    BY <2>1 DEF Process
  <2>3. proc' \in [Pids -> Process] /\ pid' \in [Slot -> Pids \cup {0}]
    BY <1>12, <2>1, <2>2 DEF ForkNode, StorePid, TypeOK
  <2>4. status' \in [Slot -> {"UNSET", "INELIGIBLE", "READY", "RUNNING", "FINISHED"}]
    BY <1>12, <2>1 DEF ForkNode, TypeOK
  <2>5. QED
    BY <1>12, <2>1, <2>3, <2>4 DEF ForkNode, TypeOK, fixed, loadVars
<1>13. CASE ForkFails
  BY <1>0, <1>13 DEF TypeOK, ForkFails, fixed, loadVars, Process
<1>14. CASE SkipFork
  BY <1>0, <1>14 DEF TypeOK, SkipFork, fixed, loadVars, Process
<1>15. CASE EndForkPass
  BY <1>15 DEF TypeOK, EndForkPass, runVars, loadVars, Process
<1>16. CASE Finish
  BY <1>16 DEF TypeOK, Finish, runVars, loadVars, Process
<1>17. ASSUME NEW p \in Pids, Child(p) \/ InitReaps(p)
       PROVE  TypeOK'
  <2>1. free \in Process
    BY LimitsAssumption DEF free, Process, Slot
  <2>2. proc' \in [Pids -> Process]
    <3>1. proc[p] \in Process /\ proc \in [Pids -> Process]
      BY DEF TypeOK
    <3>2. PICK r \in Process : proc' = [proc EXCEPT ![p] = r]
      <4>1. /\ [proc[p] EXCEPT !.state = "exec"] \in Process
            /\ [proc[p] EXCEPT !.state = "zombie"] \in Process
        BY <3>1 DEF Process
      <4>2. \/ proc' = [proc EXCEPT ![p] = [proc[p] EXCEPT !.state = "exec"]]
            \/ proc' = [proc EXCEPT ![p] = [proc[p] EXCEPT !.state = "zombie"]]
            \/ proc' = [proc EXCEPT ![p] = free]
        BY <1>17 DEF Child, ChildExec, ChildExit, InitReaps
      <4>3. QED
        BY <2>1, <4>1, <4>2
    <3>3. QED
      BY <3>1, <3>2
  <2>3. QED
    BY <1>17, <2>2 DEF Child, ChildExec, ChildExit, InitReaps, TypeOK, fixed, loadVars
<1>18. CASE UNCHANGED vars
  BY <1>18 DEF TypeOK, vars, runVars, loadVars, Process
<1>19. QED
  BY <1>1, <1>2, <1>3, <1>4, <1>5, <1>6, <1>7, <1>8, <1>9, <1>10, <1>11, <1>12,
     <1>13, <1>14, <1>15, <1>16, <1>17, <1>18
     DEF Next, Main, Load, LoadNext, Stopped

\* The file is never changed, and with it what it says.
LEMMA FileSame ==
  ASSUME [Next]_vars
  PROVE  /\ file' = file
         /\ FileNode' = FileNode
         /\ Searchable' <=> Searchable
         /\ \A i : Preds(i)' = Preds(i)
<1>1. file' = file
  BY DEF Next, Main, Load, LoadNext, OpenGraphFile, AddNode, RejectLine, EndOfFile,
         ParseNodeParents, PrintRow, StartRun, TreePrinted, StatusPass, WaitNode, SkipWait,
         CountFinished, ForkNode, ForkFails, SkipFork, EndForkPass, Finish, Child,
         ChildExec, ChildExit, InitReaps, Stopped, vars, fixed, loadVars
<1>2. QED
  BY <1>1 DEF FileNode, Preds, Searchable

\* What a step of loading, of the run loop and of the environment leaves alone.
LEMMA Frames ==
  ASSUME [Next]_vars
  PROVE  \/ LoadNext /\ UNCHANGED runVars
         \/ StartRun
         \/ StatusPass
         \/ WaitNode
         \/ CountFinished
         \/ ForkNode
         \/ /\ UNCHANGED <<loadVars, status, pid, finished, proc, ignored>>
            /\ \/ pc' = pc
               \/ pc = "fork" /\ pc' \in {"status", "failure"}
               \/ pc = "status" /\ finished >= numNodes /\ pc' = "success"
         \/ /\ UNCHANGED <<pc, loadVars, status, pid, finished, ignored>>
            /\ \E p \in Pids : Child(p) \/ InitReaps(p)
<1>1. CASE SkipWait \/ ForkFails \/ SkipFork \/ EndForkPass \/ Finish \/ UNCHANGED vars
  BY <1>1 DEF SkipWait, ForkFails, SkipFork, EndForkPass, Finish, AllFinished, vars, runVars, fixed
<1>2. ASSUME NEW p \in Pids, Child(p) \/ InitReaps(p)
      PROVE  UNCHANGED <<pc, loadVars, status, pid, finished, ignored>>
  BY <1>2 DEF Child, ChildExec, ChildExit, InitReaps, fixed
<1>3. QED
  BY <1>1, <1>2 DEF Next, Main, Load, Stopped

\* Behind the front end nothing looks at what memory held.
LEMMA LeftoverSame ==
  ASSUME [Next]_vars, ~(LoadNext /\ UNCHANGED runVars)
  PROVE  NoneNegative' <=> NoneNegative
<1>1. UNCHANGED leftover
  <2>1. CASE StartRun \/ StatusPass \/ WaitNode \/ CountFinished \/ ForkNode
    BY <2>1 DEF StartRun, TreePrinted, StatusPass, WaitNode, CountFinished, ForkNode,
                fixed, loadVars
  <2>2. CASE UNCHANGED loadVars
    BY <2>2 DEF loadVars
  <2>3. QED
    BY <2>1, <2>2, Frames
<1>2. QED
  BY <1>1 DEF NoneNegative

\* nodes[] holds what the file says.
LEMMA LoadStep ==
  ASSUME TypeOK, LoadInv, [Next]_vars
  PROVE  LoadInv'
<1>0. numNodes \in Nat /\ Node \subseteq Slot
  BY GraphFilesAssumption, NodeFinite DEF TypeOK
<1>1. CASE LoadNext /\ UNCHANGED runVars
  <2>1. CASE OpenGraphFile
    BY <1>1, <2>1 DEF LoadInv, OpenGraphFile, loadVars, runVars, Node
  <2>2. CASE AddNode
    <3>1. numNodes \in Slot /\ Node' = Node \cup {numNodes}
      BY <1>0, <2>2, LimitsAssumption DEF AddNode, LoadInv, Slot, Node
    <3>2. \A k \in Node' : children'[k] = Kids(file'[k + 1])
      <4>1. children' = [children EXCEPT ![numNodes] = Kids(file[numNodes + 1])]
        BY <2>2 DEF AddNode
      <4>2. \A k \in Node : k # numNodes
        BY <1>0 DEF Node
      <4>3. file' = file
        BY <2>2 DEF AddNode
      <4>4. QED
        BY <1>0, <3>1, <4>1, <4>2, <4>3 DEF LoadInv, TypeOK
    <3>3. pc' = "parse" => numNodes' < MAX_NODES
      BY <1>0, <2>2, LimitsAssumption DEF AddNode, AtLimit
    <3>4. pc' \in {"parse", "failure"} /\ status' = status
      BY <1>1, <2>2 DEF AddNode, runVars
    <3>5. QED
      BY <2>2, <3>2, <3>3, <3>4 DEF LoadInv, AddNode
  <2>3. CASE RejectLine
    BY <1>1, <2>3 DEF LoadInv, RejectLine, loadVars, runVars, Node
  <2>4. CASE EndOfFile
    BY <1>1, <2>4 DEF LoadInv, EndOfFile, loadVars, runVars, Node
  <2>5. CASE ParseNodeParents
    BY <1>1, <2>5 DEF LoadInv, ParseNodeParents, runVars, Node
  <2>6. CASE PrintRow
    BY <1>1, <2>6 DEF LoadInv, PrintRow, runVars, Node
  <2>7. QED
    BY <1>1, <2>1, <2>2, <2>3, <2>4, <2>5, <2>6 DEF LoadNext
<1>2. CASE StartRun
  BY <1>2 DEF LoadInv, StartRun, TreePrinted, loadVars, Node
<1>3. CASE StatusPass
  BY <1>3 DEF LoadInv, StatusPass, fixed, loadVars, Node
<1>4. CASE WaitNode
  BY <1>4 DEF LoadInv, WaitNode, fixed, loadVars, Node
<1>5. CASE CountFinished
  BY <1>5 DEF LoadInv, CountFinished, fixed, loadVars, Node
<1>6. CASE ForkNode
  BY <1>6 DEF LoadInv, ForkNode, fixed, loadVars, Node
<1>7. CASE /\ UNCHANGED <<loadVars, status, pid, finished, proc, ignored>>
           /\ \/ pc' = pc
              \/ pc = "fork" /\ pc' \in {"status", "failure"}
              \/ pc = "status" /\ finished >= numNodes /\ pc' = "success"
  BY <1>7 DEF LoadInv, loadVars, Node
<1>8. CASE UNCHANGED <<pc, loadVars, status, pid, finished, ignored>>
  BY <1>8 DEF LoadInv, loadVars, Node
<1>9. QED
  BY <1>1, <1>2, <1>3, <1>4, <1>5, <1>6, <1>7, <1>8, Frames

\* After parse_node_parents the true parents stay among the stored ones, if no count
\* was negative before.
LEMMA ParentsStep ==
  ASSUME TypeOK, LoadInv, ParentsInv, LeftoverInv, [Next]_vars
  PROVE  ParentsInv' /\ LeftoverInv'
<1>0. Node \subseteq Slot
  BY NodeFinite
<1>1. CASE ParseNodeParents
  <2>1. Node' = Node /\ pc = "parents"
    BY <1>1 DEF ParseNodeParents, Node
  <2>2. PICK junk \in [Node -> StackJunk] :
          /\ leftover' = [s \in Slot |-> IF s \in Node THEN junk[s].count ELSE leftover[s]]
          /\ parents' = [s \in Slot |-> IF s \in Node THEN ParentCells(s, junk[s])
                                        ELSE parents[s]]
    BY <1>1 DEF ParseNodeParents
  <2>3. ASSUME Searchable, NoneNegative', NEW i \in Node
        PROVE  Preds(i) \subseteq parents'[i]
    <3>1. parents'[i] = ParentCells(i, junk[i]) /\ junk[i].count >= 0
      BY <1>0, <2>2, <2>3 DEF NoneNegative
    <3>2. QED
      BY <2>1, <2>3, <3>1, ParentsFound
  <2>4. ASSUME NoNegativeJunk PROVE NoneNegative'
    <3>1. ASSUME NEW s \in Slot PROVE leftover'[s] >= 0
      <4>1. CASE s \in Node
        BY <2>2, <2>4, <4>1 DEF NoNegativeJunk
      <4>2. CASE s \notin Node
        BY <2>2, <2>4, <4>2 DEF LeftoverInv, NoneNegative
      <4>3. QED
        BY <4>1, <4>2
    <3>2. QED
      BY <3>1 DEF NoneNegative
  <2>5. QED
    BY <2>1, <2>3, <2>4, FileSame DEF ParentsInv, LeftoverInv, NoNegativeJunk
<1>2. CASE /\ UNCHANGED leftover
           /\ \/ pc' \notin {"print", "status", "reap", "fork"}
              \/ /\ UNCHANGED <<numNodes, parents>>
                 /\ pc \in {"print", "status", "reap", "fork"}
  BY <1>2, FileSame DEF ParentsInv, LeftoverInv, NoneNegative, NoNegativeJunk, Node
<1>3. \/ ParseNodeParents
      \/ /\ UNCHANGED leftover
         /\ \/ pc' \notin {"print", "status", "reap", "fork"}
            \/ /\ UNCHANGED <<numNodes, parents>>
               /\ pc \in {"print", "status", "reap", "fork"}
  <2>1. CASE LoadNext
    BY <2>1 DEF LoadNext, OpenGraphFile, AddNode, RejectLine, EndOfFile, PrintRow, loadVars
  <2>2. CASE StartRun \/ StatusPass \/ WaitNode \/ CountFinished \/ ForkNode
    BY <2>2 DEF StartRun, TreePrinted, StatusPass, WaitNode, CountFinished, ForkNode,
                fixed, loadVars
  <2>3. CASE /\ UNCHANGED <<loadVars, status, pid, finished, proc, ignored>>
             /\ \/ pc' = pc
                \/ pc = "fork" /\ pc' \in {"status", "failure"}
                \/ pc = "status" /\ finished >= numNodes /\ pc' = "success"
    BY <2>3 DEF loadVars
  <2>4. CASE UNCHANGED <<pc, loadVars, status, pid, finished, ignored>>
    BY <2>4 DEF loadVars
  <2>5. QED
    BY <2>1, <2>2, <2>3, <2>4, Frames
<1>4. QED
  BY <1>1, <1>2, <1>3

\* Statuses, stored pids and the process table go on agreeing: fork gives the node a
\* pid no other node's process has, waitpid frees the entry of exactly the node that
\* becomes FINISHED.
LEMMA ProcStep ==
  ASSUME TypeOK, LoadInv, ProcInv, [Next]_vars
  PROVE  ProcInv'
<1>0. numNodes \in Nat /\ Node \subseteq Slot /\ cur \in Int
  BY GraphFilesAssumption, NodeFinite DEF TypeOK
<1>1. CASE LoadNext /\ UNCHANGED runVars
  <2>1. /\ pc \in {"open", "parse", "parents", "print"}
        /\ \A i \in Slot : status[i] = "UNSET"
    BY <1>1 DEF LoadNext, OpenGraphFile, AddNode, RejectLine, EndOfFile, ParseNodeParents,
                PrintRow, LoadInv
  <2>2. \A p \in Pids : proc[p].node \in Slot
    BY DEF TypeOK, Process
  <2>3. \A p \in Pids : ~Used(p)
    BY <2>1, <2>2 DEF ProcInv
  <2>4. QED
    BY <1>1, <2>1, <2>3 DEF ProcInv, Used, runVars
<1>2. CASE StartRun
  <2>1. \A i \in Slot : status[i] = "UNSET"
    BY <1>2 DEF StartRun, TreePrinted, LoadInv
  <2>2. \A p \in Pids : proc[p].node \in Slot
    BY DEF TypeOK, Process
  <2>3. \A p \in Pids : ~Used(p)
    BY <2>1, <2>2 DEF ProcInv
  <2>4. /\ \A i \in Slot : status'[i] # "UNSET" => i \in Node
        /\ \A i \in Slot : status'[i] # "RUNNING"
    BY <1>2, <2>1 DEF StartRun
  <2>5. UNCHANGED <<numNodes, proc, pid, ignored>>
    BY <1>2 DEF StartRun, TreePrinted, loadVars
  <2>6. QED
    BY <2>3, <2>4, <2>5 DEF ProcInv, Used, Node
<1>3. CASE StatusPass
  <2>1. /\ UNCHANGED <<numNodes, proc, pid, ignored>>
        /\ pc = "status" /\ pc' = "reap"
    BY <1>3 DEF StatusPass, fixed, loadVars
  <2>2. ASSUME NEW i \in Slot
        PROVE  /\ status'[i] = "RUNNING" <=> status[i] = "RUNNING"
               /\ status'[i] # "UNSET" => i \in Node
    BY <1>3 DEF StatusPass, Eligible, ProcInv
  <2>3. \A p \in Pids : proc[p].node \in Slot
    BY DEF TypeOK, Process
  <2>4. QED
    BY <2>1, <2>2, <2>3 DEF ProcInv, Used, MainGone, Node
<1>4. CASE WaitNode
  <2>1. /\ cur \in Slot /\ status[cur] = "RUNNING" /\ pid[cur] \in Pids
        /\ UNCHANGED <<numNodes, pid, ignored>>
        /\ pc = "reap" /\ pc' \in {"reap", "failure"}
    BY <1>0, <1>4 DEF WaitNode, ProcInv, TypeOK, fixed, loadVars, Node, Slot
  <2>2. CASE WaitResult(pid[cur]) = "reaped"
    <3>1. proc[pid[cur]].state = "zombie"
      BY <2>2 DEF WaitResult
    <3>2. ~ignored /\ Used(pid[cur]) /\ proc[pid[cur]].node = cur
      BY <2>1, <3>1 DEF ProcInv, MainGone
    <3>3. /\ status' = [status EXCEPT ![cur] = "FINISHED"]
          /\ proc' = [proc EXCEPT ![pid[cur]] = free]
      BY <1>4, <2>2 DEF WaitNode
    <3>4. \A p \in Pids : Used(p)' => Used(p) /\ p # pid[cur] /\ proc'[p] = proc[p]
      BY <2>1, <3>3 DEF Used, free, TypeOK
    <3>5. \A p \in Pids : Used(p)' => proc[p].node # cur /\ proc[p].node \in Slot
      BY <3>4 DEF ProcInv, TypeOK, Process
    <3>6. \A i \in Slot : i # cur => status'[i] = status[i]
      BY <2>1, <3>3 DEF TypeOK
    <3>7. status'[cur] = "FINISHED"
      BY <2>1, <3>3 DEF TypeOK
    <3>8. \A i \in Slot : status'[i] # "UNSET" => i \in Node'
      BY <2>1, <3>6 DEF ProcInv, Node
    <3>9. \A p \in Pids : Used(p)' =>
            status'[proc'[p].node] = "RUNNING" /\ pid'[proc'[p].node] = p
      BY <2>1, <3>4, <3>5, <3>6 DEF ProcInv
    <3>10. \A i \in Slot : status'[i] = "RUNNING" =>
             /\ i # cur /\ pid'[i] \in Pids
             /\ Used(pid[i])' /\ proc'[pid'[i]].node = i
      <4>1. \A i \in Slot : status'[i] = "RUNNING" => i # cur /\ status[i] = "RUNNING"
        BY <3>6, <3>7
      <4>2. \A i \in Slot : status[i] = "RUNNING" =>
              pid[i] \in Pids /\ Used(pid[i]) /\ proc[pid[i]].node = i
        BY <2>1, <3>2 DEF ProcInv, MainGone
      <4>3. \A i \in Slot : status'[i] = "RUNNING" => pid[i] # pid[cur]
        BY <3>2, <4>1, <4>2
      <4>4. \A p \in Pids : p # pid[cur] => proc'[p] = proc[p]
        BY <2>1, <3>3 DEF TypeOK
      <4>5. QED
        BY <2>1, <4>1, <4>2, <4>3, <4>4 DEF Used
    <3>11. QED
      BY <2>1, <3>2, <3>8, <3>9, <3>10 DEF ProcInv, Used
  <2>3. CASE WaitResult(pid[cur]) # "reaped"
    <3>1. UNCHANGED <<status, proc>>
      BY <1>4, <2>3 DEF WaitNode
    <3>2. QED
      BY <2>1, <3>1 DEF ProcInv, Used, MainGone, Node
  <2>4. QED
    BY <2>2, <2>3
<1>5. CASE CountFinished
  BY <1>5 DEF ProcInv, CountFinished, fixed, loadVars, Used, MainGone, Node
<1>6. CASE ForkNode
  <2>1. /\ cur \in Node /\ cur \in Slot /\ status[cur] = "READY"
        /\ UNCHANGED <<pc, numNodes, ignored>> /\ pc = "fork"
    BY <1>0, <1>6 DEF ForkNode, TypeOK, fixed, loadVars, Node
  <2>2. PICK p \in Pids : /\ ~Used(p)
                          /\ proc' = [proc EXCEPT ![p] = [node |-> cur, state |-> "setup"]]
                          /\ pid' = [pid EXCEPT ![cur] = p]
    BY <1>6 DEF ForkNode, StorePid
  <2>3. status' = [status EXCEPT ![cur] = "RUNNING"]
    BY <1>6 DEF ForkNode
  <2>4. /\ proc'[p] = [node |-> cur, state |-> "setup"]
        /\ \A r \in Pids : r # p => proc'[r] = proc[r]
    BY <2>2 DEF TypeOK
  <2>5. /\ status'[cur] = "RUNNING" /\ pid'[cur] = p
        /\ \A i \in Slot : i # cur => status'[i] = status[i] /\ pid'[i] = pid[i]
    BY <2>1, <2>2, <2>3 DEF TypeOK
  <2>6. \A r \in Pids : Used(r) => proc[r].node # cur /\ proc[r].node \in Slot
    BY <2>1 DEF ProcInv, TypeOK, Process
  <2>7. \A i \in Slot : status'[i] # "UNSET" => i \in Node'
    BY <2>1, <2>5 DEF ProcInv, Node
  <2>8. \A r \in Pids : Used(r)' =>
          status'[proc'[r].node] = "RUNNING" /\ pid'[proc'[r].node] = r
    BY <2>4, <2>5, <2>6 DEF ProcInv, Used
  <2>9. \A i \in Slot : status'[i] = "RUNNING" => pid'[i] \in Pids
    BY <2>5 DEF ProcInv
  <2>10. ASSUME ~ignored, NEW i \in Slot, status'[i] = "RUNNING"
         PROVE  Used(pid[i])' /\ proc'[pid'[i]].node = i
    <3>1. CASE i = cur
      BY <2>4, <2>5, <3>1 DEF Used
    <3>2. CASE i # cur
      <4>1. Used(pid[i]) /\ pid[i] \in Pids /\ proc[pid[i]].node = i
        BY <2>1, <2>5, <2>10, <3>2 DEF ProcInv, MainGone
      <4>2. pid[i] # p
        BY <2>2, <4>1
      <4>3. QED
        BY <2>4, <2>5, <3>2, <4>1, <4>2 DEF Used
    <3>3. QED
      BY <3>1, <3>2
  <2>11. ignored => \A r \in Pids : proc'[r].state # "zombie"
    BY <2>4 DEF ProcInv
  <2>12. QED
    BY <2>1, <2>7, <2>8, <2>9, <2>10, <2>11 DEF ProcInv, Used
<1>7. CASE /\ UNCHANGED <<loadVars, status, pid, finished, proc, ignored>>
           /\ \/ pc' = pc
              \/ pc = "fork" /\ pc' \in {"status", "failure"}
              \/ pc = "status" /\ finished >= numNodes /\ pc' = "success"
  BY <1>7 DEF ProcInv, loadVars, Used, MainGone, Node
<1>8. CASE /\ UNCHANGED <<pc, loadVars, status, pid, finished, ignored>>
           /\ \E p \in Pids : Child(p) \/ InitReaps(p)
  <2>1. PICK p \in Pids : Child(p) \/ InitReaps(p)
    BY <1>8
  <2>2. /\ Used(p)
        /\ \A r \in Pids : r # p => proc'[r] = proc[r]
    BY <2>1 DEF Child, ChildExec, ChildExit, InitReaps, Used, TypeOK
  <2>3. \/ /\ proc'[p].node = proc[p].node
           /\ proc'[p].state \in {"exec", "zombie"}
           /\ ignored => proc'[p].state = "exec"
        \/ proc'[p] = free /\ (ignored \/ MainGone)
    <3>1. CASE ChildExec(p)
      BY <3>1 DEF ChildExec, TypeOK, Process
    <3>2. CASE ChildExit(p)
      BY <3>2 DEF ChildExit, TypeOK, Process
    <3>3. CASE InitReaps(p)
      BY <3>3 DEF InitReaps, TypeOK
    <3>4. QED
      BY <2>1, <3>1, <3>2, <3>3 DEF Child
  <2>4. \A r \in Pids : Used(r)' => Used(r) /\ proc'[r].node = proc[r].node
    BY <2>2, <2>3 DEF Used, free
  <2>5. ~ignored /\ ~MainGone =>
          \A r \in Pids : Used(r) => Used(r)' /\ proc'[r].node = proc[r].node
    BY <2>2, <2>3 DEF Used
  <2>6. ignored => \A r \in Pids : proc'[r].state # "zombie"
    BY <2>2, <2>3 DEF ProcInv, free
  <2>7. UNCHANGED <<pc, numNodes, status, pid, ignored>>
    BY <1>8 DEF loadVars
  <2>8. QED
    BY <2>4, <2>5, <2>6, <2>7 DEF ProcInv, Used, MainGone, Node
<1>9. QED
  BY <1>1, <1>2, <1>3, <1>4, <1>5, <1>6, <1>7, <1>8, Frames

\* A node leaves INELIGIBLE only when its true parents are FINISHED, which they stay.
LEMMA OrderStep ==
  ASSUME TypeOK, LoadInv, ParentsInv, ProcInv, OrderInv, [Next]_vars
  PROVE  OrderInv'
<1> SUFFICES ASSUME Searchable, NoneNegative',
                    NEW i \in Slot, status'[i] \in {"READY", "RUNNING", "FINISHED"},
                    NEW q \in Preds(i)
             PROVE  status'[q] = "FINISHED"
  BY FileSame DEF OrderInv
<1>0. numNodes \in Nat /\ Node \subseteq Slot /\ cur \in Int
  BY GraphFilesAssumption, NodeFinite DEF TypeOK
<1>a. NoneNegative
  <2>1. CASE LoadNext /\ UNCHANGED runVars
    <3>1. pc \in {"open", "parse", "parents", "print"} /\ status' = status
      BY <2>1 DEF LoadNext, OpenGraphFile, AddNode, RejectLine, EndOfFile, ParseNodeParents,
                  PrintRow, runVars
    <3>2. QED
      BY <3>1 DEF LoadInv
  <2>2. CASE ~(LoadNext /\ UNCHANGED runVars)
    BY <2>2, LeftoverSame
  <2>3. QED
    BY <2>1, <2>2
<1>1. CASE UNCHANGED status
  BY <1>a, <1>1 DEF OrderInv
<1>2. CASE StartRun
  BY <1>2 DEF StartRun, TreePrinted, LoadInv
<1>3. CASE StatusPass
  <2>1. i \in Node
    BY <1>3 DEF StatusPass, ProcInv
  <2>2. FileNode = Node /\ q \in Slot
    BY <1>0, <1>3 DEF StatusPass, LoadInv, FileNode, Node, Preds
  <2>3. CASE Eligible(i)
    <3>1. Preds(i) \subseteq parents[i]
      BY <1>a, <1>3, <2>1 DEF StatusPass, ParentsInv
    <3>2. status[q] = "FINISHED"
      BY <2>3, <3>1 DEF Eligible
    <3>3. QED
      BY <1>3, <2>2, <3>2 DEF StatusPass, Eligible
  <2>4. CASE ~Eligible(i)
    <3>1. status[q] = "FINISHED"
      BY <1>a, <1>3, <2>4 DEF StatusPass, OrderInv
    <3>2. QED
      BY <1>3, <2>2, <3>1 DEF StatusPass, Eligible
  <2>5. QED
    BY <2>3, <2>4
<1>4. CASE WaitNode
  <2>1. cur \in Slot /\ status[cur] = "RUNNING" /\ FileNode = Node
    BY <1>0, <1>4 DEF WaitNode, LoadInv, FileNode, Node, Slot, TypeOK
  <2>2. status' \in {status, [status EXCEPT ![cur] = "FINISHED"]}
    BY <1>4 DEF WaitNode
  <2>3. status[i] \in {"READY", "RUNNING", "FINISHED"} /\ q \in Slot
    BY <1>0, <2>1, <2>2 DEF TypeOK, Preds
  <2>4. QED
    BY <1>a, <2>1, <2>2, <2>3 DEF OrderInv, TypeOK
<1>5. CASE ForkNode
  <2>1. cur \in Slot /\ status[cur] = "READY" /\ FileNode = Node
    BY <1>0, <1>5 DEF ForkNode, LoadInv, FileNode, Node, Slot, TypeOK
  <2>2. status' = [status EXCEPT ![cur] = "RUNNING"]
    BY <1>5 DEF ForkNode
  <2>3. status[i] \in {"READY", "RUNNING", "FINISHED"} /\ q \in Slot
    BY <1>0, <2>1, <2>2 DEF TypeOK, Preds
  <2>4. status[q] = "FINISHED" /\ q # cur
    BY <1>a, <2>1, <2>3 DEF OrderInv
  <2>5. QED
    BY <2>2, <2>3, <2>4 DEF TypeOK
<1>6. QED
  BY <1>1, <1>2, <1>3, <1>4, <1>5, Frames DEF CountFinished, runVars, fixed

\* The count is at most the number of FINISHED nodes: it is exact when it is made, and
\* afterwards nodes only become FINISHED.
LEMMA CountStep ==
  ASSUME TypeOK, LoadInv, CountInv, [Next]_vars
  PROVE  CountInv'
<1>0. numNodes \in Nat /\ Node \subseteq Slot /\ cur \in Int /\ finished \in Nat
  BY GraphFilesAssumption, NodeFinite DEF TypeOK
<1>1. /\ IsFiniteSet(FinishedNodes)
      /\ Cardinality(FinishedNodes) \in Nat
  <2>1. FinishedNodes \subseteq Node
    BY DEF FinishedNodes
  <2>2. QED
    BY <2>1, NodeFinite, FS_Subset, FS_CardinalityType
<1>2. CASE LoadNext /\ UNCHANGED runVars
  BY <1>2 DEF LoadNext, OpenGraphFile, AddNode, RejectLine, EndOfFile, ParseNodeParents,
              PrintRow, CountInv, Running
<1>3. CASE StartRun
  <2>1. FinishedNodes' = {}
    BY <1>0, <1>3 DEF StartRun, TreePrinted, loadVars, FinishedNodes, Node
  <2>2. QED
    BY <1>3, <2>1, FS_EmptySet DEF StartRun, CountInv
<1>4. CASE StatusPass
  <2>1. FinishedNodes' = FinishedNodes
    BY <1>0, <1>4 DEF StatusPass, fixed, loadVars, FinishedNodes, Node, Eligible
  <2>2. QED
    BY <1>4, <2>1 DEF StatusPass, CountInv, Running
<1>5. CASE WaitNode
  <2>1. /\ Node' = Node /\ cur \in Node
        /\ status' \in {status, [status EXCEPT ![cur] = "FINISHED"]}
    BY <1>0, <1>5 DEF WaitNode, fixed, loadVars, Node, TypeOK
  <2>2. FinishedNodes \subseteq FinishedNodes' /\ FinishedNodes' \subseteq Node
    BY <1>0, <2>1 DEF FinishedNodes, TypeOK
  <2>3. /\ Cardinality(FinishedNodes) <= Cardinality(FinishedNodes')
        /\ Cardinality(FinishedNodes') \in Nat
    <3>1. IsFiniteSet(FinishedNodes')
      BY <2>2, NodeFinite, FS_Subset
    <3>2. QED
      BY <2>2, <3>1, FS_Subset, FS_CardinalityType
  <2>4. Cardinality(FinishedNodes)' = Cardinality(FinishedNodes')
    OBVIOUS
  <2>5. finished' = finished /\ pc = "reap"
    BY <1>5 DEF WaitNode
  <2>6. QED
    BY <1>0, <1>1, <2>3, <2>5 DEF CountInv, Running
<1>6. CASE CountFinished
  <2>1. FinishedNodes' = FinishedNodes /\ finished' = Cardinality(FinishedNodes)
    BY <1>6 DEF CountFinished, HasFinished, fixed, loadVars, FinishedNodes, Node
  <2>2. QED
    BY <1>1, <2>1 DEF CountInv
<1>7. CASE ForkNode
  <2>1. FinishedNodes' = FinishedNodes
    BY <1>0, <1>7 DEF ForkNode, fixed, loadVars, FinishedNodes, Node, TypeOK
  <2>2. QED
    BY <1>7, <2>1 DEF ForkNode, CountInv, Running
<1>8. CASE UNCHANGED <<loadVars, status, pid, finished, ignored>>
           /\ (Running' => Running)
  <2>1. FinishedNodes' = FinishedNodes /\ finished' = finished
    BY <1>8 DEF FinishedNodes, loadVars, Node
  <2>2. QED
    BY <1>8, <2>1 DEF CountInv
<1>9. QED
  BY <1>2, <1>3, <1>4, <1>5, <1>6, <1>7, <1>8, Frames DEF Running

\* main counts numNodes FINISHED nodes before it returns EXIT_SUCCESS; a process would
\* belong to a RUNNING one.
LEMMA CleanStep ==
  ASSUME TypeOK, LoadInv, ProcInv, CountInv, CleanSuccess, [Next]_vars
  PROVE  CleanSuccess'
<1>0. numNodes \in Nat /\ Node \subseteq Slot /\ cur \in Int /\ finished \in Nat
  BY GraphFilesAssumption, NodeFinite DEF TypeOK
<1>1. CASE pc = "success"
  <2>1. \/ UNCHANGED <<pc, status, proc>>
        \/ \E p \in Pids : Child(p) \/ InitReaps(p)
    BY <1>1, Frames DEF LoadNext, OpenGraphFile, AddNode, RejectLine, EndOfFile,
       ParseNodeParents, PrintRow, StartRun, TreePrinted, StatusPass, WaitNode,
       CountFinished, ForkNode
  <2>2. ~ \E p \in Pids : Child(p) \/ InitReaps(p)
    BY <1>1 DEF CleanSuccess, Used, Child, ChildExec, ChildExit, InitReaps
  <2>3. QED
    BY <1>1, <2>1, <2>2, FileSame DEF CleanSuccess, Used
<1>2. CASE pc = "status" /\ finished >= numNodes
           /\ UNCHANGED <<loadVars, status, pid, finished, proc, ignored>>
  <2>1. FinishedNodes = Node
    <3>1. FinishedNodes \subseteq Node
      BY DEF FinishedNodes
    <3>2. IsFiniteSet(FinishedNodes) /\ Cardinality(FinishedNodes) <= Cardinality(Node)
      BY <3>1, NodeFinite, FS_Subset
    <3>3. Cardinality(FinishedNodes) \in Nat
      BY <3>2, FS_CardinalityType
    <3>4. Cardinality(FinishedNodes) = Cardinality(Node)
      BY <1>0, <1>2, <3>2, <3>3, NodeFinite DEF CountInv, Running
    <3>5. QED
      BY <3>1, <3>4, NodeFinite, FS_Subset
  <2>2. FileNode = Node
    BY <1>2 DEF LoadInv, FileNode, Node
  <2>3. \A i \in Node : status[i] = "FINISHED"
    BY <2>1 DEF FinishedNodes
  <2>4. \A p \in Pids : proc[p].node \in Slot
    BY DEF TypeOK, Process
  <2>5. \A p \in Pids : ~Used(p)
    BY <2>3, <2>4 DEF ProcInv
  <2>6. QED
    BY <1>2, <2>2, <2>3, <2>5, FileSame DEF CleanSuccess, Used
<1>3. CASE pc' # "success"
  BY <1>3 DEF CleanSuccess
<1>4. \/ pc = "success"
      \/ pc = "status" /\ finished >= numNodes
           /\ UNCHANGED <<loadVars, status, pid, finished, proc, ignored>>
      \/ pc' # "success"
  BY Frames DEF LoadNext, OpenGraphFile, AddNode, RejectLine, EndOfFile,
     ParseNodeParents, PrintRow, StartRun, TreePrinted, StatusPass, WaitNode,
     CountFinished, ForkNode
<1>5. QED
  BY <1>1, <1>2, <1>3, <1>4

\* The nodes of the next row that list i are as many as its decrements.
LEMMA DecrementsCount ==
  ASSUME TypeOK, LoadInv, pc = "print", Counted, NEW i \in Node
  PROVE  Decrements(i) = Cardinality(Preds(i) \cap Row)
<1> DEFINE Cells == {c \in RowCells : children[c[1]][c[2]] = i}
           Owner == [c \in Cells |-> c[1]]
           Parents == Preds(i) \cap Row
<1>1. FileNode = Node /\ Row \subseteq Node
  BY DEF LoadInv, FileNode, Node, Row
<1>2. \A q \in Node : children[q] = Kids(file[q + 1]) /\ IsInjective(children[q])
  BY <1>1 DEF LoadInv, Counted
<1>3. Owner \in [Cells -> Parents]
  <2>1. ASSUME NEW c \in Cells PROVE c[1] \in Parents
    <3>0. PICK q \in Row : c \in {q} \X DOMAIN children[q]
      BY DEF RowCells
    <3>1. PICK k \in DOMAIN children[q] : c = <<q, k>> /\ children[q][k] = i
      BY <3>0
    <3>2. i \in Range(Kids(file[q + 1]))
      BY <1>1, <1>2, <3>1 DEF Range
    <3>3. QED
      BY <1>1, <3>1, <3>2 DEF Preds
  <2>2. QED
    BY <2>1
<1>4. \A c, d \in Cells : Owner[c] = Owner[d] => c = d
  <2>1. TAKE c, d \in Cells
  <2>2. HAVE Owner[c] = Owner[d]
  <2>3. PICK q \in Row : \E k \in DOMAIN children[q] :
                       c = <<q, k>> /\ children[q][k] = i
    <3>1. PICK q \in Row : c \in {q} \X DOMAIN children[q]
      BY DEF RowCells
    <3>2. QED
      BY <3>1
  <2>4. PICK r \in Row : \E j \in DOMAIN children[r] :
                       d = <<r, j>> /\ children[r][j] = i
    <3>1. PICK r \in Row : d \in {r} \X DOMAIN children[r]
      BY DEF RowCells
    <3>2. QED
      BY <3>1
  <2>5. q = r
    BY <2>2, <2>3, <2>4
  <2>6. q \in Node /\ IsInjective(children[q])
    BY <1>1, <1>2
  <2>7. QED
    BY <2>3, <2>4, <2>5, <2>6 DEF IsInjective
<1>5. \A q \in Parents : \E c \in Cells : Owner[c] = q
  <2>1. TAKE q \in Parents
  <2>2. q \in Row /\ i \in Range(children[q])
    BY <1>1, <1>2 DEF Preds
  <2>3. PICK k \in DOMAIN children[q] : children[q][k] = i
    BY <2>2 DEF Range
  <2>4. <<q, k>> \in Cells
    BY <2>2, <2>3 DEF RowCells
  <2>5. QED
    BY <2>4
<1>6. Owner \in Bijection(Cells, Parents)
  <2> HIDE DEF Owner, Cells, Parents
  <2> QED BY <1>3, <1>4, <1>5 DEF Bijection, Injection, Surjection, IsInjective
<1>7. IsFiniteSet(Parents)
  BY <1>1, NodeFinite, FS_Subset
<1>8. Cardinality(Cells) = Cardinality(Parents)
  <2>1. Owner \in Injection(Cells, Parents) /\ Owner \in Surjection(Cells, Parents)
    BY <1>6 DEF Bijection
  <2>2. QED
    BY <1>7, <2>1, FS_Injection
<1>9. QED
  BY <1>8 DEF Decrements

\* A row of the tree enters it together, and every count it changes stays that of the
\* parents that are not yet in the tree.
LEMMA RowStep ==
  ASSUME TypeOK, LoadInv, TreeOrder, PrintRow, Searchable, Counted
  PROVE  /\ nodesDone' = Cardinality(InTree')
         /\ \A i \in Node :
              IF i \in InTree' THEN Preds(i) \subseteq InTree'
              ELSE notVisited'[i] = Cardinality(Preds(i) \ InTree')
<1>1. /\ pc = "print" /\ Node' = Node /\ FileNode = Node /\ Row \subseteq Node
      /\ IsFiniteSet(Node) /\ Node \subseteq Slot
      /\ nodesDone' = nodesDone + Cardinality(Row)
  BY NodeFinite DEF PrintRow, LoadInv, FileNode, Node, Row
<1>2. /\ nodesDone = Cardinality(InTree)
      /\ \A i \in Node : IF i \in InTree THEN Preds(i) \subseteq InTree
                        ELSE notVisited[i] = Cardinality(Preds(i) \ InTree)
  BY <1>1 DEF TreeOrder
<1>3. ASSUME NEW i \in Node
      PROVE  /\ notVisited[i] \in Int /\ Decrements(i) \in Nat
             /\ notVisited'[i] = notVisited[i] - Decrements(i) - (IF i \in Row THEN 1 ELSE 0)
  BY <1>1, RowFinite DEF PrintRow, TypeOK
<1>4. ASSUME NEW i \in Node
      PROVE  /\ IsFiniteSet(Preds(i))
             /\ Preds(i) \subseteq Node
  BY <1>1, FS_Subset DEF Preds
<1>5. InTree \cap Row = {} /\ InTree \subseteq Node
  BY <1>3 DEF InTree, Row
<1>6. \A i \in Row : Preds(i) \subseteq InTree
  <2>1. TAKE i \in Row
  <2>2. i \in Node /\ i \notin InTree /\ notVisited[i] = 0
    BY <1>5 DEF Row
  <2>3. Cardinality(Preds(i) \ InTree) = 0 /\ IsFiniteSet(Preds(i) \ InTree)
    BY <1>2, <1>4, <2>2, FS_Subset
  <2>4. QED
    BY <2>3, FS_EmptySet
<1>7. ASSUME NEW i \in Node, i \notin InTree, i \notin Row
      PROVE  /\ notVisited'[i] = Cardinality(Preds(i) \ (InTree \cup Row))
             /\ notVisited'[i] \in Nat
  <2> DEFINE Waiting == Preds(i) \ InTree
             Left == Preds(i) \ (InTree \cup Row)
             Now == Preds(i) \cap Row
  <2>1. Waiting = Left \cup Now /\ Left \cap Now = {}
    BY <1>5
  <2>2. IsFiniteSet(Left) /\ IsFiniteSet(Now)
    BY <1>4, <1>7, FS_Subset
  <2>3. Cardinality(Waiting) = Cardinality(Left) + Cardinality(Now) - Cardinality({})
    <3> HIDE DEF Waiting, Left, Now
    <3> QED BY <2>1, <2>2, FS_Union
  <2>4. Cardinality({}) = 0
    BY FS_EmptySet
  <2>5. Cardinality(Left) \in Nat /\ Cardinality(Now) \in Nat
    BY <2>2, FS_CardinalityType
  <2>6. notVisited[i] = Cardinality(Waiting) /\ Decrements(i) = Cardinality(Now)
    BY <1>1, <1>2, <1>7, DecrementsCount
  <2>7. notVisited'[i] = notVisited[i] - Decrements(i)
    BY <1>3, <1>7
  <2>8. notVisited'[i] = Cardinality(Left)
    <3> DEFINE w == Cardinality(Waiting)  l == Cardinality(Left)  m == Cardinality(Now)
    <3>1. w = l + m - 0 /\ l \in Nat /\ m \in Nat
      BY <2>3, <2>4, <2>5
    <3>2. w - m = l
      <4> HIDE DEF w, l, m
      <4> QED BY <3>1
    <3>3. QED
      BY <2>6, <2>7, <3>2
  <2>9. QED
    BY <2>5, <2>8
<1>8. InTree' = InTree \cup Row
  <2>1. ASSUME NEW i \in Node PROVE notVisited'[i] < 0 <=> i \in InTree \cup Row
    <3>1. CASE i \in Row
      BY <1>3, <3>1 DEF Row
    <3>2. CASE i \in InTree
      BY <1>3, <1>5, <3>2 DEF InTree
    <3>3. CASE i \notin InTree /\ i \notin Row
      <4>1. notVisited'[i] \in Nat
        BY <1>7, <3>3
      <4>2. QED
        BY <3>3, <4>1
    <3>4. QED
      BY <3>1, <3>2, <3>3
  <2>2. QED
    BY <1>1, <1>5, <2>1 DEF InTree
<1>9. Cardinality(InTree \cup Row) = Cardinality(InTree) + Cardinality(Row)
  <2>1. IsFiniteSet(InTree) /\ IsFiniteSet(Row)
    BY <1>1, <1>5, FS_Subset
  <2>2. Cardinality(InTree) \in Nat /\ Cardinality(Row) \in Nat /\ Cardinality({}) = 0
    BY <2>1, FS_CardinalityType, FS_EmptySet
  <2>3. Cardinality(InTree \cup Row) = Cardinality(InTree) + Cardinality(Row) - Cardinality({})
    BY <1>5, <2>1, FS_Union
  <2>4. QED
    BY <2>2, <2>3
<1>10. nodesDone' = Cardinality(InTree')
  BY <1>1, <1>2, <1>8, <1>9
<1>11. ASSUME NEW i \in Node
       PROVE  IF i \in InTree' THEN Preds(i) \subseteq InTree'
              ELSE notVisited'[i] = Cardinality(Preds(i) \ InTree')
  <2>1. CASE i \in InTree'
    BY <1>2, <1>6, <1>8, <2>1
  <2>2. CASE i \notin InTree'
    BY <1>7, <1>8, <2>2
  <2>3. QED
    BY <2>1, <2>2
<1>12. QED
  BY <1>10, <1>11

\* Before the first row nobody is in the tree, and everybody waits for all parents.
LEMMA FirstCounts ==
  ASSUME TypeOK, LoadInv, ParseNodeParents, Searchable, Counted, nodesDone = 0
  PROVE  /\ nodesDone' = Cardinality(InTree')
         /\ \A i \in Node :
              IF i \in InTree' THEN Preds(i) \subseteq InTree'
              ELSE notVisited'[i] = Cardinality(Preds(i) \ InTree')
<1>1. /\ pc = "parents" /\ Node' = Node /\ Node \subseteq Slot /\ FileNode = Node
      /\ nodesDone' = 0 /\ IsFiniteSet(Node)
  BY NodeFinite DEF ParseNodeParents, Node, LoadInv, FileNode
<1>2. ASSUME NEW i \in Node
      PROVE  /\ notVisited'[i] = Cardinality(Preds(i))
             /\ notVisited'[i] \in Nat
  <2>1. PICK junk \in [Node -> StackJunk] :
          numParents' = [s \in Slot |-> IF s \in Node THEN NumParents(s, junk[s])
                                        ELSE numParents[s]]
    BY DEF ParseNodeParents
  <2>2. junk[i].count = 0
    BY <2>1 DEF Counted, NoJunkCells
  <2>3. /\ IsFiniteSet(Preds(i)) /\ Cardinality(Preds(i)) \in Nat
        /\ NumParents(i, junk[i]) = Cardinality(Preds(i))
    BY <1>1, <2>2, ParentsFound, FS_CardinalityType
  <2>4. notVisited'[i] = NumParents(i, junk[i])
    BY <1>1, <2>1 DEF ParseNodeParents
  <2>5. QED
    BY <2>3, <2>4
<1>3. InTree' = {}
  BY <1>1, <1>2 DEF InTree
<1>4. QED
  BY <1>1, <1>2, <1>3, FS_EmptySet

\* The tree stays a topological order with exact counts.
LEMMA TreeStep ==
  ASSUME TypeOK, LoadInv, StartInv, TreeOrder, [Next]_vars
  PROVE  StartInv' /\ TreeOrder'
<1>1. StartInv'
  BY Frames DEF StartInv, LoadNext, OpenGraphFile, AddNode, RejectLine, EndOfFile,
     ParseNodeParents, PrintRow, StartRun, TreePrinted, StatusPass, WaitNode,
     CountFinished, ForkNode, loadVars
<1>2. TreeOrder'
  <2>1. \/ ParseNodeParents
        \/ PrintRow
        \/ pc' # "print"
        \/ pc = "print" /\ UNCHANGED loadVars
    BY Frames DEF LoadNext, OpenGraphFile, AddNode, RejectLine, EndOfFile, StartRun,
       TreePrinted, StatusPass, WaitNode, CountFinished, ForkNode
  <2>2. SUFFICES ASSUME pc' = "print", Searchable, Counted
                 PROVE  /\ nodesDone' = Cardinality(InTree')
                        /\ \A i \in Node' :
                             IF i \in InTree' THEN Preds(i) \subseteq InTree'
                             ELSE notVisited'[i] = Cardinality(Preds(i) \ InTree')
    <3>1. Counted' <=> Counted
      BY FileSame DEF Counted, NoJunkCells
    <3>2. QED
      BY <3>1, FileSame DEF TreeOrder
  <2>3. CASE ParseNodeParents
    <3>1. nodesDone = 0 /\ Node' = Node
      BY <2>3 DEF StartInv, ParseNodeParents, Node
    <3>2. QED
      BY <2>2, <2>3, <3>1, FirstCounts
  <2>4. CASE PrintRow
    <3>1. Node' = Node
      BY <2>4 DEF PrintRow, Node
    <3>2. QED
      BY <2>2, <2>4, <3>1, RowStep
  <2>5. CASE pc = "print" /\ UNCHANGED loadVars
    <3>1. InTree' = InTree /\ Node' = Node /\ nodesDone' = nodesDone /\ notVisited' = notVisited
      BY <2>5 DEF loadVars, InTree, Node
    <3>2. QED
      BY <2>2, <2>5, <3>1 DEF TreeOrder
  <2>6. QED
    BY <2>1, <2>2, <2>3, <2>4, <2>5
<1>3. QED
  BY <1>1, <1>2

\* Every step keeps the invariant.
LEMMA StepInv == IInv /\ [Next]_vars => IInv'
  BY TypeStep, LoadStep, ParentsStep, ProcStep, OrderStep, CountStep, CleanStep, TreeStep
  DEF IInv

-----------------------------------------------------------------------------
(***************************************************************************)
(* The theorems.                                                           *)
(***************************************************************************)

\* IInv holds in every state the program reaches.
THEOREM Invariance == Spec => []IInv
<1>1. Init => IInv
  BY InitInv
<1>2. IInv /\ [Next]_vars => IInv'
  BY StepInv
<1>3. QED
  BY <1>1, <1>2, PTL DEF Spec

\* Every variable keeps the type its C declaration and the limits give it.
THEOREM TypeCorrect == Spec => []TypeOK
<1>1. IInv => TypeOK
  BY DEF IInv
<1>2. QED
  BY <1>1, Invariance, PTL

\* On a searchable file no program runs while or before one it depends on runs, for
\* every schedule of the children, every reuse of pids and every failure of fork, if no
\* num_parents was negative before it was incremented, whatever else memory held.
THEOREM RunOrder == Spec => []DependencyOrder
<1>1. IInv => DependencyOrder
  <2>1. SUFFICES ASSUME IInv, Searchable, NoneNegative, NEW p \in Pids, Used(p),
                        NEW q \in Preds(proc[p].node)
                 PROVE  /\ status[q] = "FINISHED"
                        /\ \A r \in Pids : Used(r) => proc[r].node # q
    BY DEF DependencyOrder
  <2>2. proc[p].node \in Slot /\ status[proc[p].node] = "RUNNING"
    BY <2>1 DEF IInv, TypeOK, ProcInv, Process
  <2>3. status[q] = "FINISHED"
    BY <2>1, <2>2 DEF IInv, OrderInv
  <2>4. \A r \in Pids : Used(r) => status[proc[r].node] = "RUNNING"
    BY <2>1 DEF IInv, ProcInv
  <2>5. QED
    BY <2>3, <2>4
<1>2. QED
  BY <1>1, Invariance, PTL

\* The pids in nodes[] name the right processes, although pids are reused.
THEOREM PidsOwned == Spec => []PidOwnership
<1>1. IInv => PidOwnership
  <2>1. ASSUME IInv PROVE Node \subseteq Slot
    BY <2>1, NodeFinite DEF IInv
  <2>2. QED
    BY <2>1 DEF IInv, ProcInv, PidOwnership
<1>2. QED
  BY <1>1, Invariance, PTL

\* Success means that every node has run and nothing is left of it.
THEOREM SuccessIsClean == Spec => []CleanSuccess
<1>1. IInv => CleanSuccess
  BY DEF IInv
<1>2. QED
  BY <1>1, Invariance, PTL

\* print_process_tree puts every node into the tree after all its parents, and its
\* counts are exact, on every file whose edges it sees and counts.
THEOREM TreeCorrect == Spec => []TreeOrder
<1>1. IInv => TreeOrder
  BY DEF IInv
<1>2. QED
  BY <1>1, Invariance, PTL

\* On a searchable file, and if no uninitialised num_parents is negative, the program
\* implements the abstract executor of DagRun.
THEOREM Refinement ==
  ASSUME NoNegativeJunk
  PROVE  Spec /\ Searchable => ImplementsDagRun
<1> DEFINE edgesOf == {e \in Slot \X Slot : e[1] \in Preds(e[2])}
           phaseOf == [i \in Slot |-> Phase(i)]
<1>1. Init => Dag!Init
  BY DEF Init, Dag!Init, Phase
<1>2. IInv /\ Searchable /\ [Next]_vars => Searchable' /\ [Dag!Next]_<<edgesOf, phaseOf>>
  <2> SUFFICES ASSUME IInv, Searchable, [Next]_vars
               PROVE  Searchable' /\ [Dag!Next]_<<edgesOf, phaseOf>>
    OBVIOUS
  <2>1. Searchable' /\ edgesOf' = edgesOf
    BY FileSame
  <2>2. TypeOK /\ LoadInv /\ LeftoverInv /\ OrderInv
    BY DEF IInv
  <2>3. numNodes \in Nat /\ Node \subseteq Slot /\ cur \in Int
    BY <2>2, GraphFilesAssumption, NodeFinite DEF TypeOK
  <2>4. CASE UNCHANGED status
    BY <2>1, <2>4 DEF Phase
  <2>5. CASE StartRun
    <3>1. \A i \in Slot : Phase(i)' = Phase(i)
      BY <2>2, <2>5 DEF StartRun, TreePrinted, LoadInv, Phase
    <3>2. QED
      BY <2>1, <3>1
  <2>6. CASE StatusPass
    <3>1. \A i \in Slot : Phase(i)' = Phase(i)
      BY <2>6 DEF StatusPass, Eligible, Phase
    <3>2. QED
      BY <2>1, <3>1
  <2>7. CASE WaitNode /\ status' # status
    <3>1. cur \in Slot /\ status[cur] = "RUNNING"
      BY <2>2, <2>3, <2>7 DEF WaitNode, TypeOK, Node, Slot
    <3>2. status' = [status EXCEPT ![cur] = "FINISHED"]
      BY <2>7 DEF WaitNode
    <3>3. phaseOf[cur] = "running"
      BY <3>1 DEF Phase
    <3>4. phaseOf' = [phaseOf EXCEPT ![cur] = "done"]
      BY <2>2, <3>1, <3>2 DEF Phase, TypeOK
    <3>5. Dag!Finish(cur)
      BY <2>1, <3>3, <3>4 DEF Dag!Finish
    <3>6. QED
      BY <2>1, <3>1, <3>5 DEF Dag!Next
  <2>8. CASE ForkNode
    <3>1. cur \in Slot /\ status[cur] = "READY"
      BY <2>2, <2>3, <2>8 DEF ForkNode, TypeOK, Node, Slot
    <3>2. status' = [status EXCEPT ![cur] = "RUNNING"]
      BY <2>8 DEF ForkNode
    <3>3. phaseOf[cur] = "waiting"
      BY <3>1 DEF Phase
    <3>4. phaseOf' = [phaseOf EXCEPT ![cur] = "running"]
      BY <2>2, <3>1, <3>2 DEF Phase, TypeOK
    <3>5. \A q \in Slot : <<q, cur>> \in edgesOf => phaseOf[q] = "done"
      BY <2>2, <2>8, <3>1 DEF ForkNode, LeftoverInv, OrderInv, Phase
    <3>6. Dag!Start(cur)
      BY <2>1, <3>3, <3>4, <3>5 DEF Dag!Start
    <3>7. QED
      BY <2>1, <3>1, <3>6 DEF Dag!Next
  <2>9. QED
    BY <2>4, <2>5, <2>6, <2>7, <2>8, Frames DEF CountFinished, runVars, fixed
<1>3. QED
  BY <1>1, <1>2, Invariance, PTL DEF Spec, ImplementsDagRun, Dag!Spec

-----------------------------------------------------------------------------
(***************************************************************************)
(* The search: the binary search of LibC keeps the contract of bsearch.    *)
(***************************************************************************)

\* What the search finds in a range of arr, given what it finds in others.
Round(key, arr, f, range) ==
  LET lo == range[1]
      hi == range[2]
      mid == (lo + hi) \div 2
      cmp == cmpfunc(key, arr[mid + 1])
  IN /\ lo < hi
     /\ \/ cmp = 0
        \/ cmp < 0 /\ f[<<lo, mid>>]
        \/ cmp > 0 /\ f[<<mid + 1, hi>>]

\* A set of numbers has a least one.
LEMMA LeastNumber ==
  ASSUME NEW S \in SUBSET Nat, S # {}
  PROVE  \E k \in S : \A j \in S : k <= j
<1>1. PICK k \in S : \A j \in S : ~ (<<j, k>> \in OpToRel(<, Nat))
  BY NatLessThanWellFounded, WFMin
<1>2. ASSUME NEW j \in S PROVE k <= j
  <2>1. j \in Nat /\ k \in Nat
    OBVIOUS
  <2>2. j < k => <<j, k>> \in OpToRel(<, Nat)
    BY <2>1, Zenon DEF OpToRel
  <2>3. ~(j < k)
    BY <1>1, <2>2, Zenon
  <2>4. QED
    BY <2>1, <2>3
<1>3. QED
  BY <1>2

\* The middle of a range is in it.
LEMMA Middle ==
  ASSUME NEW lo \in Nat, NEW hi \in Nat, lo < hi
  PROVE  (lo + hi) \div 2 \in lo .. hi - 1
OBVIOUS

\* The recursion of the search has a solution: more found in parts is more found in
\* the whole, so that what all closed answers find is one.
LEMMA SearchExists ==
  ASSUME NEW key \in Int, NEW arr \in Seq(Int)
  PROVE  \E f : f = [range \in (0 .. Len(arr)) \X (0 .. Len(arr)) |-> Round(key, arr, f, range)]
<1> DEFINE L == Len(arr)
           D == (0 .. L) \X (0 .. L)
           Closed(f) == \A range \in D : Round(key, arr, f, range) => f[range]
           f0 == [range \in D |-> \A f \in [D -> BOOLEAN] : Closed(f) => f[range]]
           f1 == [range \in D |-> Round(key, arr, f0, range)]
<1>1. ASSUME NEW f, NEW g, \A range \in D : f[range] => g[range], NEW range \in D,
             Round(key, arr, f, range)
      PROVE  Round(key, arr, g, range)
  <2>1. PICK lo, hi \in 0 .. L : range = <<lo, hi>>
    OBVIOUS
  <2>2. lo < hi
    BY <1>1, <2>1 DEF Round
  <2> DEFINE mid == (lo + hi) \div 2
  <2>3. mid \in 0 .. L /\ mid + 1 \in 0 .. L
    <3>1. lo \in Nat /\ hi \in Nat /\ L \in Nat
      OBVIOUS
    <3>2. mid \in lo .. hi - 1
      BY <2>2, <3>1, Middle
    <3> HIDE DEF mid
    <3>3. QED
      BY <3>1, <3>2
  <2>4. /\ f[<<lo, mid>>] => g[<<lo, mid>>]
        /\ f[<<mid + 1, hi>>] => g[<<mid + 1, hi>>]
    BY <1>1, <2>3
  <2>5. QED
    BY <1>1, <2>1, <2>4 DEF Round
<1>2. ASSUME NEW range \in D PROVE f1[range] \in BOOLEAN /\ f0[range] \in BOOLEAN
  BY DEF Round
<1>3. f1 \in [D -> BOOLEAN] /\ f0 \in [D -> BOOLEAN]
  BY <1>2
<1>4. ASSUME NEW f \in [D -> BOOLEAN], Closed(f) PROVE \A range \in D : f0[range] => f[range]
  BY <1>4
<1> HIDE DEF D
<1>5. \A range \in D : f1[range] => f0[range]
  <2> SUFFICES ASSUME NEW range \in D, f1[range], NEW f \in [D -> BOOLEAN], Closed(f)
               PROVE  f[range]
    OBVIOUS
  <2>1. \A x \in D : f0[x] => f[x]
    BY <1>4
  <2>2. Round(key, arr, f0, range)
    OBVIOUS
  <2> HIDE DEF f0, f1
  <2>3. Round(key, arr, f, range)
    BY <1>1, <2>1, <2>2
  <2>4. QED
    BY <2>3
<1>6. \A range \in D : f0[range] => f1[range]
  <2>1. ASSUME NEW range \in D, Round(key, arr, f1, range) PROVE f1[range]
    <3> HIDE DEF f0
    <3>1. Round(key, arr, f0, range)
      <4> HIDE DEF f1
      <4> QED BY <1>1, <1>5, <2>1
    <3>2. QED
      BY <3>1
  <2>2. Closed(f1)
    <3> HIDE DEF f1, f0
    <3> QED BY <2>1
  <2> HIDE DEF f1, f0, Closed
  <2>3. QED
    BY <1>3, <1>4, <2>2
<1>7. f0 = f1
  <2> HIDE DEF f0, f1
  <2>1. \A range \in D : f0[range] = f1[range]
    BY <1>2, <1>5, <1>6
  <2>2. QED
    BY <1>3, <2>1
<1>8. f0 = [range \in D |-> Round(key, arr, f0, range)]
  <2> HIDE DEF f0
  <2> QED BY <1>7
<1>9. QED
  <2> HIDE DEF f0
  <2> QED BY <1>8 DEF D

\* The contract of bsearch, which BsearchAssumption takes from it: the binary search finds
\* only what is in the array, and in an ascending array it finds everything.
THEOREM SearchCorrect ==
  ASSUME NEW key \in Int, NEW arr \in Seq(Int)
  PROVE  /\ BinarySearch(key, arr) \in BOOLEAN
         /\ BinarySearch(key, arr) => key \in Range(arr)
         /\ Ascending(arr) /\ key \in Range(arr) => BinarySearch(key, arr)
<1> DEFINE L == Len(arr)
           R(f) == [range \in (0 .. L) \X (0 .. L) |-> Round(key, arr, f, range)]
           probe == CHOOSE f : f = R(f)
<1>1. probe = R(probe)
  <2>1. \E f : f = R(f)
    BY SearchExists
  <2>2. QED
    BY <2>1
<1>2. BinarySearch(key, arr) = probe[<<0, L>>]
  BY DEF BinarySearch, Round
<1>3. L \in Nat /\ DOMAIN arr = 1 .. L
  OBVIOUS
<1>4. \A lo, hi \in 0 .. L : probe[<<lo, hi>>] = Round(key, arr, probe, <<lo, hi>>)
  BY <1>1
<1> HIDE DEF probe, R, L
<1> DEFINE Has(lo, hi) == \E k \in lo + 1 .. hi : arr[k] = key
           Right(lo, hi) == /\ probe[<<lo, hi>>] \in BOOLEAN
                            /\ probe[<<lo, hi>>] => Has(lo, hi)
                            /\ Ascending(arr) /\ Has(lo, hi) => probe[<<lo, hi>>]
           Wrong == {k \in Nat : \E lo, hi \in 0 .. L : hi - lo = k /\ ~ Right(lo, hi)}
<1>5. ASSUME NEW lo \in 0 .. L, NEW hi \in 0 .. L, ~(lo < hi) PROVE Right(lo, hi)
  <2>1. probe[<<lo, hi>>] = FALSE
    BY <1>4, <1>5 DEF Round
  <2>2. ~ Has(lo, hi)
    BY <1>3, <1>5
  <2>3. QED
    BY <2>1, <2>2
<1>6. ASSUME NEW lo \in 0 .. L, NEW hi \in 0 .. L, lo < hi,
             \A a, b \in 0 .. L : b - a < hi - lo => Right(a, b)
      PROVE  Right(lo, hi)
  <2> DEFINE mid == (lo + hi) \div 2
  <2>1. mid \in lo .. hi - 1 /\ lo \in Nat /\ hi \in Nat
    BY <1>3, <1>6, Middle
  <2>2. probe[<<lo, hi>>] <=> LET cmp == key - arr[mid + 1]
                          IN \/ cmp = 0
                             \/ cmp < 0 /\ probe[<<lo, mid>>]
                             \/ cmp > 0 /\ probe[<<mid + 1, hi>>]
    BY <1>4, <1>6 DEF Round, cmpfunc
  <2>3. probe[<<lo, hi>>] \in BOOLEAN
    BY <1>4 DEF Round
  <2> HIDE DEF mid
  <2>4. /\ mid \in 0 .. L /\ mid + 1 \in 0 .. L /\ mid - lo < hi - lo /\ hi - (mid + 1) < hi - lo
        /\ mid + 1 \in 1 .. L
    BY <1>3, <2>1
  <2>5. Right(lo, mid) /\ Right(mid + 1, hi)
    <3> HIDE DEF Right
    <3> QED BY <1>6, <2>4
  <2>6. \A j \in 1 .. L : arr[j] \in Int
    BY <1>3
  <2>7. probe[<<lo, hi>>] => Has(lo, hi)
    <3>1. ASSUME probe[<<lo, mid>>] PROVE Has(lo, hi)
      BY <2>1, <2>5, <3>1
    <3>2. ASSUME probe[<<mid + 1, hi>>] PROVE Has(lo, hi)
      BY <2>1, <2>5, <3>2
    <3>3. ASSUME key - arr[mid + 1] = 0 PROVE Has(lo, hi)
      <4>1. arr[mid + 1] = key /\ mid + 1 \in lo + 1 .. hi
        <5>1. arr[mid + 1] \in Int
          BY <2>4, <2>6
        <5>2. QED
          BY <2>1, <2>4, <3>3, <5>1
      <4>2. QED
        BY <4>1
    <3>4. QED
      BY <2>2, <3>1, <3>2, <3>3
  <2>8. ASSUME Ascending(arr), Has(lo, hi) PROVE probe[<<lo, hi>>]
    <3>1. PICK j \in lo + 1 .. hi : arr[j] = key
      BY <2>8
    <3>2. j \in 1 .. L /\ j \in Nat
      BY <1>3, <2>1
    <3>3. CASE j <= mid
      <4>1. Has(lo, mid)
        BY <2>1, <3>1, <3>3
      <4>2. probe[<<lo, mid>>]
        BY <2>5, <2>8, <4>1
      <4>3. key <= arr[mid + 1]
        BY <1>3, <2>1, <2>4, <2>8, <3>1, <3>2, <3>3 DEF Ascending
      <4>4. QED
        BY <2>2, <2>4, <2>6, <4>2, <4>3
    <3>4. CASE j >= mid + 2
      <4>1. Has(mid + 1, hi)
        BY <2>1, <3>1, <3>4
      <4>2. probe[<<mid + 1, hi>>]
        BY <2>5, <2>8, <4>1
      <4>3. key >= arr[mid + 1]
        BY <1>3, <2>1, <2>4, <2>8, <3>1, <3>2, <3>4 DEF Ascending
      <4>4. QED
        BY <2>2, <2>4, <2>6, <4>2, <4>3
    <3>5. CASE j = mid + 1
      BY <2>2, <3>1, <3>5
    <3>6. QED
      BY <2>1, <3>2, <3>3, <3>4, <3>5
  <2>9. QED
    BY <2>3, <2>7, <2>8
<1>7. Wrong = {}
  <2>1. SUFFICES ASSUME Wrong # {} PROVE FALSE
    OBVIOUS
  <2> HIDE DEF Right
  <2>2. PICK k \in Wrong : \A j \in Wrong : k <= j
    <3>1. Wrong \in SUBSET Nat
      OBVIOUS
    <3> HIDE DEF Wrong
    <3>2. QED
      BY <2>1, <3>1, LeastNumber
  <2>3. PICK lo, hi \in 0 .. L : hi - lo = k /\ ~ Right(lo, hi)
    OBVIOUS
  <2>4. lo < hi
    BY <1>5, <2>3
  <2>5. ASSUME NEW a \in 0 .. L, NEW b \in 0 .. L, b - a < hi - lo PROVE Right(a, b)
    <3>1. CASE a < b
      <4>1. b - a \in Nat /\ k \in Nat /\ b - a < k
        BY <1>3, <2>3, <2>5, <3>1
      <4>2. b - a \notin Wrong
        <5> HIDE DEF Wrong
        <5> QED BY <2>2, <4>1
      <4>3. QED
        BY <4>1, <4>2
    <3>2. CASE ~ (a < b)
      BY <1>5, <3>2
    <3>3. QED
      BY <3>1, <3>2
  <2>6. QED
    BY <1>6, <2>3, <2>4, <2>5
<1>8. Right(0, L)
  <2>1. L \in Wrong \/ Right(0, L)
    <3> HIDE DEF Right
    <3> QED BY <1>3
  <2> HIDE DEF Wrong, Right
  <2>2. QED
    BY <1>7, <2>1
<1>9. key \in Range(arr) <=> Has(0, L)
  BY <1>3 DEF Range
<1>10. QED
  BY <1>2, <1>8, <1>9
=============================================================================
