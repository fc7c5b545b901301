--------------------------- MODULE WaitMgt_proofs ---------------------------
(***************************************************************************)
(* Proofs of the safety properties of WaitMgt for every set of graph files *)
(* and pids, and for both dispositions of SIGCHLD.                         *)
(*                                                                         *)
(* IInv is the inductive invariant.  PassInv says what the three passes    *)
(* have already done to the nodes behind the loop index, ProcInv ties the  *)
(* processes to the batch, BalanceInv counts them, EdgeInv is what the     *)
(* parent counters mean, OrderInv and BatchInv are the order of nodes and  *)
(* that no edge joins two nodes of a batch.                                *)
(***************************************************************************)
EXTENDS WaitMgt, FiniteSetTheorems, TLAPS

FinishedNodes == {q \in Node : status[q] = "FINISHED"}
UsedPids == {p \in Pids : Used(p)}

LoadInv ==
  /\ pc \in {"ready", "fork", "wait", "success"} => Len(graph) <= MAX_NODES
  /\ \A s \in Slot : status[s] # "INELIGIBLE" => s \in Node

PassInv ==
  /\ pc \in {"load", "ready", "success"} =>
       \A i \in Node : status[i] \in {"INELIGIBLE", "FINISHED"}
  /\ pc = "fork" => \A i \in Node : i < cur => status[i] # "READY"
  /\ pc = "wait" => \A i \in Node : status[i] # "READY" /\ (i < cur => status[i] # "RUNNING")

ProcInv ==
  /\ \A p \in Pids : Used(p) =>
       proc[p].node \in Node /\ status[proc[p].node] \in {"RUNNING", "FINISHED"}
  /\ pc = "fork" => \A p \in Pids : Used(p) => status[proc[p].node] = "RUNNING"
  /\ pc \in {"load", "ready", "success"} => \A p \in Pids : ~Used(p)
  /\ ignored => /\ \A p \in Pids : proc[p].state # "zombie"
                /\ \A i \in Node : status[i] # "FINISHED"

BalanceInv ==
  /\ IsFiniteSet(UsedPids)
  /\ ~ignored /\ ~MainGone => Cardinality(UsedPids) = Cardinality(RunningNodes)

CountInv ==
  /\ numNodesFinished = Cardinality(FinishedNodes)
  /\ pc = "success" => AllFinished

EdgeInv ==
  Initialised =>
    /\ \A i \in Slot : parentsFinished[i] = Cardinality(EdgesTo(i, FinishedNodes))
    /\ pc = "load" => \A i \in Slot : numParents[i] = 0
    /\ pc \in {"ready", "fork", "wait"} => \A i \in Slot : numParents[i] = Occurrences(i)

OrderInv ==
  Initialised =>
    \A i \in Node : status[i] # "INELIGIBLE" =>
      \A q \in Preds(i) : status[q] = "FINISHED"

BatchInv ==
  Initialised =>
    \A p, r \in Pids : Used(p) /\ Used(r) => proc[r].node \notin Preds(proc[p].node)

IInv == /\ TypeOK /\ LoadInv /\ PassInv /\ ProcInv /\ BalanceInv /\ CountInv
        /\ EdgeInv /\ OrderInv /\ BatchInv

-----------------------------------------------------------------------------
(***************************************************************************)
(* Facts about the operators the actions use.                              *)
(***************************************************************************)

\* The nodes are finitely many slots.
LEMMA NodeFinite ==
  /\ Node \subseteq Slot
  /\ IsFiniteSet(Node)
<1>1. Slot = 0 .. MAX_NODES - 1 /\ Node \subseteq Slot
  BY DEF Slot, Node
<1>2. IsFiniteSet(0 .. MAX_NODES - 1)
  BY LimitsAssumption, FS_Interval
<1>3. QED
  BY <1>1, <1>2, FS_Subset

\* If the graph fits in nodes[] its nodes are as many as its lines.
LEMMA NodeCount ==
  ASSUME graph \in Graphs, Len(graph) <= MAX_NODES
  PROVE  Cardinality(Node) = Len(graph)
<1>1. Len(graph) \in Nat
  BY GraphsAssumption
<1>2. Node = 0 .. Len(graph) - 1
  BY <1>1, LimitsAssumption DEF Node, Slot
<1>3. Cardinality(0 .. Len(graph) - 1) = IF 0 > Len(graph) - 1 THEN 0 ELSE Len(graph) - 1 - 0 + 1
  BY <1>1, FS_Interval
<1>4. QED
  BY <1>1, <1>2, <1>3

\* A child list is a finite sequence of ids, and the places of an id in it are finite.
LEMMA PlacesFinite ==
  ASSUME graph \in Graphs, NEW q \in Node, NEW i
  PROVE  /\ IsFiniteSet(Places(i, q))
         /\ Times(i, q) \in Nat
<1>1. q + 1 \in 1 .. Len(graph)
  BY GraphsAssumption, LimitsAssumption DEF Node, Slot
<1>2. children(q) \in Seq(Nat)
  <2> DEFINE Line == [fields : Nat, none : BOOLEAN, kids : Seq(Nat)]
  <2>1. graph \in Seq(Line)
    BY GraphsAssumption
  <2>2. graph[q + 1] \in Line
    <3> HIDE DEF Line
    <3> QED BY <1>1, <2>1
  <2>3. QED
    BY <2>2 DEF children
<1>3. Places(i, q) \subseteq 1 .. Len(children(q)) /\ Len(children(q)) \in Nat
  BY <1>2 DEF Places
<1>4. IsFiniteSet(1 .. Len(children(q)))
  BY <1>3, FS_Interval
<1>5. IsFiniteSet(Places(i, q))
  BY <1>3, <1>4, FS_Subset
<1>6. QED
  BY <1>5, FS_CardinalityType DEF Times

\* q is a parent of i if i occurs in its child list.
LEMMA PredsPlaces ==
  ASSUME NEW i, NEW q \in Node
  PROVE  q \in Preds(i) <=> Places(i, q) # {}
BY DEF Preds, Places, Range

\* The edges from the nodes in S are edges of the graph, and finitely many.
LEMMA EdgesFinite ==
  ASSUME graph \in Graphs, NEW i, NEW S, S \subseteq Node
  PROVE  /\ EdgesTo(i, S) \subseteq EdgesTo(i, Node)
         /\ IsFiniteSet(EdgesTo(i, S))
         /\ Cardinality(EdgesTo(i, S)) \in Nat
<1> DEFINE All == UNION {Places(i, q) : q \in Node}
           Lists == {Places(i, q) : q \in Node}
<1>1. IsFiniteSet(Lists)
  <2>1. [q \in Node |-> Places(i, q)] \in Surjection(Node, Lists)
    BY DEF Surjection
  <2>2. QED
    BY <2>1, NodeFinite, FS_Surjection
<1>2. \A T \in Lists : IsFiniteSet(T)
  BY PlacesFinite
<1>3. IsFiniteSet(All)
  BY <1>1, <1>2, FS_UNION
<1>4. IsFiniteSet(Node \X All)
  BY <1>3, NodeFinite, FS_Product
<1>5. EdgesTo(i, S) \subseteq Node \X All
  BY DEF EdgesTo
<1>6. IsFiniteSet(EdgesTo(i, S))
  BY <1>4, <1>5, FS_Subset
<1>7. QED
  BY <1>6, FS_CardinalityType DEF EdgesTo

\* One more source adds the places of its own list.
LEMMA EdgesAdd ==
  ASSUME graph \in Graphs, NEW i, NEW S, S \subseteq Node, NEW q \in Node, q \notin S
  PROVE  Cardinality(EdgesTo(i, S \cup {q})) = Cardinality(EdgesTo(i, S)) + Times(i, q)
<1>1. EdgesTo(i, S \cup {q}) = EdgesTo(i, S) \cup ({q} \X Places(i, q))
  BY DEF EdgesTo
<1>2. EdgesTo(i, S) \cap ({q} \X Places(i, q)) = {}
  BY DEF EdgesTo
<1>3. IsFiniteSet(EdgesTo(i, S)) /\ Cardinality(EdgesTo(i, S)) \in Nat
  BY EdgesFinite
<1>4. IsFiniteSet(Places(i, q)) /\ Times(i, q) \in Nat
  BY PlacesFinite
<1>5. IsFiniteSet({q}) /\ Cardinality({q}) = 1
  BY FS_Singleton
<1>6. /\ IsFiniteSet({q} \X Places(i, q))
      /\ Cardinality({q} \X Places(i, q)) = 1 * Cardinality(Places(i, q))
  BY <1>4, <1>5, FS_Product
<1>7. Cardinality({q} \X Places(i, q)) = Times(i, q)
  BY <1>4, <1>6 DEF Times
<1>8. Cardinality(EdgesTo(i, S) \cup ({q} \X Places(i, q)))
        = Cardinality(EdgesTo(i, S)) + Cardinality({q} \X Places(i, q)) - Cardinality({})
  BY <1>2, <1>3, <1>6, FS_Union
<1>9. Cardinality({}) = 0
  BY FS_EmptySet
<1>10. Cardinality(EdgesTo(i, S) \cup ({q} \X Places(i, q))) = Cardinality(EdgesTo(i, S)) + Times(i, q)
  <2> DEFINE a == Cardinality(EdgesTo(i, S))  b == Times(i, q)
  <2>1. a \in Nat /\ b \in Nat
    BY <1>3, <1>4
  <2>2. a + b - 0 = a + b
    <3> HIDE DEF a, b
    <3> QED BY <2>1
  <2>3. QED
    BY <1>7, <1>8, <1>9, <2>2
<1>11. QED
  BY <1>1, <1>10, Zenon

\* If as many edges have been heard of as there are, every parent has been heard of.
LEMMA AllHeard ==
  ASSUME graph \in Graphs, NEW i, NEW S, S \subseteq Node,
         Cardinality(EdgesTo(i, S)) = Occurrences(i)
  PROVE  Preds(i) \subseteq S
<1>1. EdgesTo(i, Node) = EdgesTo(i, S)
  BY EdgesFinite, FS_Subset DEF Occurrences
<1>2. ASSUME NEW q \in Preds(i) PROVE q \in S
  <2>1. q \in Node
    BY DEF Preds
  <2>2. PICK k \in Places(i, q) : TRUE
    BY <2>1, PredsPlaces
  <2>3. <<q, k>> \in EdgesTo(i, S)
    BY <1>1, <2>1, <2>2 DEF EdgesTo
  <2>4. QED
    BY <2>3 DEF EdgesTo
<1>3. QED
  BY <1>2

\* The graph is never changed, and with it what it says.
LEMMA GraphSame ==
  ASSUME [Next]_vars
  PROVE  /\ graph' = graph
         /\ Node' = Node
         /\ \A q : children(q)' = children(q)
         /\ \A i : Preds(i)' = Preds(i)
         /\ \A i, S : EdgesTo(i, S)' = EdgesTo(i, S)
<1>1. graph' = graph
  BY DEF Next, Main, ParseFails, PopulateParents, ReadyPass, ForkNode, ForkFails, SkipFork,
         EndForkPass, WaitAny, WaitFails, SkipWait, EndWaitPass, Finish, ChildExit, InitReaps,
         Stopped, vars
<1>2. Node' = Node /\ \A q : children(q)' = children(q)
  BY <1>1 DEF Node, children
<1>3. QED
  BY <1>1, <1>2 DEF Preds, EdgesTo, Places

-----------------------------------------------------------------------------
(***************************************************************************)
(* The initial states, and the steps of each part of the invariant.        *)
(***************************************************************************)

\* No edge leaves the empty set of nodes.
LEMMA NoEdges == \A i : EdgesTo(i, {}) = {}
BY DEF EdgesTo

\* The initial states satisfy the invariant.
LEMMA InitInv == Init => IInv
<1> SUFFICES ASSUME Init PROVE IInv
  OBVIOUS
<1>1. graph \in Graphs /\ Len(graph) \in Nat
  BY GraphsAssumption DEF Init
<1>2. FinishedNodes = {} /\ RunningNodes = {} /\ UsedPids = {}
  BY NodeFinite DEF Init, FinishedNodes, RunningNodes, UsedPids, Used, free
<1>3. IsFiniteSet({}) /\ Cardinality({}) = 0
  BY FS_EmptySet
<1>4. TypeOK
  <2>1. numParents \in [Slot -> Int] /\ parentsFinished \in [Slot -> Int]
    BY StackJunkAssumption DEF Init
  <2>2. QED
    BY <1>1, <2>1, LimitsAssumption DEF Init, TypeOK, free, Slot
<1>5. LoadInv /\ PassInv /\ ProcInv /\ OrderInv /\ BatchInv
  BY NodeFinite DEF Init, LoadInv, PassInv, ProcInv, OrderInv, BatchInv, Used, free
<1>6. BalanceInv /\ CountInv
  BY <1>2, <1>3 DEF Init, BalanceInv, CountInv
<1>7. EdgeInv
  <2>1. ASSUME Initialised, NEW s \in Slot PROVE numParents[s] = 0 /\ parentsFinished[s] = 0
    BY <2>1 DEF Init, Initialised
  <2>2. QED
    BY <1>2, <1>3, <2>1, NoEdges DEF Init, EdgeInv, Node
<1>8. QED
  BY <1>4, <1>5, <1>6, <1>7 DEF IInv

\* What a step of main and of the environment changes.
LEMMA Frames ==
  ASSUME [Next]_vars
  PROVE  \/ ParseFails
         \/ PopulateParents
         \/ ReadyPass
         \/ ForkNode
         \/ WaitAny
         \/ /\ UNCHANGED <<status, counters, numNodesFinished, proc, ignored>>
            /\ ForkFails \/ SkipFork \/ EndForkPass \/ WaitFails \/ SkipWait \/ EndWaitPass \/ Finish
         \/ /\ UNCHANGED <<pc, status, counters, numNodesFinished, cur, ignored>>
            /\ \E p \in Pids : ChildExit(p) \/ InitReaps(p)
         \/ UNCHANGED vars
<1>1. CASE Main
  BY <1>1 DEF Main, ForkFails, SkipFork, EndForkPass, WaitFails, SkipWait, EndWaitPass, Finish
<1>2. ASSUME NEW p \in Pids, ChildExit(p) \/ InitReaps(p)
      PROVE  UNCHANGED <<pc, status, counters, numNodesFinished, cur, ignored>>
  BY <1>2 DEF ChildExit, InitReaps
<1>3. QED
  BY <1>1, <1>2 DEF Next, Stopped

\* What a child's exit or init's reaping does to the process table.
LEMMA EnvStep ==
  ASSUME TypeOK, NEW p \in Pids, ChildExit(p) \/ InitReaps(p)
  PROVE  /\ Used(p)
         /\ \/ proc' = [proc EXCEPT ![p] = free] /\ (ignored \/ MainGone)
            \/ proc' = [proc EXCEPT ![p] = [node |-> proc[p].node, state |-> "zombie"]] /\ ~ignored
<1>1. proc[p] \in [node : Slot, state : {"free", "running", "zombie"}]
  BY DEF TypeOK
<1>2. [proc[p] EXCEPT !.state = "zombie"] = [node |-> proc[p].node, state |-> "zombie"]
  BY <1>1
<1>3. QED
  BY <1>2 DEF ChildExit, InitReaps, Used

\* Every step keeps the types.
LEMMA TypeStep ==
  ASSUME TypeOK, LoadInv, CountInv, [Next]_vars
  PROVE  TypeOK'
<1>0. /\ graph \in Graphs /\ Len(graph) \in Nat /\ cur \in Nat /\ graph' = graph
      /\ free \in [node : Slot, state : {"free", "running", "zombie"}]
  BY GraphsAssumption, LimitsAssumption, GraphSame DEF TypeOK, free, Slot
<1>1. CASE ParseFails
  BY <1>0, <1>1 DEF ParseFails, TypeOK, counters
<1>2. CASE PopulateParents
  <2>1. \A i : Occurrences(i) \in Nat
    BY <1>0, EdgesFinite DEF Occurrences
  <2>2. numParents' \in [Slot -> Int]
    BY <1>2, <2>1 DEF PopulateParents, TypeOK
  <2>3. QED
    BY <1>0, <1>2, <2>2 DEF PopulateParents, TypeOK
<1>3. CASE ReadyPass
  BY <1>0, <1>3 DEF ReadyPass, TypeOK, counters
<1>4. CASE ForkNode
  <2>1. cur \in Slot /\ cur + 1 \in 0 .. Len(graph)
    BY <1>0, <1>4, LimitsAssumption DEF ForkNode, LoadInv, Slot
  <2>2. PICK p \in Pids : proc' = [proc EXCEPT ![p] = [node |-> cur, state |-> "running"]]
    BY <1>4 DEF ForkNode
  <2>3. proc' \in [Pids -> [node : Slot, state : {"free", "running", "zombie"}]]
    BY <2>1, <2>2 DEF TypeOK
  <2>4. status' \in [Slot -> {"INELIGIBLE", "READY", "RUNNING", "FINISHED"}]
    BY <1>4 DEF ForkNode, TypeOK
  <2>5. QED
    BY <1>0, <1>4, <2>1, <2>3, <2>4 DEF ForkNode, TypeOK, counters
<1>5. CASE WaitAny
  <2>1. /\ cur \in Slot /\ cur \in Node /\ cur \notin FinishedNodes
        /\ cur + 1 \in 0 .. Len(graph)
    BY <1>0, <1>5, LimitsAssumption DEF WaitAny, LoadInv, Slot, Node, FinishedNodes
  <2>2. PICK p \in Pids : proc' = [proc EXCEPT ![p] = free]
    BY <1>5 DEF WaitAny, Reaped
  <2>3. proc' \in [Pids -> [node : Slot, state : {"free", "running", "zombie"}]]
    BY <1>0, <2>2 DEF TypeOK
  <2>4. \A i : Times(i, cur) \in Nat
    BY <1>0, <2>1, PlacesFinite
  <2>5. parentsFinished' \in [Slot -> Int]
    BY <1>5, <2>4 DEF WaitAny, TypeOK
  <2>6. numNodesFinished + 1 <= Len(graph)
    <3>1. FinishedNodes \subseteq Node \ {cur}
      BY <2>1 DEF FinishedNodes
    <3>2. /\ IsFiniteSet(Node \ {cur})
          /\ Cardinality(Node \ {cur}) = Cardinality(Node) - 1
      BY <2>1, NodeFinite, FS_RemoveElement
    <3>3. Cardinality(FinishedNodes) <= Cardinality(Node \ {cur})
      BY <3>1, <3>2, FS_Subset
    <3>4. Cardinality(Node) = Len(graph)
      BY <1>0, <1>5, NodeCount DEF WaitAny, LoadInv
    <3>5. QED
      BY <1>0, <3>2, <3>3, <3>4 DEF CountInv, TypeOK
  <2>7. QED
    BY <1>0, <1>5, <2>1, <2>3, <2>5, <2>6 DEF WaitAny, TypeOK
<1>6. CASE /\ UNCHANGED <<status, counters, numNodesFinished, proc, ignored>>
           /\ ForkFails \/ SkipFork \/ EndForkPass \/ WaitFails \/ SkipWait \/ EndWaitPass \/ Finish
  BY <1>0, <1>6 DEF ForkFails, SkipFork, EndForkPass, WaitFails, SkipWait, EndWaitPass, Finish,
                    TypeOK, counters
<1>7. CASE /\ UNCHANGED <<pc, status, counters, numNodesFinished, cur, ignored>>
           /\ \E p \in Pids : ChildExit(p) \/ InitReaps(p)
  <2>1. proc' \in [Pids -> [node : Slot, state : {"free", "running", "zombie"}]]
    <3>1. PICK p \in Pids : ChildExit(p) \/ InitReaps(p)
      BY <1>7
    <3>2. \/ proc' = [proc EXCEPT ![p] = free]
          \/ proc' = [proc EXCEPT ![p] = [node |-> proc[p].node, state |-> "zombie"]]
      BY <3>1, EnvStep
    <3>3. [node |-> proc[p].node, state |-> "zombie"]
            \in [node : Slot, state : {"free", "running", "zombie"}]
      BY DEF TypeOK
    <3>4. proc \in [Pids -> [node : Slot, state : {"free", "running", "zombie"}]]
      BY DEF TypeOK
    <3>5. CASE proc' = [proc EXCEPT ![p] = free]
      BY <1>0, <3>4, <3>5
    <3>6. CASE proc' = [proc EXCEPT ![p] = [node |-> proc[p].node, state |-> "zombie"]]
      BY <3>3, <3>4, <3>6
    <3>7. QED
      BY <3>2, <3>5, <3>6
  <2>2. QED
    BY <1>0, <1>7, <2>1 DEF TypeOK, counters
<1>8. CASE UNCHANGED vars
  BY <1>8 DEF TypeOK, vars
<1>9. QED
  BY <1>1, <1>2, <1>3, <1>4, <1>5, <1>6, <1>7, <1>8, Frames

\* What the parser has stored stays what it is.
LEMMA LoadStep ==
  ASSUME TypeOK, LoadInv, [Next]_vars
  PROVE  LoadInv'
<1>0. graph' = graph /\ Node' = Node /\ Len(graph) \in Nat /\ cur \in Nat
  BY GraphSame, GraphsAssumption DEF TypeOK
<1>1. CASE ParseFails
  BY <1>0, <1>1 DEF ParseFails, LoadInv
<1>2. CASE PopulateParents
  <2>1. Len(graph) <= MAX_NODES
    BY <1>0, <1>2, GraphsAssumption, LimitsAssumption DEF PopulateParents, Legal, TypeOK
  <2>2. QED
    BY <1>0, <1>2, <2>1 DEF PopulateParents, LoadInv
<1>3. CASE ReadyPass
  BY <1>0, <1>3 DEF ReadyPass, LoadInv
<1>4. CASE ForkNode
  BY <1>0, <1>4 DEF ForkNode, LoadInv, TypeOK, Node
<1>5. CASE WaitAny
  BY <1>0, <1>5 DEF WaitAny, LoadInv, TypeOK, Node
<1>6. CASE /\ UNCHANGED <<status, counters, numNodesFinished, proc, ignored>>
           /\ ForkFails \/ SkipFork \/ EndForkPass \/ WaitFails \/ SkipWait \/ EndWaitPass \/ Finish
  BY <1>0, <1>6 DEF ForkFails, SkipFork, EndForkPass, WaitFails, SkipWait, EndWaitPass, Finish,
                    LoadInv
<1>7. CASE UNCHANGED <<pc, status, counters, numNodesFinished, cur, ignored>>
  BY <1>0, <1>7 DEF LoadInv
<1>8. CASE UNCHANGED vars
  BY <1>8 DEF LoadInv, Node, vars
<1>9. QED
  BY <1>1, <1>2, <1>3, <1>4, <1>5, <1>6, <1>7, <1>8, Frames

\* The passes leave no READY and no RUNNING node behind them.
LEMMA PassStep ==
  ASSUME TypeOK, LoadInv, PassInv, [Next]_vars
  PROVE  PassInv'
<1>0. /\ graph' = graph /\ Node' = Node /\ Len(graph) \in Nat /\ cur \in Nat
      /\ Node \subseteq Slot /\ \A i \in Node : i \in Nat /\ i < Len(graph)
  BY GraphSame, GraphsAssumption, LimitsAssumption DEF TypeOK, Node, Slot
<1>1. CASE ParseFails
  BY <1>0, <1>1 DEF ParseFails, PassInv
<1>2. CASE PopulateParents
  BY <1>0, <1>2 DEF PopulateParents, PassInv
<1>3. CASE ReadyPass
  BY <1>0, <1>3 DEF ReadyPass, PassInv
<1>4. CASE ForkNode
  BY <1>0, <1>4 DEF ForkNode, PassInv, TypeOK
<1>5. CASE WaitAny
  BY <1>0, <1>5 DEF WaitAny, PassInv, TypeOK
<1>6. CASE /\ UNCHANGED <<status, counters, numNodesFinished, proc, ignored>>
           /\ ForkFails \/ SkipFork \/ EndForkPass \/ WaitFails \/ SkipWait \/ EndWaitPass \/ Finish
  <2>1. CASE ForkFails \/ SkipFork
    BY <1>0, <1>6, <2>1 DEF ForkFails, SkipFork, PassInv
  <2>2. CASE EndForkPass
    BY <1>0, <1>6, <2>2 DEF EndForkPass, PassInv
  <2>3. CASE WaitFails \/ SkipWait
    BY <1>0, <1>6, <2>3 DEF WaitFails, SkipWait, PassInv
  <2>4. CASE EndWaitPass
    <3>1. \A i \in Node : status[i] \in {"INELIGIBLE", "FINISHED"}
      BY <1>0, <2>4 DEF EndWaitPass, PassInv, TypeOK
    <3>2. QED
      BY <1>0, <1>6, <2>4, <3>1 DEF EndWaitPass, PassInv
  <2>5. CASE Finish
    BY <1>0, <1>6, <2>5 DEF Finish, PassInv
  <2>6. QED
    BY <1>6, <2>1, <2>2, <2>3, <2>4, <2>5
<1>7. CASE UNCHANGED <<pc, status, counters, numNodesFinished, cur, ignored>>
  BY <1>0, <1>7 DEF PassInv
<1>8. CASE UNCHANGED vars
  BY <1>0, <1>8 DEF PassInv, vars
<1>9. QED
  BY <1>1, <1>2, <1>3, <1>4, <1>5, <1>6, <1>7, <1>8, Frames

\* Every process is one of the batch; when a pass over the batch has ended, all are gone.
LEMMA ProcStep ==
  ASSUME TypeOK, LoadInv, PassInv, ProcInv, BalanceInv, [Next]_vars
  PROVE  ProcInv'
<1>0. /\ graph' = graph /\ Node' = Node /\ Len(graph) \in Nat /\ cur \in Nat
      /\ Node \subseteq Slot /\ \A i \in Node : i \in Nat /\ i < Len(graph)
  BY GraphSame, GraphsAssumption, LimitsAssumption DEF TypeOK, Node, Slot
<1>1. CASE ParseFails
  BY <1>0, <1>1 DEF ParseFails, ProcInv, Used
<1>2. CASE PopulateParents
  BY <1>0, <1>2 DEF PopulateParents, ProcInv, Used
<1>3. CASE ReadyPass
  BY <1>0, <1>3 DEF ReadyPass, ProcInv, Used, TypeOK
<1>4. CASE ForkNode
  <2>1. cur \in Node /\ status[cur] = "READY" /\ pc = "fork" /\ pc' = "fork" /\ ignored' = ignored
    BY <1>0, <1>4, LimitsAssumption DEF ForkNode, LoadInv, Node, Slot
  <2>2. PICK p \in Pids : /\ ~Used(p)
                          /\ proc' = [proc EXCEPT ![p] = [node |-> cur, state |-> "running"]]
    BY <1>4 DEF ForkNode
  <2>3. status' = [status EXCEPT ![cur] = "RUNNING"]
    BY <1>4 DEF ForkNode
  <2>4. /\ proc'[p].node = cur /\ proc'[p].state = "running"
        /\ \A r \in Pids : r # p => proc'[r] = proc[r]
    BY <2>2 DEF TypeOK
  <2>5. status'[cur] = "RUNNING" /\ \A i \in Node : i # cur => status'[i] = status[i]
    BY <1>0, <2>1, <2>3 DEF TypeOK
  <2>6. \A r \in Pids : Used(r)' => proc'[r].node \in Node /\ status'[proc'[r].node] = "RUNNING"
    BY <2>1, <2>4, <2>5 DEF Used, ProcInv
  <2>7. ignored => /\ \A r \in Pids : proc'[r].state # "zombie"
                   /\ \A i \in Node : status'[i] # "FINISHED"
    BY <2>4, <2>5 DEF ProcInv
  <2>8. QED
    BY <1>0, <2>1, <2>6, <2>7 DEF ProcInv
<1>5. CASE WaitAny
  <2>1. cur \in Node /\ status[cur] = "RUNNING" /\ pc = "wait" /\ pc' = "wait" /\ ignored' = ignored
    BY <1>0, <1>5, LimitsAssumption DEF WaitAny, LoadInv, Node, Slot
  <2>2. PICK p \in Pids : proc[p].state = "zombie" /\ proc' = [proc EXCEPT ![p] = free]
    BY <1>5 DEF WaitAny, Reaped
  <2>3. ~ignored
    BY <2>2 DEF ProcInv
  <2>4. ~Used(p)' /\ \A r \in Pids : r # p => proc'[r] = proc[r]
    BY <2>2 DEF TypeOK, Used, free
  <2>5. status'[cur] = "FINISHED" /\ \A i \in Node : i # cur => status'[i] = status[i]
    BY <1>0, <1>5, <2>1 DEF WaitAny, TypeOK
  <2>6. QED
    BY <1>0, <2>1, <2>3, <2>4, <2>5 DEF ProcInv, Used
<1>6. CASE /\ UNCHANGED <<status, counters, numNodesFinished, proc, ignored>>
           /\ ForkFails \/ SkipFork \/ EndForkPass \/ WaitFails \/ SkipWait \/ EndWaitPass \/ Finish
  <2>1. CASE ForkFails \/ SkipFork \/ EndForkPass \/ WaitFails \/ SkipWait
    BY <1>0, <1>6, <2>1 DEF ForkFails, SkipFork, EndForkPass, WaitFails, SkipWait, ProcInv, Used
  <2>2. CASE EndWaitPass
    <3>1. \A i \in Node : status[i] # "RUNNING"
      BY <1>0, <2>2 DEF EndWaitPass, PassInv
    <3>2. ASSUME ignored PROVE \A p \in Pids : ~Used(p)
      BY <3>1, <3>2 DEF ProcInv
    <3>3. ASSUME ~ignored PROVE \A p \in Pids : ~Used(p)
      <4>1. RunningNodes = {}
        BY <3>1 DEF RunningNodes
      <4>2. Cardinality(UsedPids) = 0
        BY <2>2, <3>3, <4>1, FS_EmptySet DEF BalanceInv, EndWaitPass, MainGone
      <4>3. UsedPids = {}
        BY <4>2, FS_EmptySet DEF BalanceInv
      <4>4. QED
        BY <4>3 DEF UsedPids
    <3>4. QED
      BY <1>0, <1>6, <2>2, <3>2, <3>3 DEF EndWaitPass, ProcInv, Used
  <2>3. CASE Finish
    BY <1>0, <1>6, <2>3 DEF Finish, ProcInv, Used
  <2>4. QED
    BY <1>6, <2>1, <2>2, <2>3
<1>7. CASE /\ UNCHANGED <<pc, status, counters, numNodesFinished, cur, ignored>>
           /\ \E p \in Pids : ChildExit(p) \/ InitReaps(p)
  <2>1. PICK p \in Pids : ChildExit(p) \/ InitReaps(p)
    BY <1>7
  <2>2. /\ Used(p)
        /\ \/ proc' = [proc EXCEPT ![p] = free]
           \/ proc' = [proc EXCEPT ![p] = [node |-> proc[p].node, state |-> "zombie"]] /\ ~ignored
    BY <2>1, EnvStep
  <2>3. \A r \in Pids : /\ Used(r)' => Used(r) /\ proc'[r].node = proc[r].node
                        /\ ignored /\ proc'[r].state = "zombie" => proc[r].state = "zombie"
    BY <2>2 DEF TypeOK, Used, free
  <2>4. QED
    BY <1>0, <1>7, <2>3 DEF ProcInv
<1>8. CASE UNCHANGED vars
  BY <1>0, <1>8 DEF ProcInv, Used, vars
<1>9. QED
  BY <1>1, <1>2, <1>3, <1>4, <1>5, <1>6, <1>7, <1>8, Frames

\* There are as many processes as nodes that are RUNNING.
LEMMA BalanceStep ==
  ASSUME TypeOK, LoadInv, BalanceInv, [Next]_vars
  PROVE  BalanceInv'
<1>0. /\ graph' = graph /\ Node' = Node /\ Len(graph) \in Nat /\ cur \in Nat
      /\ Node \subseteq Slot /\ \A i \in Node : i \in Nat /\ i < Len(graph)
  BY GraphSame, GraphsAssumption, LimitsAssumption DEF TypeOK, Node, Slot
<1>a. IsFiniteSet(RunningNodes)
  BY NodeFinite, FS_Subset DEF RunningNodes
<1>1. CASE ParseFails
  BY <1>0, <1>1 DEF ParseFails, BalanceInv, UsedPids, Used, RunningNodes, MainGone
<1>2. CASE PopulateParents
  BY <1>0, <1>2 DEF PopulateParents, BalanceInv, UsedPids, Used, RunningNodes, MainGone
<1>3. CASE ReadyPass
  <2>1. UsedPids' = UsedPids
    BY <1>3 DEF ReadyPass, UsedPids, Used
  <2>2. RunningNodes' = RunningNodes
    BY <1>0, <1>3 DEF ReadyPass, RunningNodes, Eligible
  <2>3. QED
    BY <1>3, <2>1, <2>2 DEF ReadyPass, BalanceInv, MainGone
<1>4. CASE ForkNode
  <2>1. cur \in Node /\ status[cur] = "READY"
    BY <1>0, <1>4, LimitsAssumption DEF ForkNode, LoadInv, Node, Slot
  <2>2. PICK p \in Pids : /\ ~Used(p)
                          /\ proc' = [proc EXCEPT ![p] = [node |-> cur, state |-> "running"]]
    BY <1>4 DEF ForkNode
  <2>3. UsedPids' = UsedPids \cup {p} /\ p \notin UsedPids
    BY <2>2 DEF TypeOK, UsedPids, Used
  <2>4. RunningNodes' = RunningNodes \cup {cur} /\ cur \notin RunningNodes
    BY <1>0, <1>4, <2>1 DEF ForkNode, TypeOK, RunningNodes
  <2>5. /\ IsFiniteSet(UsedPids \cup {p})
        /\ Cardinality(UsedPids \cup {p}) = Cardinality(UsedPids) + 1
    BY <2>3, FS_AddElement DEF BalanceInv
  <2>6. Cardinality(RunningNodes \cup {cur}) = Cardinality(RunningNodes) + 1
    BY <1>a, <2>4, FS_AddElement
  <2>7. QED
    BY <1>4, <2>3, <2>4, <2>5, <2>6 DEF ForkNode, BalanceInv, MainGone
<1>5. CASE WaitAny
  <2>1. cur \in Node /\ status[cur] = "RUNNING"
    BY <1>0, <1>5, LimitsAssumption DEF WaitAny, LoadInv, Node, Slot
  <2>2. PICK p \in Pids : proc[p].state = "zombie" /\ proc' = [proc EXCEPT ![p] = free]
    BY <1>5 DEF WaitAny, Reaped
  <2>3. UsedPids' = UsedPids \ {p} /\ p \in UsedPids
    BY <2>2 DEF TypeOK, UsedPids, Used, free
  <2>4. RunningNodes' = RunningNodes \ {cur} /\ cur \in RunningNodes
    BY <1>0, <1>5, <2>1 DEF WaitAny, TypeOK, RunningNodes
  <2>5. /\ IsFiniteSet(UsedPids \ {p})
        /\ Cardinality(UsedPids \ {p}) = Cardinality(UsedPids) - 1
    BY <2>3, FS_RemoveElement DEF BalanceInv
  <2>6. Cardinality(RunningNodes \ {cur}) = Cardinality(RunningNodes) - 1
    BY <1>a, <2>4, FS_RemoveElement
  <2>7. QED
    BY <1>5, <2>3, <2>4, <2>5, <2>6 DEF WaitAny, BalanceInv, MainGone
<1>6. CASE /\ UNCHANGED <<status, counters, numNodesFinished, proc, ignored>>
           /\ ForkFails \/ SkipFork \/ EndForkPass \/ WaitFails \/ SkipWait \/ EndWaitPass \/ Finish
  <2>1. UsedPids' = UsedPids /\ RunningNodes' = RunningNodes
    BY <1>0, <1>6 DEF UsedPids, Used, RunningNodes
  <2>2. MainGone => MainGone'
    BY <1>6 DEF ForkFails, SkipFork, EndForkPass, WaitFails, SkipWait, EndWaitPass, Finish, MainGone
  <2>3. QED
    BY <1>6, <2>1, <2>2 DEF BalanceInv
<1>7. CASE /\ UNCHANGED <<pc, status, counters, numNodesFinished, cur, ignored>>
           /\ \E p \in Pids : ChildExit(p) \/ InitReaps(p)
  <2>1. PICK p \in Pids : ChildExit(p) \/ InitReaps(p)
    BY <1>7
  <2>2. RunningNodes' = RunningNodes /\ (MainGone' <=> MainGone) /\ ignored' = ignored
    BY <1>0, <1>7 DEF RunningNodes, MainGone
  <2>3. CASE proc' = [proc EXCEPT ![p] = free] /\ (ignored \/ MainGone)
    <3>1. UsedPids' \subseteq UsedPids
      BY <2>3 DEF TypeOK, UsedPids, Used, free
    <3>2. IsFiniteSet(UsedPids')
      BY <3>1, FS_Subset DEF BalanceInv
    <3>3. QED
      BY <2>2, <2>3, <3>2 DEF BalanceInv
  <2>4. CASE proc' = [proc EXCEPT ![p] = [node |-> proc[p].node, state |-> "zombie"]]
    <3>1. Used(p)
      BY <2>1, EnvStep
    <3>2. UsedPids' = UsedPids
      BY <2>4, <3>1 DEF TypeOK, UsedPids, Used
    <3>3. QED
      BY <2>2, <3>2 DEF BalanceInv
  <2>5. QED
    BY <2>1, <2>3, <2>4, EnvStep
<1>8. CASE UNCHANGED vars
  BY <1>0, <1>8 DEF BalanceInv, UsedPids, Used, RunningNodes, MainGone, vars
<1>9. QED
  BY <1>1, <1>2, <1>3, <1>4, <1>5, <1>6, <1>7, <1>8, Frames

\* The FINISHED nodes change only in a wait, which adds the node at the loop index.
LEMMA FinishedFrame ==
  ASSUME TypeOK, LoadInv, [Next]_vars
  PROVE  \/ ~WaitAny /\ FinishedNodes' = FinishedNodes
         \/ /\ WaitAny /\ cur \in Node /\ cur \notin FinishedNodes
            /\ FinishedNodes' = FinishedNodes \cup {cur}
<1>0. /\ graph' = graph /\ Node' = Node /\ Len(graph) \in Nat /\ cur \in Nat
      /\ Node \subseteq Slot
  BY GraphSame, GraphsAssumption, LimitsAssumption DEF TypeOK, Node, Slot
<1>1. CASE UNCHANGED status /\ ~WaitAny
  BY <1>0, <1>1 DEF FinishedNodes
<1>2. CASE ReadyPass
  BY <1>0, <1>2 DEF ReadyPass, FinishedNodes, Eligible, WaitAny
<1>3. CASE ForkNode
  BY <1>0, <1>3 DEF ForkNode, FinishedNodes, TypeOK, WaitAny
<1>4. CASE WaitAny
  <2>1. cur \in Node /\ status[cur] = "RUNNING"
    BY <1>0, <1>4, LimitsAssumption DEF WaitAny, LoadInv, Node, Slot
  <2>2. QED
    BY <1>0, <1>4, <2>1 DEF WaitAny, FinishedNodes, TypeOK
<1>5. QED
  BY <1>1, <1>2, <1>3, <1>4, Frames DEF ParseFails, PopulateParents, vars

\* numNodesFinished counts them.
LEMMA CountStep ==
  ASSUME TypeOK, LoadInv, CountInv, [Next]_vars
  PROVE  CountInv'
<1>0. graph' = graph
  BY GraphSame
<1>1. numNodesFinished' = Cardinality(FinishedNodes')
  <2>1. CASE ~WaitAny /\ FinishedNodes' = FinishedNodes
    <3>1. numNodesFinished' = numNodesFinished
      BY <2>1, Frames DEF ParseFails, PopulateParents, ReadyPass, ForkNode, vars
    <3>2. QED
      BY <2>1, <3>1 DEF CountInv
  <2>2. CASE /\ WaitAny /\ cur \in Node /\ cur \notin FinishedNodes
             /\ FinishedNodes' = FinishedNodes \cup {cur}
    <3>1. IsFiniteSet(FinishedNodes)
      BY NodeFinite, FS_Subset DEF FinishedNodes
    <3>2. Cardinality(FinishedNodes \cup {cur}) = Cardinality(FinishedNodes) + 1
      BY <2>2, <3>1, FS_AddElement
    <3>3. QED
      BY <2>2, <3>2 DEF WaitAny, CountInv
  <2>3. QED
    BY <2>1, <2>2, FinishedFrame
<1>2. (pc = "success" => AllFinished)'
  BY <1>0, Frames DEF ParseFails, PopulateParents, ReadyPass, ForkNode, WaitAny, ForkFails, SkipFork,
     EndForkPass, WaitFails, SkipWait, EndWaitPass, Finish, AllFinished, CountInv, vars
<1>3. QED
  BY <1>1, <1>2 DEF CountInv

\* What main has counted agrees with the graph.
LEMMA EdgeStep ==
  ASSUME TypeOK, LoadInv, EdgeInv, [Next]_vars
  PROVE  EdgeInv'
<1>0. /\ graph' = graph /\ Node' = Node /\ graph \in Graphs
      /\ \A i, S : EdgesTo(i, S)' = EdgesTo(i, S)
  BY GraphSame DEF TypeOK
<1>a. \A i : Occurrences(i)' = Occurrences(i) /\ Occurrences(i) \in Nat
  BY <1>0, EdgesFinite DEF Occurrences
<1>b. FinishedNodes \subseteq Node
  BY DEF FinishedNodes
<1> SUFFICES ASSUME Initialised
             PROVE  /\ \A i \in Slot : parentsFinished'[i] = Cardinality(EdgesTo(i, FinishedNodes'))
                    /\ pc' = "load" => \A i \in Slot : numParents'[i] = 0
                    /\ pc' \in {"ready", "fork", "wait"} =>
                         \A i \in Slot : numParents'[i] = Occurrences(i)
  BY <1>0, <1>a DEF EdgeInv, Initialised
<1>1. \A i \in Slot : parentsFinished'[i] = Cardinality(EdgesTo(i, FinishedNodes'))
  <2>1. CASE ~WaitAny /\ FinishedNodes' = FinishedNodes
    <3>1. parentsFinished' = parentsFinished
      BY <2>1, Frames DEF ParseFails, PopulateParents, ReadyPass, ForkNode, counters, vars
    <3>2. QED
      BY <2>1, <3>1 DEF EdgeInv
  <2>2. CASE /\ WaitAny /\ cur \in Node /\ cur \notin FinishedNodes
             /\ FinishedNodes' = FinishedNodes \cup {cur}
    <3>1. TAKE i \in Slot
    <3>2. parentsFinished'[i] = parentsFinished[i] + Times(i, cur)
      BY <2>2 DEF WaitAny
    <3>3. Cardinality(EdgesTo(i, FinishedNodes \cup {cur}))
            = Cardinality(EdgesTo(i, FinishedNodes)) + Times(i, cur)
      BY <1>0, <1>b, <2>2, EdgesAdd
    <3>4. QED
      BY <2>2, <3>2, <3>3 DEF EdgeInv
  <2>3. QED
    BY <2>1, <2>2, FinishedFrame
<1>2. pc' = "load" => \A i \in Slot : numParents'[i] = 0
  BY Frames DEF ParseFails, PopulateParents, ReadyPass, ForkNode, WaitAny, ForkFails, SkipFork,
     EndForkPass, WaitFails, SkipWait, EndWaitPass, Finish, EdgeInv, counters, vars
<1>3. pc' \in {"ready", "fork", "wait"} => \A i \in Slot : numParents'[i] = Occurrences(i)
  <2>1. CASE PopulateParents
    BY <1>a, <2>1 DEF PopulateParents, EdgeInv
  <2>2. CASE ~PopulateParents
    BY <2>2, Frames DEF ParseFails, ReadyPass, ForkNode, WaitAny, ForkFails, SkipFork,
     EndForkPass, WaitFails, SkipWait, EndWaitPass, Finish, EdgeInv, counters, vars
  <2>3. QED
    BY <2>1, <2>2
<1>4. QED
  BY <1>1, <1>2, <1>3

\* In the ready pass the parents of an eligible node are FINISHED.
LEMMA EligibleParents ==
  ASSUME TypeOK, EdgeInv, Initialised, ReadyPass, NEW i \in Node, Eligible(i)
  PROVE  Preds(i) \subseteq FinishedNodes
<1>1. i \in Slot /\ graph \in Graphs /\ FinishedNodes \subseteq Node
  BY NodeFinite DEF TypeOK, FinishedNodes
<1>2. Cardinality(EdgesTo(i, FinishedNodes)) = Occurrences(i)
  BY <1>1 DEF EdgeInv, ReadyPass, Eligible
<1>3. QED
  BY <1>1, <1>2, AllHeard

\* No node leaves INELIGIBLE before all its parents are FINISHED.
LEMMA OrderStep ==
  ASSUME TypeOK, LoadInv, EdgeInv, OrderInv, [Next]_vars
  PROVE  OrderInv'
<1>0. /\ graph' = graph /\ Node' = Node /\ \A i : Preds(i)' = Preds(i)
      /\ \A i : Preds(i) \subseteq Node
      /\ Len(graph) \in Nat /\ cur \in Nat /\ Node \subseteq Slot
  BY GraphSame, GraphsAssumption, LimitsAssumption DEF TypeOK, Preds, Node, Slot
<1> SUFFICES ASSUME Initialised, NEW i \in Node, status'[i] # "INELIGIBLE", NEW q \in Preds(i)
             PROVE  status'[q] = "FINISHED"
  BY <1>0 DEF OrderInv, Initialised
<1>1. CASE UNCHANGED status
  BY <1>1 DEF OrderInv
<1>2. CASE ReadyPass
  <2>1. status[i] # "INELIGIBLE" \/ Eligible(i)
    BY <1>0, <1>2 DEF ReadyPass
  <2>2. status[q] = "FINISHED"
    BY <1>2, <2>1, EligibleParents DEF OrderInv, FinishedNodes
  <2>3. QED
    BY <1>0, <1>2, <2>2 DEF ReadyPass, Eligible
<1>3. CASE ForkNode \/ WaitAny
  <2>1. cur \in Node /\ status[cur] \in {"READY", "RUNNING"}
    BY <1>0, <1>3, LimitsAssumption DEF ForkNode, WaitAny, LoadInv, Node, Slot
  <2>2. status' = [status EXCEPT ![cur] = "RUNNING"] \/ status' = [status EXCEPT ![cur] = "FINISHED"]
    BY <1>3 DEF ForkNode, WaitAny
  <2>3. status[i] # "INELIGIBLE"
    BY <1>0, <2>1, <2>2 DEF TypeOK
  <2>4. status[q] = "FINISHED" /\ q # cur
    BY <2>1, <2>3 DEF OrderInv
  <2>5. QED
    BY <1>0, <2>2, <2>4 DEF TypeOK
<1>4. QED
  BY <1>1, <1>2, <1>3, Frames DEF ParseFails, PopulateParents, vars

\* No process has the table entry of a parent of another: the parents of a forked node
\* are FINISHED, and the nodes of the other processes are RUNNING.
LEMMA BatchStep ==
  ASSUME TypeOK, LoadInv, ProcInv, OrderInv, BatchInv, [Next]_vars
  PROVE  BatchInv'
<1>0. /\ graph' = graph /\ Node' = Node /\ \A i : Preds(i)' = Preds(i)
      /\ Len(graph) \in Nat /\ cur \in Nat /\ Node \subseteq Slot
  BY GraphSame, GraphsAssumption, LimitsAssumption DEF TypeOK, Preds, Node, Slot
<1> SUFFICES ASSUME Initialised, NEW p \in Pids, NEW r \in Pids, Used(p)', Used(r)'
             PROVE  proc'[r].node \notin Preds(proc'[p].node)
  BY <1>0 DEF BatchInv, Initialised
<1>1. CASE ForkNode
  <2>1. cur \in Node /\ status[cur] = "READY" /\ pc = "fork"
    BY <1>0, <1>1, LimitsAssumption DEF ForkNode, LoadInv, Node, Slot
  <2>2. PICK n \in Pids : proc' = [proc EXCEPT ![n] = [node |-> cur, state |-> "running"]]
    BY <1>1 DEF ForkNode
  <2>3. \A s \in {p, r} : \/ proc'[s].node = cur
                          \/ proc'[s].node \in Node /\ status[proc'[s].node] = "RUNNING"
    BY <2>1, <2>2 DEF TypeOK, ProcInv, Used
  <2>4. status[proc'[r].node] # "FINISHED"
    BY <2>1, <2>3
  <2>5. proc'[p].node \in Node /\ status[proc'[p].node] # "INELIGIBLE"
    BY <2>1, <2>3
  <2>6. QED
    BY <2>4, <2>5 DEF OrderInv
<1>2. CASE WaitAny
  <2>1. PICK n \in Pids : proc' = [proc EXCEPT ![n] = free]
    BY <1>2 DEF WaitAny, Reaped
  <2>2. p # n /\ r # n /\ proc'[p] = proc[p] /\ proc'[r] = proc[r]
    BY <2>1 DEF TypeOK, Used, free
  <2>3. QED
    BY <2>2 DEF BatchInv, Used
<1>3. CASE \E n \in Pids : ChildExit(n) \/ InitReaps(n)
  <2>1. PICK n \in Pids : ChildExit(n) \/ InitReaps(n)
    BY <1>3
  <2>2. /\ Used(n)
        /\ \/ proc' = [proc EXCEPT ![n] = free]
           \/ proc' = [proc EXCEPT ![n] = [node |-> proc[n].node, state |-> "zombie"]]
    BY <2>1, EnvStep
  <2>3. ASSUME NEW s \in Pids, Used(s)' PROVE Used(s) /\ proc'[s].node = proc[s].node
    <3>1. CASE proc' = [proc EXCEPT ![n] = free]
      BY <2>3, <3>1 DEF TypeOK, Used, free
    <3>2. CASE proc' = [proc EXCEPT ![n] = [node |-> proc[n].node, state |-> "zombie"]]
      BY <2>2, <2>3, <3>2 DEF TypeOK, Used
    <3>3. QED
      BY <2>2, <3>1, <3>2
  <2>4. QED
    BY <2>3 DEF BatchInv
<1>4. CASE UNCHANGED proc
  BY <1>4 DEF BatchInv, Used
<1>5. QED
  BY <1>1, <1>2, <1>3, <1>4, Frames DEF ParseFails, PopulateParents, ReadyPass, vars

\* Every step keeps the invariant.
LEMMA StepInv == IInv /\ [Next]_vars => IInv'
BY TypeStep, LoadStep, PassStep, ProcStep, BalanceStep, CountStep, EdgeStep, OrderStep, BatchStep
   DEF IInv

-----------------------------------------------------------------------------
(***************************************************************************)
(* The theorems.                                                           *)
(***************************************************************************)

\* The parts of the invariant hold together in every reachable state of test.c.
THEOREM Invariance == Spec => []IInv
<1>1. QED
  BY InitInv, StepInv, PTL DEF Spec

\* Status, counters, loop index and process table keep their types whatever graph is read.
THEOREM TypeCorrect == Spec => []TypeOK
<1>1. IInv => TypeOK
  BY DEF IInv
<1>2. QED
  BY <1>1, Invariance, PTL

\* If the counters start at 0, no program of test.c runs while one it depends on has a
\* process, although wait reaps any child for the node at the loop index.
THEOREM OrderCorrect == Initialised /\ Spec => []DependencyOrder
<1>1. Initialised /\ IInv => DependencyOrder
  BY DEF IInv, ProcInv, OrderInv, BatchInv, DependencyOrder
<1>2. Initialised /\ [Next]_vars => Initialised'
  BY DEF Initialised
<1>3. QED
  BY <1>1, <1>2, Invariance, PTL DEF Spec

\* There are always as many children to wait for as RUNNING nodes, so main's wait neither
\* fails nor takes a child of a later batch.
THEOREM WaitsCorrect == Spec => []WaitsBalanced
<1>1. ASSUME IInv PROVE WaitsBalanced
  <2>1. Of("running") \cup Of("zombie") = UsedPids
    BY <1>1 DEF IInv, TypeOK, Of, UsedPids, Used
  <2>2. QED
    BY <1>1, <2>1 DEF IInv, BalanceInv, WaitsBalanced
<1>2. QED
  BY <1>1, Invariance, PTL

\* num_parents_finished of a node is the number of edges to it from FINISHED nodes.
THEOREM ParentsCorrect == Spec => []ParentsHeard
<1>1. IInv => ParentsHeard
  BY NodeFinite DEF IInv, EdgeInv, ParentsHeard, FinishedNodes
<1>2. QED
  BY <1>1, Invariance, PTL

\* main returns EXIT_SUCCESS only when every node has been run and no process is left.
THEOREM SuccessCorrect == Spec => []CleanSuccess
<1>1. ASSUME IInv PROVE CleanSuccess
  <2> SUFFICES ASSUME pc = "success"
               PROVE  /\ \A i \in Node : status[i] = "FINISHED"
                      /\ \A p \in Pids : ~Used(p)
    BY DEF CleanSuccess
  <2>1. /\ graph \in Graphs /\ Len(graph) \in Nat /\ Len(graph) <= MAX_NODES
        /\ numNodesFinished \in 0 .. Len(graph)
    BY <1>1, GraphsAssumption DEF IInv, TypeOK, LoadInv
  <2>2. Cardinality(Node) = Len(graph)
    BY <2>1, NodeCount
  <2>3. numNodesFinished >= Len(graph) /\ numNodesFinished = Cardinality(FinishedNodes)
    BY <1>1 DEF IInv, CountInv, AllFinished
  <2>4. Cardinality(FinishedNodes) = Cardinality(Node)
    BY <2>1, <2>2, <2>3
  <2>5. FinishedNodes = Node
    BY <2>4, NodeFinite, FS_Subset DEF FinishedNodes
  <2>6. QED
    BY <1>1, <2>5 DEF IInv, ProcInv, FinishedNodes
<1>2. QED
  BY <1>1, Invariance, PTL

\* If the counters start at 0, the program implements the abstract executor of DagRun.
THEOREM Refinement == Initialised /\ Spec => ImplementsDagRun
<1> DEFINE edgesOf == UNION {Preds(i) \X {i} : i \in Node}
           phaseOf == [i \in Slot |-> Phase(i)]
<1>1. Init => Dag!Init
  <2>1. edgesOf \subseteq Slot \X Slot
    BY NodeFinite DEF Preds
  <2>2. QED
    BY <2>1 DEF Init, Dag!Init, Phase
<1>2. IInv /\ Initialised /\ [Next]_vars => Initialised' /\ [Dag!Next]_<<edgesOf, phaseOf>>
  <2> SUFFICES ASSUME IInv, Initialised, [Next]_vars
               PROVE  Initialised' /\ [Dag!Next]_<<edgesOf, phaseOf>>
    OBVIOUS
  <2>1. Initialised' /\ edgesOf' = edgesOf
    BY GraphSame DEF Initialised
  <2>2. TypeOK /\ LoadInv /\ OrderInv
    BY DEF IInv
  <2>3. Len(graph) \in Nat /\ cur \in Nat /\ Node \subseteq Slot
    BY <2>2, NodeFinite, GraphsAssumption DEF TypeOK
  <2>4. CASE UNCHANGED status
    BY <2>1, <2>4 DEF Phase
  <2>5. CASE ReadyPass
    <3>1. \A i \in Slot : Phase(i)' = Phase(i)
      BY <2>5 DEF ReadyPass, Eligible, Phase
    <3>2. QED
      BY <2>1, <3>1
  <2>6. CASE ForkNode
    <3>1. cur \in Slot /\ status[cur] = "READY" /\ cur \in Node
      BY <2>2, <2>3, <2>6, LimitsAssumption DEF ForkNode, LoadInv, Node, Slot
    <3>2. status' = [status EXCEPT ![cur] = "RUNNING"]
      BY <2>6 DEF ForkNode
    <3>3. phaseOf[cur] = "waiting"
      BY <3>1 DEF Phase
    <3>4. phaseOf' = [phaseOf EXCEPT ![cur] = "running"]
      BY <2>2, <3>1, <3>2 DEF Phase, TypeOK
    <3>5. \A q \in Slot : <<q, cur>> \in edgesOf => phaseOf[q] = "done"
      <4>1. ASSUME NEW q \in Slot, <<q, cur>> \in edgesOf PROVE q \in Preds(cur)
        BY <4>1
      <4>2. QED
        BY <2>2, <3>1, <4>1 DEF OrderInv, Phase
    <3>6. Dag!Start(cur)
      BY <2>1, <3>3, <3>4, <3>5 DEF Dag!Start
    <3>7. QED
      BY <2>1, <3>1, <3>6 DEF Dag!Next
  <2>7. CASE WaitAny
    <3>1. cur \in Slot /\ status[cur] = "RUNNING"
      BY <2>2, <2>3, <2>7, LimitsAssumption DEF WaitAny, LoadInv, Slot
    <3>2. status' = [status EXCEPT ![cur] = "FINISHED"]
      BY <2>7 DEF WaitAny
    <3>3. phaseOf[cur] = "running"
      BY <3>1 DEF Phase
    <3>4. phaseOf' = [phaseOf EXCEPT ![cur] = "done"]
      BY <2>2, <3>1, <3>2 DEF Phase, TypeOK
    <3>5. Dag!Finish(cur)
      BY <2>1, <3>3, <3>4 DEF Dag!Finish
    <3>6. QED
      BY <2>1, <3>1, <3>5 DEF Dag!Next
  <2>8. QED
    BY <2>4, <2>5, <2>6, <2>7, Frames DEF ParseFails, PopulateParents, vars
<1>3. QED
  BY <1>1, <1>2, Invariance, PTL DEF Spec, ImplementsDagRun, Dag!Spec
=============================================================================
