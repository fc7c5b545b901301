------------------------------ MODULE GraphLoad ------------------------------
(***************************************************************************)
(* The front end of os/processmgt.c: main up to its run loop.  It reads    *)
(* the graph file line by line into nodes[] (parse_graph_file,             *)
(* parse_input_line), finds every node's parents (parse_node_parents) and  *)
(* prints the process tree row by row (print_process_tree).                *)
(*                                                                         *)
(* Node ids are line numbers from 0.  A line is abstracted to what decides *)
(* the parser's outcome; program text, arguments and file names are not    *)
(* modelled.  The run loop is module ProcMgt.                              *)
(***************************************************************************)
EXTENDS Integers, Sequences, FiniteSets, Functions

CONSTANTS
  MAX_NODES,      \* length of nodes[]
  MAX_CHILDREN,   \* length of a node's children[]
  MAX_PARENTS,    \* length of a node's parents[]
  GraphFiles,     \* the graph files the program may be started on
  Bsearch(_, _),  \* libc's bsearch: does it find the key in the array?
  StackJunk       \* what a node of nodes[] may hold before it is written: in num_parents
                  \* a count of any sign, behind the parents stored that many ids more

\* A line of the graph file: the number of ':'-separated fields (extra ones are
\* ignored), whether the program field holds a token, whether the child list is
\* "none", and otherwise the child ids that atoi makes of its tokens.
Line == [fields : 0..4, prog : BOOLEAN, none : BOOLEAN, kids : Seq(Int)]

Slot == 0 .. MAX_NODES - 1

\* What parse_input_line stores in children[0 .. num_children-1].
Kids(line) == IF line.none THEN <<>> ELSE line.kids

Ascending(s) == \A j, k \in DOMAIN s : j <= k => s[j] <= s[k]

ASSUME LimitsAssumption ==
  /\ MAX_NODES \in Nat \ {0}
  /\ MAX_CHILDREN \in Nat
  /\ MAX_PARENTS \in Nat

ASSUME GraphFilesAssumption == GraphFiles \subseteq Seq(Line)

ASSUME StackJunkAssumption ==
  /\ StackJunk # {}
  /\ StackJunk \subseteq [count : Int, cells : SUBSET Slot]
  /\ \A junk \in StackJunk : junk.cells = {} <=> junk.count <= 0

\* The contract of bsearch: what it finds is in the array, and in a sorted
\* array it finds everything.
ASSUME BsearchAssumption ==
  \A file \in GraphFiles : \A k \in DOMAIN file : \A key \in Slot :
    LET kids == Kids(file[k]) IN
    /\ Bsearch(key, kids) \in BOOLEAN
    /\ Bsearch(key, kids) => key \in Range(kids)
    /\ Ascending(kids) /\ key \in Range(kids) => Bsearch(key, kids)

VARIABLES
  pc,          \* where main is
  file,        \* the graph file
  numNodes,    \* lines parsed so far (id), then num_nodes
  children,    \* children[] of each node
  leftover,    \* history: what memory held in num_parents of each node before
  numParents,  \* num_parents of each node
  parents,     \* the ids in parents[0 .. num_parents-1] of each node
  notVisited,  \* num_of_parents_not_visited of print_process_tree
  nodesDone    \* num_nodes_done of print_process_tree

loadVars ==
  <<file, numNodes, children, leftover, numParents, parents, notVisited, nodesDone>>

Node == 0 .. numNodes - 1

LoadInit ==
  /\ pc = "open"
  /\ file \in GraphFiles
  /\ numNodes = 0
  /\ children = [s \in Slot |-> <<>>]
  /\ leftover = [s \in Slot |-> 0]
  /\ numParents = [s \in Slot |-> 0]
  /\ parents = [s \in Slot |-> {}]
  /\ notVisited = [s \in Slot |-> 0]
  /\ nodesDone = 0

-----------------------------------------------------------------------------
(***************************************************************************)
(* Parsing.                                                                *)
(***************************************************************************)

\* The outcome of parse_input_line: strings[0] or strings[1] is NULL and
\* parse_tokens refuses it; a later missing string is passed to strcpy or strcmp;
\* the child list is scanned in order for the limit and for the node's own id.
ParseInputLine(line, id) ==
  CASE line.fields < 2                                              -> "error"
    [] line.fields >= 2 /\ (~line.prog \/ line.fields < 4)          -> "crash"
    [] line.fields >= 4 /\ line.prog /\ ~line.none /\ line.kids = <<>> -> "crash"
    [] OTHER -> IF Len(Kids(line)) > MAX_CHILDREN \/ id \in Range(Kids(line))
                THEN "error" ELSE "ok"

\* Arguments are checked and the file is opened, or main returns EXIT_FAILURE.
OpenGraphFile ==
  /\ pc = "open"
  /\ pc' \in {"parse", "failure"}
  /\ UNCHANGED loadVars

\* Mutant: id > MAX_NODES as the limit check.
AtLimit_Late(id) == id > MAX_NODES

AtLimit(id) == id >= MAX_NODES

\* One iteration of the fgets loop on a line that parses: the counters advance
\* first, and only then is id compared with MAX_NODES.
AddNode ==
  /\ pc = "parse"
  /\ numNodes < Len(file)
  /\ ParseInputLine(file[numNodes + 1], numNodes) = "ok"
  /\ children' = [children EXCEPT ![numNodes] = Kids(file[numNodes + 1])]
  /\ numNodes' = numNodes + 1
  /\ pc' = IF AtLimit(numNodes + 1) THEN "failure" ELSE "parse"
  /\ UNCHANGED <<file, leftover, numParents, parents, notVisited, nodesDone>>

\* One iteration on a line that does not: main returns EXIT_FAILURE or is
\* killed by the null pointer.
RejectLine ==
  /\ pc = "parse"
  /\ numNodes < Len(file)
  /\ LET result == ParseInputLine(file[numNodes + 1], numNodes) IN
     /\ result # "ok"
     /\ pc' = IF result = "error" THEN "failure" ELSE "crashed"
  /\ UNCHANGED loadVars

\* fgets returns NULL: at the end of the file, or early on a read error.
EndOfFile ==
  /\ pc = "parse"
  /\ \/ numNodes = Len(file) /\ pc' = "parents"
     \/ pc' = "failure"
  /\ UNCHANGED loadVars

-----------------------------------------------------------------------------
(***************************************************************************)
(* Parents.                                                                *)
(***************************************************************************)

\* Mutant: the inner loop stops at i.
FoundParents_Earlier(i) == {j \in Node : j < i /\ Bsearch(i, children[j])}

\* The nodes whose children[] the inner loop's bsearch finds i in.
FoundParents(i) == {j \in Node : Bsearch(i, children[j])}

Overflows(i) == Cardinality(FoundParents(i)) > MAX_PARENTS

\* num_parents is incremented for each parent found, and nothing initialises it.
\* parents[] is not bounds-checked: with parents 0 .. MAX_PARENTS the last id is
\* stored over num_parents, which lies behind parents[] and is then incremented.
NumParents(i, junk) ==
  IF Overflows(i) THEN MAX_PARENTS + 1 ELSE junk.count + Cardinality(FoundParents(i))

\* The ids the status check reads from parents[0 .. num_parents-1]: the first
\* num_parents of those found, in the order of the search; with a larger count all
\* of them and leftover cells; after an overflow num_parents as the last.
ParentCells(i, junk) ==
  LET found == FoundParents(i) IN
  IF Overflows(i)
  THEN (0 .. MAX_PARENTS - 1) \cup {MAX_PARENTS + 1}
  ELSE {q \in found : Cardinality({r \in found : r <= q}) <= NumParents(i, junk)}
         \cup junk.cells

\* Bound: of the graphs that overflow parents[], only that first case is modelled.
OverflowBound ==
  \A i \in Node : \/ ~Overflows(i)
                  \/ FoundParents(i) = 0 .. MAX_PARENTS /\ MAX_PARENTS + 1 \in Node

\* parse_node_parents, and the loop that fills num_of_parents_not_visited.
ParseNodeParents ==
  /\ pc = "parents"
  /\ OverflowBound
  /\ \E junk \in [Node -> StackJunk] :
       /\ leftover' = [s \in Slot |-> IF s \in Node THEN junk[s].count ELSE leftover[s]]
       /\ numParents' = [s \in Slot |-> IF s \in Node THEN NumParents(s, junk[s])
                                        ELSE numParents[s]]
       /\ parents' = [s \in Slot |-> IF s \in Node THEN ParentCells(s, junk[s])
                                     ELSE parents[s]]
  /\ notVisited' = numParents'
  /\ pc' = "print"
  /\ UNCHANGED <<file, numNodes, children, nodesDone>>

-----------------------------------------------------------------------------
(***************************************************************************)
(* The process tree: each row is decided on the counts the row before it   *)
(* left (the temp_not_visited copy).                                       *)
(***************************************************************************)

Row == {i \in Node : notVisited[i] = 0}

RowCells == UNION {{i} \X DOMAIN children[i] : i \in Row}

\* Mutant: a child is decremented once per row.
Decrements_Once(x) == IF \E c \in RowCells : children[c[1]][c[2]] = x THEN 1 ELSE 0

\* How often x occurs in the child lists of the row.
Decrements(x) == Cardinality({c \in RowCells : children[c[1]][c[2]] = x})

\* Edges stored for the row in edges_to_print[num_nodes].
RowEdges ==
  Cardinality(UNION {{i} \X (1 .. numParents[i]) : i \in Row})
    + Cardinality({i \in Row : numParents[i] = 0})

\* The row writes past edges_to_print[], or past temp_not_visited[] because a child id
\* names no node.
RowOutOfBounds ==
  \/ RowEdges > numNodes
  \/ \E c \in RowCells : children[c[1]][c[2]] \notin Node

PrintRow ==
  /\ pc = "print"
  /\ nodesDone < numNodes
  /\ nodesDone' = nodesDone + Cardinality(Row)
  /\ notVisited' = [s \in Slot |-> notVisited[s] - Decrements(s)
                                     - (IF s \in Row THEN 1 ELSE 0)]
  /\ pc' \in IF RowOutOfBounds THEN {"print", "crashed"} ELSE {"print"}
  /\ UNCHANGED <<file, numNodes, children, leftover, numParents, parents>>

TreePrinted ==
  /\ pc = "print"
  /\ nodesDone >= numNodes
  /\ pc' = "status"
  /\ UNCHANGED loadVars

LoadNext ==
  \/ OpenGraphFile
  \/ AddNode
  \/ RejectLine
  \/ EndOfFile
  \/ ParseNodeParents
  \/ PrintRow

-----------------------------------------------------------------------------
(***************************************************************************)
(* What a graph file has to be for the rest to work.                       *)
(***************************************************************************)

FileNode == 0 .. Len(file) - 1

\* The true parents of i: the lines that list it.
Preds(i) == {q \in FileNode : i \in Range(Kids(file[q + 1]))}

\* The parent search sees every edge: child lists are sorted for bsearch, and no
\* node has more parents than parents[] holds.
Searchable ==
  /\ \A q \in FileNode : Ascending(Kids(file[q + 1]))
  /\ \A i \in Slot : Cardinality(Preds(i)) <= MAX_PARENTS

\* nodes[] happens to be zeroed.
NoJunkCells == \A junk \in StackJunk : junk.count = 0

\* No uninitialised num_parents is negative.
NoNegativeJunk == \A junk \in StackJunk : junk.count >= 0

\* Nor was any of those that were incremented.
NoneNegative == \A s \in Slot : leftover[s] >= 0

\* Neither that, nor is a child listed twice or names no line.
Counted ==
  /\ \A q \in FileNode :
       LET kids == Kids(file[q + 1]) IN
       /\ IsInjective(kids)
       /\ Range(kids) \subseteq FileNode
  /\ NoJunkCells

\* The graph has no cycle: some node of any set has no parent in the set.
Acyclic ==
  \A S \in (SUBSET FileNode) \ {{}} : \E i \in S : Preds(i) \cap S = {}

\* No row of the tree, nodes without an edge between them, has more edges than
\* edges_to_print[] holds.
RowsFit ==
  \A S \in SUBSET FileNode :
    (\A i \in S : Preds(i) \cap S = {}) =>
      Cardinality(UNION {{i} \X Preds(i) : i \in S})
        + Cardinality({i \in S : Preds(i) = {}}) <= Len(file)

WellFormed == Searchable /\ Counted /\ Acyclic /\ RowsFit

InTree == {i \in Node : notVisited[i] < 0}

\* The tree is printed in topological order and completely: while rows are
\* printed, a node that is not yet in the tree is waiting for exactly its parents
\* that are not, nodes enter it after all their parents, and the count of printed
\* nodes that ends the loop is right.  (print_process_tree decrements a copy of the
\* counts; a wrong count leaves a node out and the loop never ends.)
TreeOrder ==
  pc = "print" /\ Searchable /\ Counted =>
    /\ nodesDone = Cardinality(InTree)
    /\ \A i \in Node :
         IF i \in InTree THEN Preds(i) \subseteq InTree
         ELSE notVisited[i] = Cardinality(Preds(i) \ InTree)
=============================================================================
