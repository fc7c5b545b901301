------------------------------ MODULE MCProcMgt ------------------------------
(***************************************************************************)
(* Instances of ProcMgt: the graph files of each run, and bsearch.         *)
(***************************************************************************)
EXTENDS ProcMgt, LibC, SequencesExt, FiniteSetsExt

MCBsearch(key, arr) == BinarySearch(key, arr)

\* A legal line with these children.
KidsLine(kids) == [fields |-> 4, prog |-> TRUE, none |-> kids = <<>>, kids |-> kids]

ToFile(kidsOf) == [k \in DOMAIN kidsOf |-> KidsLine(kidsOf[k])]

\* Every directed graph over n nodes, child lists ascending.
Graphs(n) ==
  {[k \in 1 .. n |-> KidsLine(SetToSortSeq(g[k], <))] :
     g \in {h \in [1 .. n -> SUBSET (0 .. n - 1)] : \A k \in 1 .. n : k - 1 \notin h[k]}}

\* graph-file2 without its first two lines' tail, and its like: a diamond, two
\* chains side by side, a root with two leaves and a later join.
FourNodes == {ToFile(<< <<1, 2>>, <<3>>, <<3>>, <<>> >>),
              ToFile(<< <<2>>, <<3>>, <<>>, <<>> >>),
              ToFile(<< <<3>>, <<3>>, <<3>>, <<>> >>)}

DagFiles == {<<>>} \cup Graphs(1) \cup Graphs(2) \cup Graphs(3) \cup FourNodes
NoJunk == {[count |-> 0, cells |-> {}]}

\* Files and memory at and beyond the limits, with MAX_CHILDREN = 3, MAX_PARENTS = 2,
\* MAX_NODES = 6.
LimitFiles ==
  { ToFile(<< <<2, 1>>, <<>>, <<>> >>),                 \* bsearch misses 2
    ToFile(<< <<1, 1>>, <<>> >>),                       \* a child listed twice
    ToFile(<< <<3>>, <<3>>, <<3>>, <<>> >>),            \* parents[] overflows
    ToFile(<< <<1>>, <<0>> >>),                         \* a cycle
    ToFile(<< <<5>>, <<>> >>),                          \* no such child
    ToFile(<< <<2, 3>>, <<4>>, <<>>, <<>>, <<>> >>),
    ToFile(<< <<2, 3, 4>>, <<2, 3, 4>>, <<>>, <<>>, <<>> >>), \* too wide a row
    ToFile(<< <<0>> >>),                                \* its own child
    ToFile(<< <<1, 2, 3, 4>>, <<>> >>),              \* too many children
    ToFile([k \in 1 .. 7 |-> <<>>]),                    \* too many nodes
    << [fields |-> 1, prog |-> TRUE, none |-> FALSE, kids |-> <<>>] >>,
    << [fields |-> 3, prog |-> TRUE, none |-> TRUE, kids |-> <<>>] >>,
    << [fields |-> 4, prog |-> TRUE, none |-> FALSE, kids |-> <<>>] >> }

UnsortedFiles == {ToFile(<< <<2, 1>>, <<>>, <<>> >>)}

Junk == NoJunk \cup {[count |-> -1, cells |-> {}], [count |-> 1, cells |-> {1}]}
=============================================================================
