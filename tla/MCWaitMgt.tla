------------------------------ MODULE MCWaitMgt ------------------------------
(***************************************************************************)
(* Instances of WaitMgt.                                                   *)
(***************************************************************************)
EXTENDS WaitMgt, SequencesExt

Line(kids) == [fields |-> 4, none |-> kids = <<>>, kids |-> kids]
ToFile(kidsOf) == [k \in DOMAIN kidsOf |-> Line(kidsOf[k])]

\* Every directed graph over n nodes without self-loops; child lists descend, which
\* this program, unlike processmgt.c, does not mind.
Digraphs(n) ==
  {[k \in 1 .. n |-> Line(SetToSortSeq(g[k], >))] :
     g \in {h \in [1 .. n -> SUBSET (0 .. n - 1)] : \A k \in 1 .. n : k - 1 \notin h[k]}}

\* A repeated child, a self-loop, a diamond, and chains of different length.
MoreGraphs == {ToFile(g) : g \in
  { << <<1, 1>>, <<2>>, <<>> >>, << <<1, 2, 1>>, <<2, 2>>, <<>> >>, << <<0>>, <<>> >>,
    << <<2, 1>>, <<3>>, <<3>>, <<>> >>, << <<2>>, <<>>, <<3>>, <<>> >>,
    << <<>>, <<>>, <<>>, <<>> >> }}

\* A child that is no node, or no slot; too many children or lines; lines without
\* enough fields or with an empty child list, behind a legal one.
BadGraphs ==
  {ToFile(g) : g \in { << <<1, 3>>, <<>> >>, << <<1>>, <<7>> >>, << <<1, 1, 1, 1>>, <<>> >>,
                       << <<1>>, <<2>>, <<3>>, <<>>, <<>> >> }}
  \cup {<<Line(<<>>), [fields |-> n, none |-> FALSE, kids |-> <<>>]>> : n \in {0, 1, 3, 4}}

MCGraphs == {<<>>} \cup Digraphs(2) \cup Digraphs(3) \cup MoreGraphs \cup BadGraphs
Clean == {0}
=============================================================================
