------------------------------ MODULE MCFileOp ------------------------------
(***************************************************************************)
(* Instances of FileOp.  Below the current directory:                      *)
(*   d/e/f   d/g   list   .h   d/x, a link to nothing   k/f, which is      *)
(* out of reach.                                                           *)
(* A file is called like a command, so that lines that name it run two.    *)
(***************************************************************************)
EXTENDS FileOp, TLC

MCDirs == {"d", "d/e", "k"}
MCPaths == MCDirs \cup {"d/e/f", "d/g", "list", ".h", "d/x", "k/f"}
MCHidden == {".h"}
MCBroken == {"d/x"}
MCLocked == {"k"}
MCChanging == {"d", "d/e", "d/e/f", "d/g", "list"}
MCParent == [p \in MCPaths |-> 
  CASE p \in {"d/e", "d/g", "d/x"} -> "d" [] p = "d/e/f" -> "d/e" [] p = "k/f" -> "k"
    [] OTHER -> "."]

Places(s) == [e \in Range(s) |-> CHOOSE i \in DOMAIN s : s[i] = e]
byName == Places(<<".", "..", ".h", "d", "d/e", "d/g", "d/x", "d/e/f", "k", "k/f", "list">>)
byTime == Places(<<"d/g", "k", "d/x", "k/f", "d/e/f", "list", "d/e", "..", "d", ".", ".h">>)
bySize == [e \in DOMAIN byName |-> IF e \in MCDirs \cup Dots THEN 2 ELSE IF e = "list" THEN 3 ELSE 1]
MCRank == [c \in Orders |-> CASE c = "name" -> byName [] c = "time" -> byTime [] OTHER -> bySize]

MCMatch == [w \in {"", "d", "g", "list", "tree"} |->
  CASE w = "" -> MCPaths [] w = "d" -> {"d"} [] w = "g" -> {"d/g"} [] w = "list" -> {"list"} [] OTHER -> {}]
MCAtoi == [w \in {"1", "2"} |-> IF w = "1" THEN 1 ELSE 2]

MCLines ==
  { <<"create", "list">>, <<"delete", "list">>, <<"delete", "d">>, <<"display", "d/g">>,
    <<"list">>, <<"list", "2">>, <<"list", "property">>, <<"list", "2", "property">>,
    <<"list", "name">>, <<"list", "1", "name">>, <<"list", "property", "name">>,
    <<"list", "property", "time">>, <<"list", "1", "property", "size">>, <<"list", "tree">>,
    <<"find">>, <<"find", "d">>, <<"find", "g">>, <<"find", "list">>,
    <<"tree">>, <<"tree", "1">>, <<"tree", "time">>, <<"tree", "1", "name">>,
    <<"tree", "size">>, <<"tree", "1", "2">>,
    <<"find", "tree">>, <<"tree", "list">>, <<"list", "name", "tree">> }
MCFiles == {{"d", "d/e", "d/e/f", "d/g"}, {"d", "d/g", "list", ".h"}, {"d", "d/x", "k", "k/f"}}

\* The shell has descriptors for the whole tree, as theorem ListingCorrect asks.
ASSUME InstanceAssumption == StreamsSuffice

\* A directory of more entries than the table, and a command that sorts them.
SortLines == {<<"list", "property", "time">>}
=============================================================================
