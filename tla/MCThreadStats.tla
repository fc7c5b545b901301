--------------------------- MODULE MCThreadStats ---------------------------
(***************************************************************************)
(* An instance of ThreadStats: an array of four cells.                     *)
(***************************************************************************)
EXTENDS ThreadStats

Num(v) == <<v>>
Blank == <<>>

\* The numbers, each with a blank after it.
FileOf(s) == [k \in DOMAIN s |-> Num(s[k])] \o <<Blank>>

\* Ascending, descending, mixed and repeated numbers; too few; too many; a blank in
\* front; a doubled blank in place of a number; no blank at the end.
MCFiles ==
  {FileOf(s) : s \in {<<1, 2, 3, 4>>, <<4, 3, 2, 1>>, <<2, 4, 1, 3>>, <<3, 1, 4, 2>>,
                      <<2, 1, 2, 1>>, <<1, 1, 2, 2>>, <<1, 2, 3>>, <<5, 4, 3, 2, 1>>}}
  \cup {<<Blank>> \o FileOf(<<4, 3, 2>>),
        <<Num(4), Blank, Num(2), Num(1), Blank>>,
        <<Num(4), Num(1), Num(3), Num(2)>>}

\* Counts that divide 4, that do not, that exceed it, and 0.
MCCommandLines == {<<1, 2>>, <<4>>, <<3, 2>>, <<5, 1>>, <<2, 0>>}
=============================================================================
