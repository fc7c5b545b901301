------------------------------- MODULE FileOp -------------------------------
(***************************************************************************)
(* lab4/fileOp.c: a shell that creates, deletes, displays, lists, finds    *)
(* and draws files of its current directory, while other programs add and  *)
(* remove some.                                                            *)
(*                                                                         *)
(* A command line is a sequence of words.  Every line runs through all six *)
(* blocks of the loop, in order, and a block runs if its word occurs       *)
(* anywhere in the line (strstr), so that a file's name may trigger one.   *)
(* The four recursive functions and the loops of list are one kind of      *)
(* frame: a directory is opened, its entries are read one by one and       *)
(* stat'ed, and printed at once or collected in a table, sorted and        *)
(* printed.  Hidden entries, which the recursive functions skip without    *)
(* effect, are not among those their frames read.                          *)
(***************************************************************************)
EXTENDS Naturals, Sequences, FiniteSets, SequencesExt

CONSTANTS
  Paths,        \* what may exist below the current directory
  Dirs,         \* the directories among them
  Hidden,       \* those whose name begins with a dot
  Broken,       \* those that stat refuses although they exist: links to nothing or to
                \* themselves, entries of a directory that may be read but not searched
  Locked,       \* those that stat accepts but open and opendir refuse
  Parent,       \* the directory of a path
  Rank,         \* of an entry, by "time", "size" and "name": equal if they compare equal
  Match,        \* the paths whose own name contains a word
  Atoi,         \* the values of the words that are digits
  Lines,        \* command lines, each of at most one keyword with arguments of its kind
  Files,        \* what exists at first: sets of paths
  MAX_FILE_COUNT, MAX_TREE_DEPTH, STAT_BUFFER_SIZE,
  MaxOpen,      \* descriptors the shell may have open
  Changing,     \* bound: which entries the others may add and remove
  MaxChanges    \* bound: how many of them they do

Here == "."
Dots == {Here, ".."}
Orders == {"time", "size", "name"}

\* Directories form a tree: no path is among those it lies in.
ASSUME PathsAssumption ==
  /\ Dirs \subseteq Paths /\ Hidden \subseteq Paths /\ Dots \cap Paths = {}
  /\ Broken \subseteq Paths /\ Locked \subseteq Paths
  /\ Parent \in [Paths -> Dirs \cup {Here}]
  /\ \A S \in (SUBSET Paths) \ {{}} : \E p \in S : Parent[p] \notin S
  /\ Files \subseteq SUBSET Paths
  /\ \A F \in Files : IsFiniteSet(F) /\ \A p \in F : Parent[p] \in F \cup {Here}

ASSUME LineAssumption ==
  /\ Lines \subseteq Seq(STRING)
  /\ \A word \in DOMAIN Atoi : Atoi[word] \in Nat \ {0}
  /\ DOMAIN Atoi \cap (Orders \cup {"property"}) = {}

ASSUME LimitAssumption ==
  /\ MAX_FILE_COUNT \in Nat /\ MAX_TREE_DEPTH \in Nat
  /\ STAT_BUFFER_SIZE \in Nat /\ MaxOpen \in Nat

VARIABLES
  pc,       \* the block main is at; or "prompt", and the ends
  line,     \* command[]
  fs,       \* the paths that exist
  stack,    \* the frames of the functions that are running, the innermost first
  open,     \* the number of open directory streams
  call,     \* the command that is running, or ran last: its function and options
  out,      \* the entries it has printed, each with its padding
  quiet,    \* history: nothing was changed by others since the line was read
  added, removed,  \* history: how many changes others made
  refused   \* history: how often stat refused an entry that exists

vars == <<pc, line, fs, stack, open, call, out, quiet, added, removed, refused>>
others == <<quiet, added, removed, refused>>

Exists(p) == p \in fs \cup Dots
CanStat(p) == p \in (fs \ Broken) \cup Dots
Entries(d) == {p \in fs : Parent[p] = d}
Blocks == <<"create", "delete", "display", "list", "find", "tree", "prompt">>
After(block) == Blocks[1 + CHOOSE i \in DOMAIN Blocks : Blocks[i] = block]

\* What strstr and strtok make of the line: the place of a word, what follows it, and
\* the line once strtok has put an end behind the first argument.
Place(word) == SelectInSeq(line, LAMBDA w : w = word)
Arguments(word) == SubSeq(line, Place(word) + 1, Len(line))
Argument(word) == IF Arguments(word) = <<>> THEN "" ELSE Head(Arguments(word))
Cut(word) == SubSeq(line, 1, Min({Place(word) + 1, Len(line)}))

noCall == [fn |-> "none", by |-> "time", max |-> 0, word |-> ""]

\* The uninitialised line is one of Lines: it matters only if the input is empty.
Init ==
  /\ pc = "prompt" /\ line \in Lines /\ fs \in Files
  /\ stack = <<>> /\ open = 0 /\ call = noCall /\ out = <<>>
  /\ quiet = TRUE /\ added = 0 /\ removed = 0 /\ refused = 0

\* A line is read.  The result of fgets is not looked at: at the end of the input the
\* line stays what the last round made of it, and is run again.
NextLine ==
  /\ pc = "prompt"
  /\ line' \in Lines \cup {line}
  /\ pc' = Blocks[1]
  /\ call' = noCall /\ out' = <<>> /\ quiet' = TRUE
  /\ UNCHANGED <<fs, stack, open, added, removed, refused>>

\* The line does not have the word of the block.
Skip ==
  /\ pc \in Range(Blocks) \ {"prompt"} /\ stack = <<>> /\ Place(pc) = 0
  /\ pc' = After(pc)
  /\ UNCHANGED <<line, fs, stack, open, call, out, others>>

At(block) == pc = block /\ stack = <<>> /\ Place(block) # 0

\* fopen of a file that is to be there, or to be made.
CanOpen(p) == p \in fs \ (Broken \cup Locked) /\ open < MaxOpen
CanCreate(p) == /\ p \in Paths \ (Dirs \cup Broken) /\ Parent[p] \in fs \cup {Here}
                /\ open < MaxOpen

Create ==
  /\ At("create")
  /\ fs' = fs \cup {p \in {Argument("create")} : CanCreate(p)}
  /\ pc' = After(pc)
  /\ UNCHANGED <<line, stack, open, call, out, others>>

\* remove deletes a file or an empty directory.
Delete ==
  /\ At("delete")
  /\ fs' = fs \ {p \in {Argument("delete")} : p \in Paths /\ Entries(p) = {}}
  /\ pc' = After(pc)
  /\ UNCHANGED <<line, stack, open, call, out, others>>

\* A file that cannot be opened is reported, and then fclose is given a null pointer.
Display ==
  /\ At("display")
  /\ pc' = IF CanOpen(Argument("display")) THEN After(pc) ELSE "crashed"
  /\ UNCHANGED <<line, fs, stack, open, call, out, others>>

-----------------------------------------------------------------------------
(***************************************************************************)
(* The option machines of list and tree: one argument each.                *)
(***************************************************************************)
ListOption(o, word) ==
  CASE o.fn = "LIST_NORMAL" /\ word \in DOMAIN Atoi -> [o EXCEPT !.max = Atoi[word]]
    [] o.fn = "LIST_NORMAL" /\ word = "property"    -> [o EXCEPT !.fn = "LIST_PROPERTY"]
    [] o.fn = "LIST_NORMAL" /\ word = "name" ->
         [o EXCEPT !.fn = "SORTED_LIST_NORMAL", !.by = word]
    [] o.fn = "LIST_PROPERTY" /\ word \in Orders ->
         [o EXCEPT !.fn = "SORTED_LIST_PROPERTY", !.by = word]
    [] o.fn \in {"SORTED_LIST_NORMAL", "SORTED_LIST_PROPERTY"} -> o
    [] OTHER -> [o EXCEPT !.fn = "invalid"]

\* TREE_DEPTH and TREE_SORT are told apart by fn, and by the depth being set.
TreeOption(o, word) ==
  CASE o.fn = "TREE_NORMAL" /\ word \in DOMAIN Atoi ->
         [o EXCEPT !.fn = "TREE_DEPTH", !.max = Atoi[word]]
    [] o.fn \in {"TREE_NORMAL", "TREE_DEPTH"} /\ word \in Orders ->
         [o EXCEPT !.fn = "TREE_SORT", !.by = word]
    [] o.fn = "TREE_SORT" -> o
    [] OTHER -> [o EXCEPT !.fn = "invalid"]

listCall ==
  FoldLeft(ListOption, [noCall EXCEPT !.fn = "LIST_NORMAL", !.max = MAX_FILE_COUNT],
           Arguments("list"))
treeCall ==
  FoldLeft(TreeOption, [noCall EXCEPT !.fn = "TREE_NORMAL", !.max = MAX_TREE_DEPTH],
           Arguments("tree"))

(***************************************************************************)
(* The frames.                                                             *)
(***************************************************************************)
ListFunctions == {"LIST_NORMAL", "LIST_PROPERTY", "SORTED_LIST_NORMAL", "SORTED_LIST_PROPERTY"}
Listing == call.fn \in ListFunctions
Scans == Listing /\ call.by = "name"     \* by scandir, which sorts

\* Mutant: all the tests are <=.
Room_OneMore(c) == c.max + 1

\* How many entries a loop of list that counts takes: the tests are <, or <=.
Room(c) == IF c.fn \in {"LIST_NORMAL", "SORTED_LIST_NORMAL"} THEN c.max ELSE c.max + 1

\* What list prints of the entries scandir returns: list property name does not count.
Scanned(s) ==
  IF call.fn = "SORTED_LIST_NORMAL" THEN SubSeq(s, 1, Min({Room(call), Len(s)})) ELSE s

Frame(fn, dir, pad) ==
  [fn |-> fn, dir |-> dir, pad |-> pad, phase |-> "open", left |-> {}, table |-> <<>>]

\* A command with options is taken up, or found invalid (continue).
Start(c, fn) ==
  /\ call' = c /\ out' = <<>>
  /\ IF c.fn = "invalid"
     THEN pc' = "prompt" /\ UNCHANGED stack
     ELSE stack' = <<Frame(fn, Here, 0)>> /\ UNCHANGED pc
  /\ UNCHANGED <<fs, open, others>>

StartList == At("list") /\ line' = Cut("list") /\ Start(listCall, "list")

StartFind ==
  /\ At("find") /\ UNCHANGED line
  /\ Start([noCall EXCEPT !.fn = "FIND", !.word = Argument("find")], "findRecurseDirPrint")

StartTree ==
  /\ At("tree") /\ line' = Cut("tree")
  /\ Start(treeCall, IF treeCall.fn = "TREE_SORT" THEN "treePrintSort" ELSE "treePrint")

top == Head(stack)
Running(phase) == pc \in Range(Blocks) /\ stack # <<>> /\ top.phase = phase
Become(frame) == stack' = <<frame>> \o Tail(stack)

\* The innermost function returns; the callers ignore what it returns.
Return ==
  /\ stack' = Tail(stack)
  /\ pc' = IF Len(stack) = 1 THEN After(pc) ELSE pc

Ordered(s, c) == \A i, j \in DOMAIN s : i < j => Rank[c][s[i]] <= Rank[c][s[j]]

\* scandir needs a stream of its own for a moment.
CanOpenDir ==
  Exists(top.dir) /\ top.dir \notin Locked /\ open + (IF Scans THEN 1 ELSE 0) < MaxOpen

\* opendir, and the entries readdir is going to return; or those of scandir, sorted.
OpenDir ==
  /\ Running("open") /\ CanOpenDir
  /\ open' = open + 1
  /\ LET entries == IF Listing THEN Entries(Here) \cup Dots ELSE Entries(top.dir) \ Hidden
     IN IF Scans
        THEN \E s \in SetToSeqs(entries) :
               /\ Ordered(s, "name")
               /\ Become([top EXCEPT !.phase = "print", !.table = Scanned(s)])
        ELSE Become([top EXCEPT !.phase = "read", !.left = entries])
  /\ UNCHANGED <<pc, line, fs, call, out, others>>

\* Mutant: opendir is tried until it works.
OpenFails_Retry == Running("open") /\ ~CanOpenDir /\ UNCHANGED vars

\* The directory is gone or locked, or too many streams are open.  A recursive function returns;
\* list goes on with the null pointer, or with the array that scandir did not make.
OpenFails ==
  /\ Running("open") /\ ~CanOpenDir
  /\ IF Listing THEN pc' = "crashed" /\ UNCHANGED stack ELSE Return
  /\ UNCHANGED <<line, fs, open, call, out, others>>

\* Is the loop that runs the first of two, which fills a table?
Collecting ==
  /\ Running("read")
  /\ top.fn = "treePrintSort" \/ call.fn = "SORTED_LIST_PROPERTY"

\* What the next iteration of a loop is about: readdir returns the entries in any order.
NextEntries ==
  CASE Running("read") ->
         IF Listing /\ Len(out) + Len(top.table) >= Room(call) THEN {} ELSE top.left
    [] Running("print") -> {top.table[i] : i \in DOMAIN top.table \cap {1}}
    [] OTHER -> {}

Consume(p) == [top EXCEPT !.left = @ \ {p}, !.table = IF top.phase = "print" THEN Tail(@) ELSE @]

\* Does the iteration call stat?
Stats ==
  \/ Running("read") /\ call.fn # "LIST_NORMAL"
  \/ Running("print") /\ Scans /\ call.fn = "SORTED_LIST_PROPERTY"

\* The entry is gone, or stat refuses it: list ends the shell, a recursive function
\* returns and leaves its stream open.
StatFails ==
  /\ Stats
  /\ \E p \in NextEntries :
       ~CanStat(p) /\ refused' = IF Exists(p) THEN refused + 1 ELSE refused
  /\ IF Listing THEN pc' = "ended" /\ UNCHANGED stack ELSE Return
  /\ UNCHANGED <<line, fs, open, call, out, quiet, added, removed>>

\* Mutant: the table is taken to be one entry longer.
Full_OffByOne == Len(top.table) > STAT_BUFFER_SIZE

\* The table is full.  realloc is asked for the size it has, and current_buffer stays
\* behind it, and where it was if the table has moved.
Full == Len(top.table) >= STAT_BUFFER_SIZE

Overrun ==
  /\ Collecting /\ Full /\ \E p \in NextEntries : CanStat(p)
  /\ pc' = "undefined"
  /\ UNCHANGED <<line, fs, stack, open, call, out, others>>

Collect ==
  /\ Collecting /\ ~Full
  /\ \E p \in NextEntries :
       /\ CanStat(p)
       /\ Become([Consume(p) EXCEPT !.table = Append(@, p)])
  /\ UNCHANGED <<pc, line, fs, open, call, out, others>>

\* All are in the table: qsort, which may order equal entries in any way.
Sort ==
  /\ Collecting /\ NextEntries = {}
  /\ \E s \in SetToSeqs(Range(top.table)) :
       Ordered(s, call.by) /\ Become([top EXCEPT !.phase = "print", !.table = s])
  /\ UNCHANGED <<pc, line, fs, open, call, out, others>>

Deeper == top.pad < call.max

Prints(p) == top.fn = "findRecurseDirPrint" => p \in Match[call.word]

\* The recursive call that is made for an entry, if any.
Callee(p) ==
  IF p \notin Dirs \/ Listing THEN <<>> ELSE
  CASE top.fn \in {"treePrint", "treePrintSort"} ->
         IF Deeper THEN <<Frame(top.fn, p, top.pad + 1)>> ELSE <<>>
    [] top.fn = "findRecurseDirPrint" /\ ~Prints(p) -> <<Frame(top.fn, p, 0)>>
    [] OTHER -> <<Frame("recurseDirPrint", p, 0)>>

\* An entry is printed (find: if it matches), and then what is below it.
PrintEntry ==
  /\ ~Collecting
  /\ \E p \in NextEntries :
       /\ Stats => CanStat(p)
       /\ out' = IF Prints(p) THEN Append(out, <<p, top.pad>>) ELSE out
       /\ stack' = Callee(p) \o <<Consume(p)>> \o Tail(stack)
  /\ UNCHANGED <<pc, line, fs, open, call, others>>

\* Mutant: closedir is forgotten in one of the four functions.
Close_NotSorted == open' = IF top.fn = "treePrintSort" THEN open ELSE open - 1

Close == open' = open - 1

EndDir ==
  /\ Running("read") \/ Running("print")
  /\ ~Collecting /\ NextEntries = {}
  /\ Close /\ Return
  /\ UNCHANGED <<line, fs, call, out, others>>

-----------------------------------------------------------------------------
Ended == pc \in {"ended", "crashed", "undefined"}

\* Other programs add an entry, or remove a file or an empty directory.
OthersAdd ==
  /\ ~Ended /\ added + removed < MaxChanges
  /\ \E p \in (Paths \cap Changing) \ fs : Parent[p] \in fs \cup {Here} /\ fs' = fs \cup {p}
  /\ added' = added + 1 /\ quiet' = FALSE
  /\ UNCHANGED <<pc, line, stack, open, call, out, removed, refused>>

OthersRemove ==
  /\ ~Ended /\ added + removed < MaxChanges
  /\ \E p \in fs \cap Changing : Entries(p) = {} /\ fs' = fs \ {p}
  /\ removed' = removed + 1 /\ quiet' = FALSE
  /\ UNCHANGED <<pc, line, stack, open, call, out, added, refused>>

\* The steps of a command.
Command ==
  \/ Skip \/ Create \/ Delete \/ Display \/ StartList \/ StartFind \/ StartTree
  \/ OpenDir \/ OpenFails \/ StatFails \/ Overrun \/ Collect \/ Sort \/ PrintEntry \/ EndDir

Stopped == Ended /\ UNCHANGED vars

Next == NextLine \/ Command \/ OthersAdd \/ OthersRemove \/ Stopped

\* The shell is scheduled and blocks only in fgets.
Spec == Init /\ [][Next]_vars /\ WF_vars(Command)

-----------------------------------------------------------------------------
(***************************************************************************)
(* Properties.                                                             *)
(***************************************************************************)

\* The types of the variables; a table is never read into beyond its end.
TypeOK ==
  /\ pc \in Range(Blocks) \cup {"ended", "crashed", "undefined"}
  /\ line \in Seq(STRING) /\ fs \subseteq Paths
  /\ \A i \in DOMAIN stack :
       /\ stack[i].dir \in Dirs \cup {Here} /\ stack[i].pad \in Nat
       /\ stack[i].phase \in {"open", "read", "print"}
       /\ stack[i].left \subseteq Paths \cup Dots
       /\ stack[i].table \in Seq(Paths \cup Dots)
       /\ stack[i].phase = "read" => Len(stack[i].table) <= STAT_BUFFER_SIZE
  /\ open \in 0 .. MaxOpen
  /\ \A i \in DOMAIN out : out[i] \in (Paths \cup Dots) \X Nat

\* The directories a path is in.
Above[p \in Paths \cup Dots] ==
  IF p \in Dots \/ Parent[p] = Here THEN {} ELSE {Parent[p]} \cup Above[Parent[p]]

\* What the shell can reach: not hidden, nor in a directory that is hidden or locked.
Visible == {p \in fs : ({p} \cup Above[p]) \cap Hidden = {} /\ Above[p] \cap Locked = {}}
Depth(p) == Cardinality(Above[p])

\* There are descriptors for each directory together with those it lies in.
StreamsSuffice == 0 < MaxOpen /\ \A d \in Dirs : Depth(d) + 1 < MaxOpen
Printed == {out[i] : i \in DOMAIN out}
Name(i) == out[i][1]

\* Every directory is followed by what is below it, and by nothing else until that ends.
PreOrder ==
  \A i, j \in DOMAIN out : i < j =>
    /\ Name(i) # Name(j) /\ Name(j) \notin Above[Name(i)]
    /\ Name(i) \in Above[Name(j)] => \A k \in i + 1 .. j : Name(i) \in Above[Name(k)]

SiblingsSorted ==
  \A i, j \in DOMAIN out :
    i < j /\ Above[Name(i)] = Above[Name(j)] => Rank[call.by][Name(i)] <= Rank[call.by][Name(j)]

\* A command has run to its end while nobody changed the directory, and left no stream
\* open, as it does if stat refuses an entry.  It had all it wanted if StreamsSuffice.
Undisturbed == stack = <<>> /\ ~Ended /\ quiet /\ open = 0

\* How many of n entries list prints.  The maximum is kept without properties; with
\* properties the code prints one entry more, or takes no notice of it by name.
Length(n) ==
  CASE call.fn \in {"LIST_NORMAL", "SORTED_LIST_NORMAL"}            -> Min({call.max, n})
    [] call.fn = "LIST_PROPERTY"                                    -> Min({call.max + 1, n})
    [] call.fn = "SORTED_LIST_PROPERTY" /\ call.by \in {"time", "size"} -> Min({call.max + 1, n})
    [] OTHER                                                        -> n

\* What an undisturbed command has printed when it ends is exactly what the code is to
\* print: list the number of entries its option allows, of all there are, find those
\* that match or are below one that does, tree those down to a depth; each once, a
\* directory before what it contains, and sorted if it is to be.
ListingExact ==
  Undisturbed /\ call.fn # "none" =>
    /\ call.fn = "FIND" =>
         Printed = {<<p, 0>> : p \in {q \in Visible : ({q} \cup Above[q]) \cap Match[call.word] # {}}}
    /\ call.fn \in {"TREE_NORMAL", "TREE_DEPTH", "TREE_SORT"} =>
         Printed = {<<p, Depth(p)>> : p \in {q \in Visible : Depth(q) <= call.max}}
    /\ Listing =>
         /\ Printed \subseteq (Entries(Here) \cup Dots) \X {0}
         /\ Len(out) = Length(Cardinality(Entries(Here)) + 2)
         /\ call.fn = "SORTED_LIST_NORMAL" =>
              \A e \in Entries(Here) \cup Dots : <<e, 0>> \notin Printed =>
                \A i \in DOMAIN out : Rank["name"][Name(i)] <= Rank["name"][e]
    /\ PreOrder
    /\ call.fn \in {"TREE_SORT", "SORTED_LIST_NORMAL", "SORTED_LIST_PROPERTY"} => SiblingsSorted

\* The streams that stay open are those of functions that are running, and at most one
\* for each entry that others have taken away and each that stat has refused: no
\* function but the one that meets it returns early.  A shell left alone among entries
\* that stat accepts loses none; a dangling link costs one with each command.
StreamsClosed ==
  LET opened == {i \in DOMAIN stack : stack[i].phase # "open"}
  IN open >= Cardinality(opened) /\ open <= Cardinality(opened) + removed + refused

\* Whatever the others do, a command comes to an end: the shell is at its prompt
\* again, or gone.
CommandsEnd == pc # "prompt" ~> pc = "prompt" \/ Ended

\* fileOp.c:308, "resize buffer by 100 whenever buffer is full": no entry is written
\* behind the table.
TableGrows == pc # "undefined"
=============================================================================
