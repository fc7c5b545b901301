# Models and proofs of the 50.005 programs

The repository holds four C programs and their Java counterparts: a process
manager that runs a graph of programs (`os/`), a banker's-algorithm bank
(`lab3/`), parallel mean and median (`lab2/`), and a small shell (`lab4/`).
They share no code. This directory models them in TLA+, checks the models with
TLC on small instances and proves the main results with TLAPS for all
instances. `PROJECT.json` maps every definition to the lines it stands for.

## 1. Inventory

| component | state | operations | correct if |
|---|---|---|---|
| graph loading, `os/processmgt.c:131-325, 398-518` | `nodes[]` (children, parents), `num_of_parents_not_visited`, `num_nodes_done` | `parse_graph_file`, `parse_input_line`, `parse_node_parents`, `print_process_tree` | every edge is found, limits are respected, the tree is printed completely and in topological order |
| run loop, `os/processmgt.c:330-396, 519-599` | `status` and `pid` of each node, `num_nodes_finished`; the kernel's process table | `parse_node_status`, fork pass, the children | no program runs before its parents have ended; stored pids stay true; success means everything ran and was reaped; nothing waits without need |
| batch manager, `os/test.c` | `status`, two parent counters per node, `numNodesFinished` | `parse_graph_file`, `populateParents`, `execute_all_nodes` | the same promise, in batches with `wait(NULL)` |
| Java manager, `os/*.java` | `ProcessGraph.nodes` | `ParseFile`, `addNode`, `allParentsExecuted`; its run loop is a TODO | the graph built equals the file's |
| bank, C, `lab3/sampleSolution/C/Banker.c` | available, maximum, allocation, need | `addCustomer`, `requestResources`, `checkSafe`, `releaseResources` | units are conserved, the state is always safe, a request is refused only if it would be unsafe |
| bank, lab version, `lab3/startingCode/C/banker.c` | the same | tentative grant, check, rollback; `releaseResources` does nothing | a refused request leaves no trace |
| bank, Java, `lab3/sampleSolution/Java` | the same | requests are `synchronized`, `addCustomer` and `getState` are not | the same under threads |
| mean and median, `lab2/*.c` | the shared array, its slices, one result per worker | workers, join, merge, find | the result is that of a sequential program for any thread count |
| shell, `lab4/fileOp.c` | the line, a stack of open directories, tables of entries | create, delete, display, list, find, tree with options | it prints exactly what is there, in order; streams are closed; recursion ends whatever others do to the directory; the table is large enough |

*Interaction.* In the two process managers `main` is a single thread; the
processes it forks run concurrently with it and are known to it only through
the kernel's process table (`fork`, `waitpid`, `wait`). In the bank, requests
arrive one at a time, and each runs `checkSafe` on a copy of the state. In the
parallel programs workers own disjoint slices until `pthread_join`.

*What is hard.* Children end at any point of a polling pass; pids stored passes
ago are handed to `waitpid` while the kernel reuses pids; the count that ends
the loop is a pass old when tested; parents are found by `bsearch` in arrays
nobody sorts; fixed arrays are filled without checks; `fork` fails half way;
`SIGCHLD` may be inherited as ignored, and then nothing is left to wait for. In
the batch manager `wait` returns whichever child ended while the loop index
decides who is marked. In the bank, each step being feasible says nothing about
the whole history being safe; in Java other threads read claims that are half
written. In the shell a directory changes between `readdir` and `stat`, in four
copies of a recursive loop with an error path each. The full list, each at its line, is "hazards" in
`PROJECT.json`.

## 2. Modules

| module | models | remarks |
|---|---|---|
| `GraphLoad` | `processmgt.c` up to its run loop | a line is a record of what decides the parser's outcome |
| `LibC` | `cmpfunc`, and the C library's `bsearch` | external code; the instances use the algorithm, the other theorems only its contract |
| `ProcMgt` | EXTENDS `GraphLoad`: the run loop, the children, the process table | one step per loop iteration that touches the kernel |
| `DagRun` | what `os/README.md` promises, abstractly: a node runs once, after its parents | implemented by `ProcMgt` and by `WaitMgt` |
| `WaitMgt` | `test.c`, its parser included | a line is its number of fields and its child list |
| `Vectors` | amounts, customers, resources of the C banks; what a safe state is | |
| `SafeBank` | what a bank promises, abstractly: requests are granted whole and only into safe states | implemented by all three banks |
| `Banker` | `Banker.c`, EXTENDS `Vectors` | `checkSafe` iteration by iteration |
| `BankerTentative` | the lab's `banker.c`, EXTENDS `Vectors` | enters the request, checks, takes it back |
| `ThreadStats` | `medianThreadCode.c` and `meanThreadCode.c` | their mains are copies of each other |
| `BankImpl` | the Java bank, EXTENDS `Vectors`: a thread for each customer | a third implementation of `SafeBank` |
| `FileOp` | `fileOp.c` and the programs that change its directory | one step per `opendir` and per entry |
| `Vectors_proofs` | lemmas about amounts and safe states | used by the proofs about the three banks |
| `ProcMgt_proofs`, `WaitMgt_proofs`, `Banker_proofs`, `BankerTentative_proofs`, `BankImpl_proofs`, `ThreadStats_proofs`, `FileOp_proofs` | the theorems about the module they are named after | section 4 |
| `MCProcMgt`, `MCWaitMgt`, `MCBanker`, `MCBankerTentative`, `MCBankImpl`, `MCThreadStats`, `MCFileOp` | the instances TLC checks | |

### GraphLoad and ProcMgt (os/processmgt.c)

`pc` is where `main` is: `open`, `parse` (`fgets` loop), `parents`
(`parse_node_parents`), `print` (row loop of `print_process_tree`), then
`status`, `reap`, `fork` (the run loop), and the ends `success`, `failure`
(returned `EXIT_FAILURE`) and `crashed` (killed by a null pointer or an
overrun). The variables are the program's: `numNodes` is `id` and then
`num_nodes`, `children`, `parents`, `notVisited`, `nodesDone`, `status`, `pid`,
`finished` is `num_nodes_finished`, `cur` a loop index, `leftover` history. `file` is the input,
`proc` the kernel's table, `ignored` the inherited disposition of `SIGCHLD`.

- *Parsing.* `AddNode`, `RejectLine`, `EndOfFile` are the iterations of the
  `fgets` loop. The limit is tested after the counters have moved, so a file of
  exactly `MAX_NODES` lines is refused, as in the code.
- *Parents.* `FoundParents(i)` is what `bsearch` finds, not what the file says.
  `num_parents` is incremented for each (`NumParents`) and never initialised.
  `StackJunk` is what memory may hold before, for each node independently: a count
  of either sign, and for a positive one the ids in the cells behind the parents
  stored. With a negative one the status check reads too few cells (`ParentCells`):
  some true parents, or all, are hidden, and the node may start before them. With
  a positive one it reads leftover cells as well. `parents[]` is not
  bounds-checked: `ParentCells` also models what the overflow writes (the eleventh
  id lands on `num_parents`).
- *Tree.* `PrintRow` is one row. It starts from `numParents`, whatever that is, so
  a node whose count is not 0 when its parents are in the tree never enters it and
  the loop spins; a row with more edges than `edges_to_print` holds may crash.
- *Run loop.* `StatusPass` is the first loop of `parse_node_status`, which makes
  no call and is one step; `WaitNode`/`SkipWait` are the iterations of its
  second loop, one `waitpid` each, so children run between any two;
  `CountFinished` is its last loop; `ForkNode`, `ForkFails`, `SkipFork` the
  iterations of the fork pass. `EAGAIN` and `ENOMEM` end `main`, another errno
  falls out of the `switch` and the node is tried again.
- *Processes.* A process is being set up, runs its program, is a zombie, or is
  gone. Its pid is free again as soon as it is reaped, or at its exit if
  `SIGCHLD` is ignored or `main` is gone.

### WaitMgt (os/test.c)

A line is how many fields it has, and its child list. `Legal` is a line that the
parser stores within `nodes[]` and `children[]`; `ParseFails` is the end of the
load at the first that is not: without a second field `makeargv` fails, every
other defect (a missing field, an empty list, one child or line too many) goes
unchecked into a null pointer or an overrun, and counts as a crash.
The two counters of a
node are not initialised, and each starts with a value of its own from `StackJunk`.
`PopulateParents` counts edges, and also crashes if a child is no slot of
`nodes[]`; `ReadyPass`, the fork pass and the wait pass are the three loops.
`WaitAny` takes any zombie and finishes the node at the loop index, as the code
does.

### Banker (lab3/sampleSolution/C/Banker.c)

`RequestResources` is `requestResources` up to `checkSafe`, `CheckCustomer` an
iteration of its inner loop, `NextSweep` the outer one, `Decide` the return and
what the caller does with it. The temporary copy of the state is the operators
`tempNeed` and `tempAllocation`, as only the requesting customer's rows differ.

### BankerTentative (lab3/startingCode/C/banker.c)

The same, without copies: `RequestResources` enters the request in the tables,
`CheckCustomer` and `NextSweep` look at the tables, `Granted` keeps the entry
and `RollBack` takes it back. `releaseResources` is a stub in the code and a
stuttering step here. The refinement to `SafeBank` subtracts the entry that is
being checked (`Committed`).

### ThreadStats (lab2)

`program` tells which of the two programs runs. `ReadNumbers` (`fscanf`) and
`ReadFields` (`fgetc`, `atoi`) read a file that is given as what its whitespace
cuts it into; `NextCount` is an iteration of the loop over `argv`, `EndRun` the
end of one over `t`. A sorter reads its slice in one step and writes it back
sorted in another, so that sorters of overlapping slices would lose numbers;
the merger, which is alone if `main` joins properly, is one step and so are the
threads that only read. `qsort` is its contract (`Sorts`: the same elements,
ascending), `Merged` the recursion of `merge` and `MergeTwo` its loops, as recursive
functions. A worker's mean is kept as its sum, the answer as a fraction, exact
where the code rounds.

### BankImpl (lab3/sampleSolution/Java/BankImpl.java)

`requestResources`, which calls `checkSafe`, and `releaseResources` hold the
monitor and are a step each; `CheckSafe` sweeps with a recursive function.
`addCustomer` does not take the monitor: `AddElement` is an iteration of its
loop, and `visible` are the rows that other threads may read, by the Java memory
model: any mixture of what has been written, until the customer's own thread
has been in the monitor (`Publish`). A request reads its own row as it is and
the others' as one of `Views`. `claimed` is history, for the refinement: a claim
counts from when `addCustomer` returns.

### FileOp (lab4/fileOp.c)

`pc` is the block `main` is at; every line passes all six. `Place` is `strstr`, on
whole words, `Cut` what `strtok` leaves of the line, which matters because blocks
after it search the same buffer and the next round may run it again. `ListOption` and
`TreeOption` are the option machines, one argument each, with the code's states
as `fn`. `call` is the outcome.

A frame of `stack` is one activation of `findRecurseDirPrint`, `recurseDirPrint`,
`treePrint`, `treePrintSort` or of a loop of list: `OpenDir` and `OpenFails` are its
`opendir`, `left` what `readdir` has still to return, in any order. An iteration
is `StatFails`, `Collect` (into the table), `Overrun` (the table is full) or
`PrintEntry`, which prints and makes the recursive call. `Sort` is `qsort`, free to
order equal entries, `EndDir` the `closedir`. `open` counts streams, so that those
of a function that returned early stay counted. `OthersAdd` and `OthersRemove`
change the directory at any point.

Existing entries are not all accessible. `Broken` are those that `stat` refuses (a
link to nothing or to itself, an entry of a directory that may be read but not
searched): `StatFails` is taken for an entry that is gone and for one of these, and
`refused` counts the latter. `Locked` are those that `stat` accepts but `open` and
`opendir` refuse: `OpenFails` is taken for them, for a directory that is gone, and
if there is no descriptor left.

What the code does and no document speaks of, but the model shows: a `stat`
that fails ends the whole shell in list, and leaks a stream in the others, so that
every find or tree in a directory with a dangling link loses one; a file that cannot be displayed crashes it (`fclose` of a null pointer); a file
named like a command runs that command too; with a maximum, `list property`
prints one entry more than `list`, and `list property name` all of them; at the end of the input the last line, cut by
`strtok`, is run for ever.

## 3. What the runs check

| run | instance | question |
|---|---|---|
| `procmgt_dags` | all 69 digraphs (without self-loops) on 1 to 3 nodes, cyclic ones included, three on 4, the empty file; 3 pids | do interleaved children, pid reuse and stale counts ever break the order (`DependencyOrder`), the pids (`PidOwnership`) or the tree (`TreeOrder`); is every enabled node started without waiting for its siblings (`EligibleStarts`) and, if programs end, every well-formed graph run to its end (`Completes`); is it an implementation of `DagRun` (`ImplementsDagRun`) |
| `procmgt_limits` | lines and graphs at and past every limit, malformed lines, duplicates, cycles, unsorted lists, an overflow of `parents[]`, junk in the counters (-1, 0, or 1 with one cell), fork failing with `EAGAIN` and `ENOSYS`, `SIGCHLD` ignored or not; 2 pids | the same safety properties where the program is at its limits (the order where no leftover count is negative), what success means (`CleanSuccess`), and `TypeOK` |
| `procmgt_unsorted` | a root whose child list is `2 1` | *violation*: node 2 runs before its parent, as `bsearch` does not find it |
| `procmgt_orphans` | fork may fail with `EAGAIN` | *violation*: `main` ends while children run, though `README.md:69` says it ends when all have completed |
| `waitmgt` | all digraphs on 2 and 3 nodes with descending lists, repeated children, a self-loop, a diamond; files with a child that is no node or no slot, too many children or lines, missing fields; 3 pids | counters agree with the graph (`ParentsHeard`), no wait too many or too few (`WaitsBalanced`), order, exit, `DagRun`, and termination |
| `banker` | 3 customers, 2 resources of 2 units, claims some of which exceed the bank | units conserved (`Books`), every state safe (`AlwaysSafe`) by a definition without an algorithm, `checkSafe` exact in both directions (`CheckSafeExact`), it ends (`Answered`), and the whole is a `SafeBank` (`ImplementsSafeBank`) |
| `banker_tentative` | the same | the ledgers agree even in the middle of a check, the check is exact, and a refused request leaves no trace (`ImplementsSafeBank`) |
| `bankimpl` | 3 threads, 2 resources of 3 and 1 units, claims to all of it or to one unit | does a request decide by the true state whatever mixture of claims it reads (`DecisionExact`), and is the bank a `SafeBank` in spite of `addCustomer` (`ImplementsSafeBank`) |
| `threads` | 4 cells, 2 runs per count, counts 1 to 5 and 0 in five command lines, eleven files (regular ones in all kinds of order, short, long, blanks in the wrong places) | no two threads at one cell (`NoRace`), no number lost over all runs (`NothingLost`), the right median and mean whenever the count divides the array, even after counts that do not (`MedianRight`, `MeanRight`), and every run ends (`Completes`) |
| `threads_anycount` | the same | *violation*: with 3 threads on 4 cells the median is wrong, though `medianThreadCode.c:9` says "1 or more specified number of threads" |
| `fileop` | directories `d`, `d/e` and a locked one with a file in it, three more files, a hidden one, a link to nothing, of which three sets exist at first; 27 lines, among them every command, option and order, invalid options, and names that run a second command; 3 descriptors, tables of 4, 2 changes by others | does an undisturbed command print exactly what it should, each entry once, directories before their contents, sorted, and list exactly as many entries as its loop counts (`ListingExact`); are streams closed but for at most one for each entry that is gone or refused by `stat` (`StreamsClosed`); does every command end (`CommandsEnd`) |
| `fileop_table` | a directory of five entries, `list property time`, nobody else | *violation*: an entry is written behind the table, though `fileOp.c:308` says it is resized |

`procmgt_unsorted` is worth a word: `DependencyOrder` holds in all runs because
it assumes `Searchable` (ascending lists, no more parents than `parents[]`
holds) and `NoneNegative` (no `num_parents` was negative before it was incremented;
`leftover` remembers what it was).
`README.md` asks for neither; `RunsAfterParents` is the promise as the
README makes it. `NoneNegative` is about memory the code does not initialise
(`processmgt.c:302`), not about what the code makes of it: where it fails, the code
does break the order. In `procmgt_limits`, where leftovers are -1, 0 or 1,
`DependencyOrder` without `NoneNegative` is violated: a node with one parent and -1
below it counts 0 and starts with its parent. With leftovers that are not negative
it always holds (`Refinement` in section 4), and so it does in zeroed memory, which
the other runs assume.

`ListingExact` states of list what its four loops print, which is not what one
would guess: with a maximum, plain `list` prints that many entries (586, 617), `list
property` and its sorted forms one more (594, 659), sorted by name with properties
all of them (637). `Length` is these numbers; they are exact, also from above.

In `test.c` the node at the loop index is marked `FINISHED` although `wait` may have
returned another node's child. That does no harm: `main` waits for a whole batch
before the next, so a child of the batch is started only after all of its
processes have been reaped. `WaitsBalanced` and `DependencyOrder` show this.

The race of `addCustomer` is harmless for a reason the model makes precise: a
customer whose claim is torn holds nothing, and as long as no claim exceeds the
bank (`BankAssumption`) it can be served last in any order, whatever was read.

*Bounds.* `MAX_NODES`, `MAX_CHILDREN`, `MAX_PARENTS` (50, 10, 10 in the code) are
small so that files reach them; in `procmgt_limits` a node with three parents
overflows a `parents[]` of two. A leftover of -1 hides the only parent of a node
and one of two. Three nodes are enough for every ordering of a
node with two parents, of a chain and of independent nodes; four add the
diamond and a chain beside a chain. Two pids with three ready nodes make fork
run out of pids and make the kernel reuse them. Named bounds in the guards:
`OverflowBound` (of the overflows of `parents[]` only that by one id is
modelled, so an instance stops there with a worse one) and `RowOutOfBounds` (an
overrun continues or crashes). In `WaitMgt` fork fails only for want of a pid.
Two customers already make a second sweep necessary; three let sweeps finish some
and then fail on two that block each other, and make requests by a third matter.
Four cells are cut evenly by 1, 2 and 4 workers, leave a tail with 3, and are
too few for 5; with 4 the merge recurses twice. Thread counts are not negative,
and `pthread_create` does not fail. `MaxChanges` bounds what others do to the shell's
directory: two changes remove a file and then its directory, or an entry under a
loop and one under its caller; `Changing` are the entries they are made to, all but
the hidden one, the link and the locked directory, which are there from the start
or not. A depth of three is that of a frame with a caller
and a callee; with as many descriptors one lost stream already makes a later
command fail. Left alone the shell has enough of them there (`StreamsSuffice`, which
`MCFileOp` assumes). `STAT_BUFFER_SIZE` (100) is 4 and reached.

*Fairness.* `main` is sequential and does not block (`WNOHANG`), so
`WF_vars(Main)` is that it is scheduled. `EligibleStarts` uses only that.
`Completes` also assumes that every program ends (`WF_vars(ChildExit(p))`): the
manager itself never kills a program. In `WaitMgt` `main` blocks in `wait`, and
its one liveness property assumes the same of the programs. In `Banker` only
`checkSafe` is fair; nobody has to make a request. In
`ThreadStats` every thread is scheduled; `main` blocks only in `pthread_join`. In
`FileOp` the shell is scheduled while it runs a command; it need not get another
line.

## 4. What is proved

The theorems hold for every value of the constants: every file, size, number of
customers, tree, line and bound that the named assumptions admit, which TLC
evaluates on each instance. Every inductive invariant `IInv` was first checked by
TLC on the instances of section 3.

| module | theorem | statement |
|---|---|---|
| `ProcMgt_proofs` | `TypeCorrect`, `RunOrder`, `PidsOwned`, `SuccessIsClean` | `Spec => []TypeOK`, `[]DependencyOrder`, `[]PidOwnership`, `[]CleanSuccess` |
| | `TreeCorrect` | `Spec => []TreeOrder` |
| | `Refinement` | on `Searchable` files `Spec` implements `DagRun`, if no leftover is negative (`NoNegativeJunk`) |
| | `SearchCorrect` | the binary search of `LibC` keeps the contract of `bsearch` |
| `WaitMgt_proofs` | `TypeCorrect`, `WaitsCorrect`, `SuccessCorrect` | `Spec => []TypeOK`, `[]WaitsBalanced`, `[]CleanSuccess` |
| | `OrderCorrect`, `ParentsCorrect` | `[]DependencyOrder`, `[]ParentsHeard`, if the counters start at 0 |
| | `Refinement` | `Spec` implements `DagRun`, if the counters start at 0 |
| `Banker_proofs` | `TypeCorrect`, `BooksCorrect`, `SafeAlways`, `DecisionsExact` | `Spec => []TypeOK`, `[]Books`, `[]AlwaysSafe`, `[]CheckSafeExact` |
| | `Refinement` | `Spec` implements `SafeBank` |
| `BankerTentative_proofs` | `TypeCorrect`, `BooksCorrect`, `DecisionsExact`, `Refinement` | the same of the lab version |
| `BankImpl_proofs` | `TypeCorrect`, `DecisionsExact`, `Refinement` | `Spec => []TypeOK`, `[]DecisionExact`; `Spec` implements `SafeBank` |
| `ThreadStats_proofs` | `TypeCorrect`, `RaceFree`, `AllKept` | `Spec => []TypeOK`, `[]NoRace`, `[]NothingLost` |
| | `MedianCorrect`, `MeanCorrect` | `Spec => []MedianRight`, `[]MeanRight` |
| `FileOp_proofs` | `TypeCorrect`, `StreamsCorrect` | `Spec => []TypeOK`, `[]StreamsClosed` |
| | `ListingCorrect` | `[]ListingExact`, if `StreamsSuffice` |

Each module also has `Invariance`, `Spec => []IInv`, with one lemma per part of the
invariant and one case per action.

**ProcMgt.** *Assumptions:* `LimitsAssumption` (the limits are numbers),
`GraphFilesAssumption` (a file is a sequence of lines), `StackJunkAssumption` (a
leftover count is any integer, and there are cells to it if it is positive), `KernelAssumption` (errnos, dispositions), and
`BsearchAssumption`, the contract of `bsearch`: what it finds is there, and in an
ascending array it finds everything. The binary search of `LibC`, which the instances use, keeps
this contract (`SearchCorrect`). Its recursion has a solution because `probe` occurs
only positively in it (`SearchExists` is Tarski's fixpoint argument), and a shortest
range with a wrong answer cannot be. None of the properties is inductive. `IInv` adds

- `LoadInv`: `children` is what the file says for the lines parsed so far, and no
  process exists before the run loop;
- `ParentsInv`: on `Searchable` files, and if `NoneNegative`, the true parents of a node
  are among its `parents`: of an ascending list `bsearch` finds every one, and a count
  that was not negative before reads them all;
- `LeftoverInv`: if memory holds no negative counts (`NoNegativeJunk`), `NoneNegative`,
  which is what `Refinement` needs;
- `ProcInv`: a process belongs to the RUNNING node that stores its pid, and unless
  children vanish each RUNNING node has one: this makes the `waitpid` of a stored
  pid speak of the right node although pids are reused;
- `OrderInv` (if `NoneNegative`): a node that is READY or beyond has all its parents FINISHED, also
  between the status pass and the fork pass, because FINISHED is final;
- `CountInv`: `finished` counts nodes that are FINISHED, so the stale count is safe
  to end the loop on.

`TreeOrder` is inductive with the counters' starting value (`StartInv`): a row takes
from a child's counter as many edges as it has to it, and the edges into a node are
the disjoint union of those from the nodes in the tree and from the others.

**WaitMgt.** `LimitsAssumption`, and where stated that the `num_parents` cells start
at 0 (`Initialised`; the code does not initialise them). The difficulty is that
`wait` returns any child and the node at the loop index is marked. `PassInv` says
what the three passes have done to the nodes behind the index, `ProcInv` that every
process belongs to a node of the batch, and `BalanceInv` that the processes are as
many as the RUNNING nodes: two cardinalities that one `wait` lowers together, though
the nodes differ. At the end of the pass there are no RUNNING nodes, so no
processes, and the next batch starts clean. `EdgeInv` counts edges from finished
nodes, `OrderInv` gives the order of nodes, `BatchInv` that no edge joins two nodes
of a batch.

**The banks.** `Safe` has no algorithm in it: of any set of unfinished customers one
can have all it may still ask for. What customers hold together (`Held`) is the
cardinality of a set of units, so that sums need no induction. In `Banker` and
`BankerTentative` the invariant of the loops of `checkSafe`, `CheckInv`, is that
`work` is what is available and what the finished customers hold, that every set
with a finished one in it is served (`Served`), and that those behind the index
could not finish. `ServedGrows` and `ServedSafe` give one direction of
`DecisionsExact`; if a sweep finishes nobody new, the set of those left is itself
the counterexample to safety (`StuckUnsafe`). The statement leaves out requests for
nothing, whose grant and refusal are the same step. `HoldersInv`: those who hold
something can always be served, also while another claims more than there is; it
is needed because such a claim may be replaced by a legal one. In
`BankerTentative` the tables are the bank's plus the entry that is being checked,
and taking it back undoes exactly that. In `BankImpl`, `CheckSafe` sweeps with
recursive functions: `IntervalInduction` and `IterateExists` replace the induction
theorems by least counterexamples. `RowsInv` says that where a thread may find
another row of `need` than the one that is there, its customer holds nothing;
`SafeAgree`, that such a row does not change the decision as long as no claim
exceeds the bank (`BankAssumption`). In the refinement a claim takes effect when
`addCustomer` returns.

**ThreadStats.** *Assumption:* `StatsAssumption` (sizes and thread counts are numbers,
a file is a sequence of what its whitespace cuts it into). `SlicesInv`: the workers
are those of this thread count, and their slices, which are disjoint
(`CellsDisjoint`), lie in the array. `ControlInv`: while main creates, the live workers
are below `cur`, while it joins, from `cur` on, and nobody looks at the whole array
meanwhile; `RaceFree` follows. For the rest, `Count(s, V, a, b)` is how many cells of a
range hold a value of `V`, a cardinality that can be split and moved. `CountsInv`: the
array has the counts of the file's first numbers. A sorter that writes back keeps them
and the other cells, because what it read is still what is there (`SortInv`,
`WriteBack`); this is where a race would break the proof. `merge` keeps them and makes
sorted of sorted: a loop invariant (`Woven`) for `MergeTwo`, and for its recursion
the least size for which it fails (`MergedRight`), together `MergeAll`. A sorted array has
at most `SIZE \div 2` cells below and more than that up to the middle one, and so, by the
counts, has the file. For the mean, the sum of a slice is a difference of prefix sums
(`SumIs`), whatever function the fold is, so the workers' sums add up to that of the
array, and `Regular` files are read into it number by number.

**FileOp.** *Assumptions:* `PathsAssumption` (directories form a tree: every set of
paths has one whose directory is not in it; what exists at first is finite, and each
path in it is there with its directory), `LineAssumption`, `LimitAssumption`.
`StackInv`: each frame's directory lies in the next frame's, only the innermost has its directory still to open, and a frame's
entries are of its own directory. As directories form a tree, no two frames are in
the same one (`DirsDiffer`). `StreamsInv` then counts: streams open, plus
directories in which a running function will find an entry gone (`Stale`), are at
most open frames plus removed entries plus refusals of `stat` (`refused`). A removal
adds one to both sides; a function that returns early for it takes its directory
from `Stale` and its frame from the stack, and leaves its stream; one that returns
early as `stat` refuses an entry leaves its stream and adds to `refused`. The option machines are folds: `FoldExists` and `FoldType`
show by least counterexamples that a fold is the function it is meant to be. The
proof found that the first arms of the `CASE`s of `NextEntries` and `Callee`
overlapped the next (TLC takes the first, TLA+ any); they are now disjoint.

`ListingCorrect` compares the output of a whole traversal with the tree, and needs two
more invariants. `CallInv`: what is in a directory is there with it, a command that
lists has passed the blocks that change files, and its options go together as the
option machines make them. `LookInv` speaks of a command that nobody has disturbed and
that has all its streams (`Quietly`). For find and tree it is `Traversal`:

- what is printed are the wanted entries but for those that are, or lie below, an
  entry some running function has still to look at (`Done(Ahead(stack))`): a step
  moves one entry from one side to the other, and leaves what is below it to the
  function it calls;
- each frame runs the function, and has the padding and the depth, that its directory
  calls for (`FrameLook`), so that `pad` is the number of directories an entry is in,
  and `recurseDirPrint`, which prints everything, runs just below a match;
- nothing is printed twice, and what a directory contains directly behind it
  (`OrderOf`; `Inside` says that since a directory was printed in which a function
  runs, everything printed lies in it), and with `TREE_SORT` what a frame has still to print
  comes no earlier in the order than what it has printed (`SortedSoFar`).

For list it is `ListLook`: what is printed and what the loop has collected are entries
of the directory, none twice, and no more than the loop counts, and when it ends
there are none left or exactly that many (`LengthIs`). Such a command meets no failure of its own
making: an entry that is read exists, and a directory that is not locked can be
opened; a locked one is passed over with what is in it (`Visible`), and one that
meets an entry `stat` refuses leaves a stream open and is not `Undisturbed`. This is where `StreamsSuffice` comes in, which asks for a descriptor for each
directory on the way to any other. Without it the property is false of the code: a
function that finds no free stream returns, its callers ignore what it returns, and the
output lacks a subtree. Paths need no induction: `AboveDef` says that the directories a
path is in are those of every set that is closed upwards, and `TreeInduction` takes a
set of counterexamples to one whose directory is not in it.

This proof found that the model had limited `list property name` to `MAX_FILE_COUNT`
entries; the code has no limit there (`fileOp.c:637`), and now neither has `Scanned`.

*Only model-checked.* Liveness: `EligibleStarts`, `Completes`, `Answered`,
`CommandsEnd` (out of the prover's reach). Every safety property of the passing runs,
and each refinement, is a theorem; `DagRun` and `SafeBank` state no fairness.

## 5. What is not modelled

- Text: tokenizing, names, arguments, redirection targets, the layout of the
  tree, messages. A line is what decides the parser's outcome. `LINE_MAX`-long
  lines, which `fgets` would split, are not among the files.
- What a program does, and its exit code, which the manager ignores.
- `Banker`: `showState` only prints; a customer is added again only while it
  holds nothing, and a release of more than is held is not made, as in the
  program's own test. The fixed 10 by 10 tables are taken to be large enough.
- `ThreadStats`: clocks and averages of times; rounding of doubles; the buffer of
  20 characters a number is read into; the overflow of `compare`.
- `BankImpl`: `getState`, which only prints, also beside a request. Claims beyond
  the bank (`Banker` has them).
- `GraphLoad`: failures of `malloc` in `parse_tokens`; leftover cells of `parents[]`
  that are no node ids, with which the status check reads outside `nodes[]`.
- `FileOp`: links to directories, so that the tree is one; a file created
  through a link to nothing; what is in files, and so the buffer of display; lengths of names and
  lines; words that begin with or contain a command or an option without being
  it; sizes whose difference overflows an int. `readdir` returns what was there at
  `opendir`, as glibc does for directories that fit its buffer.
- The Java process manager: `ProcessManagement`'s run loop is a TODO, and what builds
  the graph for it fails early: `ProcessGraph.addNode` adds at most one node, so a child
  two lines ahead is an index out of bounds.
- Starting code (`MeanThread_StartingCode.java` etc.), which leaves its logic as TODO.

## 6. Plan

In this order, the most important behaviour first. Done:

1. `GraphLoad`, `ProcMgt`, `DagRun`, with the proofs of section 4.
2. `WaitMgt`, a second implementation of `DagRun`.
3. `Vectors`, `SafeBank`, `Banker`, `BankerTentative`.
4. `ThreadStats`.
5. `BankImpl`, a third implementation of `SafeBank`.
6. `FileOp`.

7. The proofs of section 4.

All safety properties that the runs check are proved. What could follow, in order:

1. `ListingExact` without `StreamsSuffice`, weakened to what is printed being an
   initial part, by directories, of what is asked for.
2. The steps of a ranking argument for `CommandsEnd`: a measure on the stack, the
   entries that exist and the changes others may still make, that each step of the
   shell lowers.
3. The loader of `ProcMgt`: that `Searchable` files leave no junk in `parents`.
