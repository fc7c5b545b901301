----------------------------- MODULE ThreadStats -----------------------------
(***************************************************************************)
(* lab2/meanThreadCode.c and lab2/medianThreadCode.c: fork/join programs.  *)
(* The mains of the two are copies of each other: for every thread count   *)
(* of the command line the array is cut into slices, NUMBER_TIME_AVG times *)
(* a worker per slice is created and joined, and one more thread combines  *)
(* what they did.  Where they differ, program tells which one this is.     *)
(*                                                                         *)
(* Times are not modelled.  A mean is a fraction <<numerator, denominator>>*)
(* where the code has a double, and a median one over 1.                   *)
(***************************************************************************)
EXTENDS Integers, Sequences, FiniteSets, SequencesExt

CONSTANTS
  SIZE,             \* length of the array
  NUMBER_TIME_AVG,  \* runs per thread count
  Files,            \* input files
  CommandLines      \* the thread counts of a command line

\* A file is what its whitespace characters cut it into: each field is a number, or
\* empty (between two whitespace characters, or after the last).
Field == {f \in Seq(Int) : Len(f) <= 1}

\* Bound: thread counts are not negative.
ASSUME StatsAssumption ==
  /\ SIZE \in Nat \ {0} /\ NUMBER_TIME_AVG \in Nat \ {0}
  /\ Files \subseteq Seq(Field)
  /\ CommandLines \subseteq Seq(Nat)

VARIABLES
  program,        \* "mean" or "median"
  pc,             \* where main is
  file, args,     \* the file, and the thread counts given
  arg,            \* argvCount
  n,              \* number_of_threads
  partitionSize,
  t, cur,         \* loop indices of main: the run, and the thread that is created or joined
  array,
  worker,         \* state of each worker
  local,          \* what a worker has read or computed, as a sequence
  temp_array,     \* results of the joined workers of the mean
  aws,            \* *awsPtr: parameters of the combining threads
  helper,         \* state of the merging, median or global mean thread
  answer          \* globalMean or globalMedian

input == <<program, file, args>>
loop == <<arg, n, partitionSize, t>>
vars == <<input, loop, pc, cur, array, worker, local, temp_array, aws, helper, answer>>

Init ==
  /\ program \in {"mean", "median"}
  /\ pc = "read"
  /\ file \in Files /\ args \in CommandLines
  /\ arg = 1 /\ n = 0 /\ partitionSize = 0 /\ t = 0 /\ cur = 0
  /\ array = [k \in 1 .. SIZE |-> 0]
  /\ worker = <<>> /\ local = <<>> /\ temp_array = <<>>
  /\ aws = [size |-> 0, secondarySize |-> 0]
  /\ helper = "none"
  /\ answer = <<0, 1>>

-----------------------------------------------------------------------------
(***************************************************************************)
(* Reading the file.                                                       *)
(***************************************************************************)

Numbers == FlattenSeq(file)

NotRead(ends) == pc' \in ends /\ UNCHANGED array

\* medianThreadCode.c: fscanf skips whitespace.  A file of more than SIZE numbers is
\* accepted; the one after the last goes to array[SIZE], which nobody reads.
ReadNumbers ==
  /\ pc = "read" /\ program = "median"
  /\ \/ /\ Len(Numbers) >= SIZE
        /\ array' = SubSeq(Numbers, 1, SIZE)
        /\ pc' = "next"
     \/ Len(Numbers) < SIZE /\ NotRead({"failure"})
     \/ NotRead({"failure"})
  /\ UNCHANGED <<input, loop, cur, worker, local, temp_array, aws, helper, answer>>

\* meanThreadCode.c: atoi of every field is stored, of the empty ones, too.  There must
\* be SIZE + 1; the last goes to array[SIZE].  More of them overrun what is behind.
ReadFields ==
  /\ pc = "read" /\ program = "mean"
  /\ \/ /\ Len(file) = SIZE + 1
        /\ array' = [k \in 1 .. SIZE |-> IF file[k] = <<>> THEN 0 ELSE file[k][1]]
        /\ pc' = "next"
     \/ Len(file) < SIZE + 1 /\ NotRead({"failure"})
     \/ Len(file) > SIZE + 1 /\ NotRead({"failure", "crashed"})
     \/ NotRead({"failure"})
  /\ UNCHANGED <<input, loop, cur, worker, local, temp_array, aws, helper, answer>>

-----------------------------------------------------------------------------
(***************************************************************************)
(* main.                                                                   *)
(***************************************************************************)

\* Mutant: argvCount is not incremented.
FollowingArg_Same == arg

FollowingArg == arg + 1

\* The next thread count; 0 divides SIZE by zero.
NextCount ==
  /\ pc = "next" /\ arg <= Len(args)
  /\ n' = args[arg]
  /\ IF args[arg] = 0
     THEN pc' = "crashed" /\ UNCHANGED <<partitionSize, worker, local, temp_array>>
     ELSE /\ partitionSize' = SIZE \div args[arg]
          /\ worker' = [i \in 0 .. args[arg] - 1 |-> "none"]
          /\ local' = [i \in 0 .. args[arg] - 1 |-> <<>>]
          /\ temp_array' = [i \in 0 .. args[arg] - 1 |-> 0]
          /\ pc' = "create"
  /\ arg' = FollowingArg
  /\ t' = 0 /\ cur' = 0
  /\ UNCHANGED <<input, array, aws, helper, answer>>

\* argv[argvCount] is NULL.
Finish ==
  /\ pc = "next" /\ arg > Len(args)
  /\ pc' = "success"
  /\ UNCHANGED <<input, loop, cur, array, worker, local, temp_array, aws, helper, answer>>

\* Mutant: i <= number_of_threads.
MoreWorkers_OffByOne == cur <= n

MoreWorkers == cur < n

CreateWorker ==
  /\ pc = "create" /\ MoreWorkers
  /\ worker' = [worker EXCEPT ![cur] = "ready"]
  /\ cur' = cur + 1
  /\ UNCHANGED <<input, loop, pc, array, local, temp_array, aws, helper, answer>>

AllCreated ==
  /\ pc = "create" /\ cur = n
  /\ pc' = "join" /\ cur' = 0
  /\ UNCHANGED <<input, loop, array, worker, local, temp_array, aws, helper, answer>>

\* The workers are joined in the order of their creation, and end in any.
JoinSorter ==
  /\ pc = "join" /\ cur < n /\ program = "median"
  /\ worker[cur] = "done"
  /\ worker' = [worker EXCEPT ![cur] = "none"]
  /\ cur' = cur + 1
  /\ UNCHANGED <<input, loop, pc, array, local, temp_array, aws, helper, answer>>

JoinMean ==
  /\ pc = "join" /\ cur < n /\ program = "mean"
  /\ worker[cur] = "done"
  /\ worker' = [worker EXCEPT ![cur] = "none"]
  /\ temp_array' = [temp_array EXCEPT ![cur] = local[cur][1]]
  /\ cur' = cur + 1
  /\ UNCHANGED <<input, loop, pc, array, local, aws, helper, answer>>

\* Mutant: the last worker is not joined.
AllJoined_OneEarly == pc = "join" /\ cur + 1 >= n

AllJoined == pc = "join" /\ cur = n

CreateMerger ==
  /\ AllJoined /\ program = "median"
  /\ aws' = [size |-> n, secondarySize |-> partitionSize]
  /\ helper' = "merger"
  /\ pc' = "merge"
  /\ UNCHANGED <<input, loop, cur, array, worker, local, temp_array, answer>>

JoinMerger ==
  /\ pc = "merge" /\ helper = "done"
  /\ aws' = [aws EXCEPT !.size = SIZE]
  /\ helper' = "find_median"
  /\ pc' = "answer"
  /\ UNCHANGED <<input, loop, cur, array, worker, local, temp_array, answer>>

CreateGlobalMean ==
  /\ AllJoined /\ program = "mean"
  /\ aws' = [aws EXCEPT !.size = n]
  /\ helper' = "global_mean"
  /\ pc' = "answer"
  /\ UNCHANGED <<input, loop, cur, array, worker, local, temp_array, answer>>

\* The answer is there; another run, or the next thread count.
EndRun ==
  /\ pc = "answer" /\ helper = "done"
  /\ helper' = "none"
  /\ t' = t + 1 /\ cur' = 0
  /\ pc' = IF t + 1 < NUMBER_TIME_AVG THEN "create" ELSE "next"
  /\ UNCHANGED <<input, arg, n, partitionSize, array, worker, local, temp_array, aws, answer>>

Main == \/ ReadNumbers \/ ReadFields \/ NextCount \/ Finish
        \/ CreateWorker \/ AllCreated \/ JoinSorter \/ JoinMean
        \/ CreateMerger \/ JoinMerger \/ CreateGlobalMean \/ EndRun

-----------------------------------------------------------------------------
(***************************************************************************)
(* The threads.                                                            *)
(***************************************************************************)

\* Mutant: the slices of neighbours share a cell.
Cells_Overlap(i) == LET first == i * (partitionSize - 1) + 1
                    IN first .. first + partitionSize - 1

\* The cells of sub_arrays[i].
Cells(i) == i * partitionSize + 1 .. (i + 1) * partitionSize

SliceOf(S) == IF S = {} THEN <<>> ELSE SubSeq(array, Min(S), Max(S))

\* qsort reads the slice, ...
SortBegins(i) ==
  /\ worker[i] = "ready" /\ program = "median"
  /\ local' = [local EXCEPT ![i] = SliceOf(Cells(i))]
  /\ worker' = [worker EXCEPT ![i] = "sorting"]
  /\ UNCHANGED <<input, loop, pc, cur, array, temp_array, aws, helper, answer>>

Ascending(s) == \A j, k \in DOMAIN s : j <= k => s[j] <= s[k]

\* What qsort promises: the elements of s in ascending order.
Sorts(s) ==
  {sorted \in {[k \in DOMAIN s |-> s[p[k]]] : p \in Bijection(DOMAIN s, DOMAIN s)} :
     Ascending(sorted)}

\* ... and, while others do the same, writes it back sorted.
SortEnds(i) ==
  /\ worker[i] = "sorting"
  /\ \E sorted \in Sorts(local[i]) :
       array' = [k \in 1 .. SIZE |-> IF k \in Cells(i) THEN sorted[k + 1 - Min(Cells(i))]
                                     ELSE array[k]]
  /\ worker' = [worker EXCEPT ![i] = "done"]
  /\ UNCHANGED <<input, loop, pc, cur, local, temp_array, aws, helper, answer>>

\* Mutant: every worker is handed &sub_arrays[0].
SliceSum_First(i) == FoldLeft(+, 0, SliceOf(Cells(0)))

SliceSum(i) == FoldLeft(+, 0, SliceOf(Cells(i)))

\* The worker's mean is this sum over partitionSize.
GetTemporalMean(i) ==
  /\ worker[i] = "ready" /\ program = "mean"
  /\ local' = [local EXCEPT ![i] = <<SliceSum(i)>>]
  /\ worker' = [worker EXCEPT ![i] = "done"]
  /\ UNCHANGED <<input, loop, pc, cur, array, temp_array, aws, helper, answer>>

\* Mutant: the comparison is the wrong way round.
TakesFirst_Greater(first, second, i, j) ==
  i < Len(first) /\ (j < Len(second) => first[i + 1] > second[j + 1])

\* Does merge, which has taken i and j elements so far, take the next from the first half?
TakesFirst(first, second, i, j) ==
  i < Len(first) /\ (j < Len(second) => first[i + 1] < second[j + 1])

\* The loops of merge; after k iterations taken[k] elements come from the first half.
MergeTwo(first, second) ==
  LET length == Len(first) + Len(second)
      taken[k \in 0 .. length] ==
        IF k = 0 THEN 0
        ELSE IF TakesFirst(first, second, taken[k - 1], k - 1 - taken[k - 1])
             THEN taken[k - 1] + 1 ELSE taken[k - 1]
  IN [k \in 1 .. length |-> IF taken[k] # taken[k - 1] THEN first[taken[k]]
                            ELSE second[k - taken[k]]]

\* merge on size slices of part cells each: merge[k][s] is its recursive call for the k
\* slices from slice s on.
Merged(size, part) ==
  LET merge[k \in 0 .. size] ==
        [s \in 0 .. size - k |->
           IF k <= 1 THEN SubSeq(array, s * part + 1, (s + k) * part)
           ELSE MergeTwo(merge[k \div 2][s], merge[k - k \div 2][s + k \div 2])]
  IN merge[size][0]

\* The merger sorts the slices together, in place; cells behind the last stay.
Merger ==
  /\ helper = "merger"
  /\ LET cells == aws.size * aws.secondarySize
     IN array' = Merged(aws.size, aws.secondarySize) \o SubSeq(array, cells + 1, SIZE)
  /\ helper' = "done"
  /\ UNCHANGED <<input, loop, pc, cur, worker, local, temp_array, aws, answer>>

FindMedian ==
  /\ helper = "find_median"
  /\ answer' = <<array[aws.size \div 2 + 1], 1>>
  /\ helper' = "done"
  /\ UNCHANGED <<input, loop, pc, cur, array, worker, local, temp_array, aws>>

\* The mean of the workers' means; 0/0 is not a number.
GetGlobalMean ==
  /\ helper = "global_mean"
  /\ answer' = <<FoldLeft(+, 0, [i \in 1 .. aws.size |-> temp_array[i - 1]]),
                 aws.size * partitionSize>>
  /\ helper' = "done"
  /\ UNCHANGED <<input, loop, pc, cur, array, worker, local, temp_array, aws>>

Worker(i) == SortBegins(i) \/ SortEnds(i) \/ GetTemporalMean(i)

Combine == Merger \/ FindMedian \/ GetGlobalMean

Stopped == pc \in {"success", "failure", "crashed"} /\ UNCHANGED vars

Next == Main \/ (\E i \in DOMAIN worker : Worker(i)) \/ Combine \/ Stopped

\* Every thread is scheduled; main blocks only in pthread_join.
Spec == /\ Init /\ [][Next]_vars
        /\ WF_vars(Main) /\ WF_vars(Combine) /\ WF_vars(\E i \in DOMAIN worker : Worker(i))

-----------------------------------------------------------------------------
(***************************************************************************)
(* Properties.                                                             *)
(***************************************************************************)

\* The types of the variables.
TypeOK ==
  /\ pc \in {"read", "next", "create", "join", "merge", "answer",
             "success", "failure", "crashed"}
  /\ arg \in 1 .. Len(args) + 1 /\ n \in Nat /\ partitionSize \in 0 .. SIZE
  /\ t \in 0 .. NUMBER_TIME_AVG /\ cur \in 0 .. n
  /\ array \in [1 .. SIZE -> Int]
  /\ \A i \in DOMAIN worker : worker[i] \in {"none", "ready", "sorting", "done"}
  /\ aws \in [size : Nat, secondarySize : Nat]
  /\ helper \in {"none", "merger", "find_median", "global_mean", "done"}

Live(i) == worker[i] \in {"ready", "sorting"}

\* No two threads that may write are at the same cell: the sorters' slices are
\* disjoint, and nobody sorts any more when the array is merged or looked at.  (The
\* programs have no locks; this rests on the slicing and on the joins.)
NoRace ==
  program = "median" =>
    \A i \in DOMAIN worker :
      Live(i) => /\ helper = "none"
                 /\ \A j \in DOMAIN worker \ {i} : Live(j) => Cells(i) \cap Cells(j) = {}

HowOften(s, v) == Cardinality({k \in DOMAIN s : s[k] = v})

\* Sorting and merging lose and double nothing: between the steps of all threads, in
\* all runs and for all thread counts, also those that leave a tail, the array holds
\* the numbers of the file.
NothingLost ==
  program = "median" /\ pc \notin {"read", "failure"} =>
    LET numbers == SubSeq(Numbers, 1, SIZE)
    IN \A v \in ToSet(array) \cup ToSet(numbers) : HowOften(array, v) = HowOften(numbers, v)

Answered == pc = "answer" /\ helper = "done"

\* v has rank SIZE/2 (from 0) among the numbers.
IsMedian(v, s) == /\ Cardinality({k \in DOMAIN s : s[k] < v}) <= SIZE \div 2
                  /\ Cardinality({k \in DOMAIN s : s[k] <= v}) > SIZE \div 2

\* With a thread count that divides SIZE each run finds the median of the first SIZE
\* numbers, although earlier runs, maybe with counts that do not, have moved them.
MedianRight ==
  Answered /\ program = "median" /\ n * partitionSize = SIZE =>
    IsMedian(answer[1], SubSeq(Numbers, 1, SIZE))

\* A file in the form of input.txt: a whitespace character after each number.
Regular == /\ file # <<>> /\ Last(file) = <<>>
           /\ \A k \in 1 .. Len(file) - 1 : file[k] # <<>>

\* With such a count, the mean of the slices' means, collected in the order of
\* creation while the workers end in any order, is the mean of all numbers.
MeanRight ==
  Answered /\ program = "mean" /\ Regular /\ n * partitionSize = SIZE =>
    answer[1] * SIZE = FoldLeft(+, 0, Numbers) * answer[2]

\* medianThreadCode.c:9, "finds the median of an input file using 1 or more specified
\* number of threads".
MedianForAnyCount ==
  Answered /\ program = "median" => IsMedian(answer[1], SubSeq(Numbers, 1, SIZE))

\* If the file is read and no count is 0, every run is joined and main returns.
Completes ==
  (pc = "next" /\ 0 \notin ToSet(args)) ~> pc = "success"
=============================================================================
