---------------------------- MODULE FileOp_proofs ----------------------------
(***************************************************************************)
(* Proofs about the shell for every directory tree, every set of lines and *)
(* everything that others do to the directory.                             *)
(*                                                                         *)
(* IInv is the inductive invariant.  StackInv says how the frames of the   *)
(* running functions hang together, ControlInv that none runs at the       *)
(* prompt, DataInv the types of the rest, and StreamsInv counts the open   *)
(* streams against the frames, the entries others have removed and those   *)
(* that stat has refused.                                                  *)
(*                                                                         *)
(* What a command prints needs two more.  CallInv says how a command goes  *)
(* with the block that runs and with the files; LookInv says of a command  *)
(* that nobody disturbs what it has printed so far: Traversal for find and *)
(* tree, whose output is what they want of the tree without what the       *)
(* running functions have ahead of them, and ListLook for list.            *)
(***************************************************************************)
EXTENDS FileOp, FiniteSetTheorems, WellFoundedInduction, TLAPS

-----------------------------------------------------------------------------
(***************************************************************************)
(* Numbers and folds.                                                      *)
(***************************************************************************)

\* A set of numbers has a least one.
LEMMA LeastNumber ==
  ASSUME NEW S \in SUBSET Nat, S # {}
  PROVE  \E k \in S : \A j \in S : k <= j
<1>1. PICK k \in S : \A j \in S : ~ (<<j, k>> \in OpToRel(<, Nat))
  BY NatLessThanWellFounded, WFMin
<1>2. ASSUME NEW j \in S PROVE k <= j
  <2>1. j \in Nat /\ k \in Nat
    OBVIOUS
  <2>2. j < k => <<j, k>> \in OpToRel(<, Nat)
    BY <2>1, Zenon DEF OpToRel
  <2>3. ~(j < k)
    BY <1>1, <2>2, Zenon
  <2>4. QED
    BY <2>1, <2>3
<1>3. QED
  BY <1>2

\* An element that none exceeds is the maximum.
LEMMA MaxIs ==
  ASSUME NEW S \in SUBSET Int, NEW m \in S, \A k \in S : k <= m
  PROVE  Max(S) = m
<1>1. \A k \in S : m >= k
  OBVIOUS
<1> DEFINE x == Max(S)
<1>2. x \in S /\ \A k \in S : x >= k
  BY <1>1, Zenon DEF Max
<1> HIDE DEF x
<1>3. x = m
  BY <1>2
<1>4. QED
  BY <1>3 DEF x

\* A set of numbers with a bound has a greatest one.
LEMMA MaxAmong ==
  ASSUME NEW n \in Nat, NEW S \in SUBSET (1 .. n), S # {}
  PROVE  Max(S) \in S
<1> DEFINE Upper == {k \in Nat : \A j \in S : j <= k}
<1>1. Upper \in SUBSET Nat /\ Upper # {}
  OBVIOUS
<1>2. PICK m \in Upper : \A k \in Upper : m <= k
  <2> HIDE DEF Upper
  <2> QED BY <1>1, LeastNumber
<1>3. m \in S
  <2>1. SUFFICES ASSUME m \notin S PROVE FALSE
    OBVIOUS
  <2>2. PICK j \in S : TRUE
    OBVIOUS
  <2>3. m \in Nat /\ m # 0 /\ \A k \in S : k < m
    BY <1>2, <2>1, <2>2
  <2>4. m - 1 \in Upper
    BY <2>3
  <2>5. QED
    BY <1>2, <2>3, <2>4
<1>4. Max(S) = m
  BY <1>2, <1>3, MaxIs
<1>5. QED
  BY <1>3, <1>4

\* The minimum is among the numbers, and none is below it.
LEMMA MinLeast ==
  ASSUME NEW S \in SUBSET Nat, S # {}
  PROVE  Min(S) \in S /\ \A j \in S : Min(S) <= j
BY LeastNumber DEF Min

\* The place of a word is 0 or an index of the line.
LEMMA PlaceType ==
  ASSUME line \in Seq(STRING), NEW w
  PROVE  Place(w) \in 0 .. Len(line)
<1> DEFINE I == {i \in 1 .. Len(line) : line[i] = w}
<1>1. Place(w) = IF I # {} THEN Min(I) ELSE 0
  BY DEF Place, SelectInSeq
<1>2. I \in SUBSET Nat
  OBVIOUS
<1>3. CASE I = {}
  BY <1>1, <1>3
<1>4. CASE I # {}
  <2>1. Min(I) \in I
    BY <1>2, <1>4, MinLeast
  <2>2. QED
    BY <1>1, <1>4, <2>1
<1>5. QED
  BY <1>3, <1>4

\* A fold over the indices 1 .. n, by the steps F, is a function g on sets of indices.
FoldStep(F, n, T) == F \in [T \X (1 .. n) -> T]
IsFold(g, F, n, T, base) ==
  /\ g \in [SUBSET (1 .. n) -> T]
  /\ \A s \in SUBSET (1 .. n) :
       g[s] = IF s = {} THEN base ELSE F[<<g[s \ {Max(s)}], Max(s)>>]

\* There is one, ...
LEMMA FoldExists ==
  ASSUME NEW n \in Nat, NEW T, NEW base \in T, NEW F, FoldStep(F, n, T)
  PROVE  \E g : IsFold(g, F, n, T, base)
<1> DEFINE Folds(g, m) ==
             \A s \in SUBSET (1 .. m) :
               g[s] = IF s = {} THEN base ELSE F[<<g[s \ {Max(s)}], Max(s)>>]
           Upto(m) == \E g \in [SUBSET (1 .. m) -> T] : Folds(g, m)
           Bad == {m \in 0 .. n : ~Upto(m)}
<1> USE DEF FoldStep
<1>1. Upto(0)
  <2> DEFINE g == [s \in SUBSET (1 .. 0) |-> base]
  <2>1. g \in [SUBSET (1 .. 0) -> T] /\ Folds(g, 0)
    OBVIOUS
  <2>2. QED
    BY <2>1
<1>2. ASSUME NEW m \in 1 .. n, Upto(m - 1) PROVE Upto(m)
  <2>1. PICK g \in [SUBSET (1 .. m - 1) -> T] : Folds(g, m - 1)
    BY <1>2
  <2> DEFINE h == [s \in SUBSET (1 .. m) |->
                     IF m \in s THEN F[<<g[s \ {m}], m>>] ELSE g[s]]
  <2>2. \A s \in SUBSET (1 .. m) :
          /\ s \ {m} \in SUBSET (1 .. m - 1)
          /\ m \notin s => s \in SUBSET (1 .. m - 1)
          /\ m \in s => Max(s) = m
    <3>1. ASSUME NEW s \in SUBSET (1 .. m), m \in s PROVE Max(s) = m
      <4>1. s \in SUBSET Int /\ m \in Int /\ \A k \in s : k <= m
        OBVIOUS
      <4>2. QED
        BY <3>1, <4>1, MaxIs
    <3>2. QED
      BY <3>1
  <2>3. h \in [SUBSET (1 .. m) -> T]
    BY <2>2
  <2>4. ASSUME NEW s \in SUBSET (1 .. m)
        PROVE  h[s] = IF s = {} THEN base ELSE F[<<h[s \ {Max(s)}], Max(s)>>]
    <3>1. CASE m \in s
      <4>1. Max(s) = m /\ s \ {m} \in SUBSET (1 .. m) /\ m \notin s \ {m} /\ s # {}
        BY <2>2, <3>1
      <4>2. h[s] = F[<<g[s \ {m}], m>>] /\ h[s \ {m}] = g[s \ {m}]
        BY <3>1, <4>1
      <4>3. QED
        BY <4>1, <4>2
    <3>2. CASE m \notin s
      <4>1. s \in SUBSET (1 .. m - 1) /\ s \ {Max(s)} \in SUBSET (1 .. m) /\ m \notin s \ {Max(s)}
        BY <2>2, <3>2
      <4>2. h[s] = g[s] /\ h[s \ {Max(s)}] = g[s \ {Max(s)}]
        BY <3>2, <4>1
      <4>3. g[s] = IF s = {} THEN base ELSE F[<<g[s \ {Max(s)}], Max(s)>>]
        BY <2>1, <4>1
      <4>4. QED
        BY <4>2, <4>3
    <3>3. QED
      BY <3>1, <3>2
  <2> HIDE DEF h
  <2>5. QED
    BY <2>3, <2>4
<1> HIDE DEF Upto
<1>3. Bad = {}
  <2>1. SUFFICES ASSUME Bad # {} PROVE FALSE
    OBVIOUS
  <2>2. PICK k \in Bad : \A j \in Bad : k <= j
    <3>1. Bad \in SUBSET Nat
      OBVIOUS
    <3> HIDE DEF Bad
    <3>2. QED
      BY <2>1, <3>1, LeastNumber
  <2>3. k \in 1 .. n /\ k - 1 \notin Bad
    BY <1>1, <2>2
  <2>4. QED
    BY <1>2, <2>2, <2>3
<1>4. Upto(n)
  BY <1>3
<1>5. QED
  BY <1>4 DEF Upto, IsFold

\* ... and what holds of the base and is kept by every step holds of its result.
LEMMA FoldType ==
  ASSUME NEW n \in Nat, NEW T, NEW g, g[{}] \in T,
         \A s \in SUBSET (1 .. n) : s # {} /\ g[s \ {Max(s)}] \in T /\ Max(s) \in 1 .. n => g[s] \in T
  PROVE  g[1 .. n] \in T
<1> DEFINE Typed(m) == \A s \in SUBSET (1 .. m) : g[s] \in T
           Bad == {m \in 0 .. n : ~Typed(m)}
<1>1. Typed(0)
  <2>1. \A s \in SUBSET (1 .. 0) : s = {}
    OBVIOUS
  <2>2. QED
    BY <2>1
<1>2. ASSUME NEW m \in 1 .. n, Typed(m - 1) PROVE Typed(m)
  <2>1. ASSUME NEW s \in SUBSET (1 .. m) PROVE g[s] \in T
    <3>1. CASE m \in s
      <4>1. Max(s) = m
        <5>1. s \in SUBSET Int /\ m \in Int /\ \A k \in s : k <= m
          OBVIOUS
        <5>2. QED
          BY <3>1, <5>1, MaxIs
      <4>2. s \ {m} \in SUBSET (1 .. m - 1) /\ s \in SUBSET (1 .. n) /\ s # {}
        BY <3>1
      <4>3. g[s \ {m}] \in T
        BY <1>2, <4>2
      <4>4. QED
        BY <4>1, <4>2, <4>3
    <3>2. CASE m \notin s
      <4>1. s \in SUBSET (1 .. m - 1)
        BY <3>2
      <4>2. QED
        BY <1>2, <4>1
    <3>3. QED
      BY <3>1, <3>2
  <2>2. QED
    BY <2>1
<1> HIDE DEF Typed
<1>3. Bad = {}
  <2>1. SUFFICES ASSUME Bad # {} PROVE FALSE
    OBVIOUS
  <2>2. PICK k \in Bad : \A j \in Bad : k <= j
    <3>1. Bad \in SUBSET Nat
      OBVIOUS
    <3> HIDE DEF Bad
    <3>2. QED
      BY <2>1, <3>1, LeastNumber
  <2>3. k \in 1 .. n /\ k - 1 \notin Bad
    BY <1>1, <2>2
  <2>4. QED
    BY <1>2, <2>2, <2>3
<1>4. Typed(n)
  BY <1>3
<1>5. QED
  BY <1>4 DEF Typed

-----------------------------------------------------------------------------
(***************************************************************************)
(* The invariant.                                                          *)
(***************************************************************************)

Entry == Paths \cup Dots

Functions == ListFunctions \cup
  {"none", "invalid", "FIND", "TREE_NORMAL", "TREE_DEPTH", "TREE_SORT"}

Calls == [fn : Functions, by : Orders, max : Nat, word : STRING \cup {""}]

\* What the options of list and tree can make: list sorts only if it is told how, and
\* without the properties only by name.
ListCalls ==
  {c \in Calls : /\ c.fn \in ListFunctions \cup {"invalid"}
                 /\ c.fn \in {"LIST_NORMAL", "LIST_PROPERTY"} => c.by = "time"
                 /\ c.fn = "SORTED_LIST_NORMAL" => c.by = "name"}
TreeCalls == {c \in Calls : c.fn \in {"TREE_NORMAL", "TREE_DEPTH", "TREE_SORT", "invalid"}}

Frames == [fn : {"list", "findRecurseDirPrint", "recurseDirPrint", "treePrint", "treePrintSort"},
           dir : Dirs \cup {Here}, pad : Nat, phase : {"open", "read", "print"},
           left : SUBSET Entry, table : Seq(Entry)]

\* The entries a frame has still to deal with.
Pending(f) == f.left \cup Range(f.table)

FrameInv(f) ==
  /\ f \in Frames
  /\ f.phase = "open" => Pending(f) = {}
  /\ f.phase = "read" => Len(f.table) <= STAT_BUFFER_SIZE
  /\ \A p \in Pending(f) : p \in Paths => Parent[p] = f.dir

\* Only the innermost frame may have to open its directory yet, and each frame's
\* directory is one of those in the next one's.
Chain(s) ==
  /\ s \in Seq(Frames)
  /\ \A i \in 1 .. Len(s) : FrameInv(s[i])
  /\ \A i \in 2 .. Len(s) : s[i].phase # "open"
  /\ \A i \in 1 .. Len(s) - 1 : s[i].dir \in Dirs /\ Parent[s[i].dir] = s[i + 1].dir

\* The loops of list run in the current directory and make no recursive call.
StackInv ==
  /\ Chain(stack)
  /\ Listing => Len(stack) <= 1 /\ \A i \in 1 .. Len(stack) : stack[i].dir = Here

ControlInv ==
  /\ pc \in Range(Blocks) \cup {"ended", "crashed", "undefined"}
  /\ pc = "prompt" => stack = <<>>

DataInv ==
  /\ line \in Seq(STRING) /\ call \in Calls
  /\ fs \subseteq Paths /\ IsFiniteSet(fs)
  /\ out \in Seq(Entry \X Nat)

\* How many frames have their directory open.
Opened(s) == IF s # <<>> /\ s[1].phase = "open" THEN Len(s) - 1 ELSE Len(s)

\* The directories of the frames that will find an entry gone.
Stale(s, files) ==
  {d \in Dirs \cup {Here} :
     \E i \in 1 .. Len(s) : s[i].dir = d /\ ~(Pending(s[i]) \subseteq files \cup Dots)}

\* A frame that will find an entry gone will leave its stream open: it counts already.
StreamsInv ==
  /\ open \in 0 .. MaxOpen /\ removed \in Nat /\ refused \in Nat
  /\ Opened(stack) <= open
  /\ open + Cardinality(Stale(stack, fs)) <= Opened(stack) + removed + refused

IInv == StackInv /\ ControlInv /\ DataInv /\ StreamsInv

-----------------------------------------------------------------------------
(***************************************************************************)
(* Lines and options.                                                      *)
(***************************************************************************)

\* Every block but the last is followed by one.
LEMMA AfterType ==
  ASSUME NEW block \in Range(Blocks), block # "prompt"
  PROVE  After(block) \in Range(Blocks)
<1>1. DOMAIN Blocks = 1 .. 7 /\ Blocks[7] = "prompt"
  BY DEF Blocks
<1> DEFINE k == CHOOSE i \in DOMAIN Blocks : Blocks[i] = block
<1>2. k \in DOMAIN Blocks /\ Blocks[k] = block
  <2>1. \E i \in DOMAIN Blocks : Blocks[i] = block
    BY DEF Range
  <2>2. QED
    BY <2>1, Zenon
<1>3. After(block) = Blocks[1 + k]
  BY DEF After
<1> HIDE DEF k
<1>4. 1 + k \in DOMAIN Blocks
  BY <1>1, <1>2
<1>5. QED
  BY <1>3, <1>4 DEF Range

\* What the blocks take from the line is made of its words, and so is what is left of it.
LEMMA ArgumentsType ==
  ASSUME line \in Seq(STRING), NEW w
  PROVE  /\ Arguments(w) \in Seq(STRING)
         /\ Argument(w) \in STRING \cup {""}
         /\ Cut(w) \in Seq(STRING)
<1>1. Place(w) \in 0 .. Len(line) /\ Len(line) \in Nat
  BY PlaceType
<1> DEFINE k == Place(w)
<1> HIDE DEF k
<1>2. Arguments(w) \in Seq(STRING)
  <2>1. k \in 0 .. Len(line)
    BY <1>1 DEF k
  <2>2. SubSeq(line, k + 1, Len(line)) \in Seq(STRING)
    BY <2>1
  <2>3. QED
    BY <2>2 DEF Arguments, k
<1>3. Argument(w) \in STRING \cup {""}
  <2> DEFINE a == Arguments(w)
  <2>1. a \in Seq(STRING)
    BY <1>2
  <2> HIDE DEF a
  <2>2. a # <<>> => Head(a) \in STRING
    BY <2>1
  <2>3. QED
    BY <2>2 DEF Argument, a
<1>4. Cut(w) \in Seq(STRING)
  <2> DEFINE M == {k + 1, Len(line)}
  <2>1. M \in SUBSET Nat /\ M # {}
    BY <1>1 DEF k
  <2>2. Min(M) \in M /\ Min(M) <= Len(line)
    <3>1. Min(M) \in M /\ \A j \in M : Min(M) <= j
      <4> HIDE DEF M
      <4> QED BY <2>1, MinLeast
    <3>2. QED
      BY <3>1
  <2>3. \A m \in Nat : m <= Len(line) => SubSeq(line, 1, m) \in Seq(STRING)
    BY <1>1
  <2>4. SubSeq(line, 1, Min(M)) \in Seq(STRING)
    <3> HIDE DEF M
    <3> QED BY <2>1, <2>2, <2>3
  <2>5. QED
    BY <2>4 DEF Cut, k
<1>5. QED
  BY <1>2, <1>3, <1>4

\* The option machines keep a call one of theirs.
LEMMA OptionType ==
  ASSUME NEW word
  PROVE  /\ \A o \in ListCalls : ListOption(o, word) \in ListCalls
         /\ \A o \in TreeCalls : TreeOption(o, word) \in TreeCalls
<1>1. word \in DOMAIN Atoi => Atoi[word] \in Nat
  BY LineAssumption
<1>2. ASSUME NEW o \in ListCalls PROVE ListOption(o, word) \in ListCalls
  BY <1>1 DEF ListOption, ListCalls, Calls, Functions, ListFunctions, Orders
<1>3. ASSUME NEW o \in TreeCalls PROVE TreeOption(o, word) \in TreeCalls
  BY <1>1 DEF TreeOption, TreeCalls, Calls, Functions, ListFunctions, Orders
<1>4. QED
  BY <1>2, <1>3

\* The options of list make a call, with a maximum that is a number, ...
LEMMA ListCallType ==
  ASSUME line \in Seq(STRING)
  PROVE  listCall \in ListCalls
<1> DEFINE args == Arguments("list")
           base == [noCall EXCEPT !.fn = "LIST_NORMAL", !.max = MAX_FILE_COUNT]
           iter[s \in SUBSET (DOMAIN args)] ==
             IF s = {} THEN base ELSE ListOption(iter[s \ {Max(s)}], args[Max(s)])
<1>1. listCall = iter[DOMAIN args]
  BY DEF listCall, FoldLeft, MapThenFoldSet
<1>2. PICK n \in Nat : DOMAIN args = 1 .. n
  <2>1. args \in Seq(STRING)
    BY ArgumentsType
  <2>2. QED
    BY <2>1
<1> DEFINE F == [p \in ListCalls \X (1 .. n) |-> ListOption(p[1], args[p[2]])]
<1>3. base \in ListCalls
  BY LimitAssumption DEF noCall, ListCalls, Calls, Functions, ListFunctions, Orders
<1>4. FoldStep(F, n, ListCalls)
  BY OptionType DEF FoldStep
<1>5. \A o \in ListCalls, k \in 1 .. n : F[<<o, k>>] = ListOption(o, args[k])
  OBVIOUS
<1> HIDE DEF args, base, F
<1>6. PICK g : IsFold(g, F, n, ListCalls, base)
  <2> HIDE DEF iter
  <2> QED BY <1>3, <1>4, FoldExists, Zenon
<1>7. ASSUME NEW s \in SUBSET (1 .. n)
      PROVE  g[s] = IF s = {} THEN base ELSE ListOption(g[s \ {Max(s)}], args[Max(s)])
  <2>1. s # {} => Max(s) \in 1 .. n
    BY MaxAmong
  <2>2. g[s] = IF s = {} THEN base ELSE F[<<g[s \ {Max(s)}], Max(s)>>]
    BY <1>6 DEF IsFold
  <2>3. g[s \ {Max(s)}] \in ListCalls
    BY <1>6 DEF IsFold
  <2>4. QED
    BY <1>5, <2>1, <2>2, <2>3
<1>8. g = [s \in SUBSET (DOMAIN args) |->
             IF s = {} THEN base ELSE ListOption(g[s \ {Max(s)}], args[Max(s)])]
  BY <1>2, <1>6, <1>7 DEF IsFold
<1>9. iter = [s \in SUBSET (DOMAIN args) |->
                IF s = {} THEN base ELSE ListOption(iter[s \ {Max(s)}], args[Max(s)])]
  BY <1>8
<1> HIDE DEF iter
<1>10. iter[{}] \in ListCalls
  BY <1>2, <1>3, <1>9
<1>11. ASSUME NEW s \in SUBSET (1 .. n), s # {}, iter[s \ {Max(s)}] \in ListCalls, Max(s) \in 1 .. n
       PROVE  iter[s] \in ListCalls
  <2>1. iter[s] = ListOption(iter[s \ {Max(s)}], args[Max(s)])
    BY <1>2, <1>9, <1>11
  <2>2. QED
    BY <1>11, <2>1, OptionType
<1>12. iter[1 .. n] \in ListCalls
  BY <1>10, <1>11, FoldType
<1>13. QED
  BY <1>1, <1>2, <1>12

\* ... and so do those of tree, with the depth.
LEMMA TreeCallType ==
  ASSUME line \in Seq(STRING)
  PROVE  treeCall \in TreeCalls
<1> DEFINE args == Arguments("tree")
           base == [noCall EXCEPT !.fn = "TREE_NORMAL", !.max = MAX_TREE_DEPTH]
           iter[s \in SUBSET (DOMAIN args)] ==
             IF s = {} THEN base ELSE TreeOption(iter[s \ {Max(s)}], args[Max(s)])
<1>1. treeCall = iter[DOMAIN args]
  BY DEF treeCall, FoldLeft, MapThenFoldSet
<1>2. PICK n \in Nat : DOMAIN args = 1 .. n
  <2>1. args \in Seq(STRING)
    BY ArgumentsType
  <2>2. QED
    BY <2>1
<1> DEFINE F == [p \in TreeCalls \X (1 .. n) |-> TreeOption(p[1], args[p[2]])]
<1>3. base \in TreeCalls
  BY LimitAssumption DEF noCall, TreeCalls, Calls, Functions, ListFunctions, Orders
<1>4. FoldStep(F, n, TreeCalls)
  BY OptionType DEF FoldStep
<1>5. \A o \in TreeCalls, k \in 1 .. n : F[<<o, k>>] = TreeOption(o, args[k])
  OBVIOUS
<1> HIDE DEF args, base, F
<1>6. PICK g : IsFold(g, F, n, TreeCalls, base)
  <2> HIDE DEF iter
  <2> QED BY <1>3, <1>4, FoldExists, Zenon
<1>7. ASSUME NEW s \in SUBSET (1 .. n)
      PROVE  g[s] = IF s = {} THEN base ELSE TreeOption(g[s \ {Max(s)}], args[Max(s)])
  <2>1. s # {} => Max(s) \in 1 .. n
    BY MaxAmong
  <2>2. g[s] = IF s = {} THEN base ELSE F[<<g[s \ {Max(s)}], Max(s)>>]
    BY <1>6 DEF IsFold
  <2>3. g[s \ {Max(s)}] \in TreeCalls
    BY <1>6 DEF IsFold
  <2>4. QED
    BY <1>5, <2>1, <2>2, <2>3
<1>8. g = [s \in SUBSET (DOMAIN args) |->
             IF s = {} THEN base ELSE TreeOption(g[s \ {Max(s)}], args[Max(s)])]
  BY <1>2, <1>6, <1>7 DEF IsFold
<1>9. iter = [s \in SUBSET (DOMAIN args) |->
                IF s = {} THEN base ELSE TreeOption(iter[s \ {Max(s)}], args[Max(s)])]
  BY <1>8
<1> HIDE DEF iter
<1>10. iter[{}] \in TreeCalls
  BY <1>2, <1>3, <1>9
<1>11. ASSUME NEW s \in SUBSET (1 .. n), s # {}, iter[s \ {Max(s)}] \in TreeCalls, Max(s) \in 1 .. n
       PROVE  iter[s] \in TreeCalls
  <2>1. iter[s] = TreeOption(iter[s \ {Max(s)}], args[Max(s)])
    BY <1>2, <1>9, <1>11
  <2>2. QED
    BY <1>11, <2>1, OptionType
<1>12. iter[1 .. n] \in TreeCalls
  BY <1>10, <1>11, FoldType
<1>13. QED
  BY <1>1, <1>2, <1>12
-----------------------------------------------------------------------------
(***************************************************************************)
(* Stacks.                                                                 *)
(***************************************************************************)

\* A function returns.
LEMMA ChainTail ==
  ASSUME NEW s, Chain(s), s # <<>>
  PROVE  Chain(Tail(s)) /\ Opened(Tail(s)) = Len(s) - 1 /\ Len(Tail(s)) = Len(s) - 1
<1>1. s \in Seq(Frames) /\ Len(s) \in Nat /\ Len(s) # 0
  BY DEF Chain
<1>2. Tail(s) \in Seq(Frames) /\ Len(Tail(s)) = Len(s) - 1
  BY <1>1
<1>3. \A i \in 1 .. Len(s) - 1 : Tail(s)[i] = s[i + 1]
  BY <1>1
<1>4. Chain(Tail(s))
  BY <1>1, <1>2, <1>3 DEF Chain
<1>5. Tail(s) # <<>> => Tail(s)[1].phase # "open"
  BY <1>1, <1>2, <1>3 DEF Chain
<1>6. QED
  BY <1>2, <1>4, <1>5 DEF Opened

\* The frame of the running function changes, but not its directory.
LEMMA ChainHead ==
  ASSUME NEW s, Chain(s), s # <<>>, NEW f, FrameInv(f), f.dir = s[1].dir
  PROVE  LET t == <<f>> \o Tail(s)
         IN /\ Chain(t) /\ Len(t) = Len(s) /\ t # <<>> /\ t[1] = f
            /\ \A i \in 2 .. Len(t) : t[i] = s[i]
<1> DEFINE t == <<f>> \o Tail(s)
<1>1. s \in Seq(Frames) /\ Len(s) \in Nat /\ Len(s) # 0
  BY DEF Chain
<1>2. f \in Frames
  BY DEF FrameInv
<1>3. Tail(s) \in Seq(Frames) /\ Len(Tail(s)) = Len(s) - 1
      /\ \A i \in 1 .. Len(s) - 1 : Tail(s)[i] = s[i + 1]
  BY <1>1
<1>4. t \in Seq(Frames) /\ Len(t) = Len(s) /\ t[1] = f /\ t # <<>>
  BY <1>2, <1>3
<1>5. \A i \in 2 .. Len(t) : t[i] = s[i]
  <2>1. \A i \in 2 .. Len(t) : t[i] = Tail(s)[i - 1]
    BY <1>2, <1>3
  <2>2. \A i \in 2 .. Len(s) : i - 1 \in 1 .. Len(s) - 1 /\ (i - 1) + 1 = i
    BY <1>1
  <2>3. QED
    BY <1>3, <1>4, <2>1, <2>2
<1> HIDE DEF t
<1>6. Chain(t)
  <2>1. \A i \in 1 .. Len(t) : FrameInv(t[i])
    BY <1>1, <1>4, <1>5 DEF Chain
  <2>2. \A i \in 2 .. Len(t) : t[i].phase # "open"
    BY <1>1, <1>4, <1>5 DEF Chain
  <2>3. ASSUME NEW i \in 1 .. Len(t) - 1
        PROVE  t[i].dir \in Dirs /\ Parent[t[i].dir] = t[i + 1].dir
    <3>1. t[i].dir = s[i].dir /\ t[i + 1] = s[i + 1]
      BY <1>1, <1>4, <1>5
    <3>2. s[i].dir \in Dirs /\ Parent[s[i].dir] = s[i + 1].dir
      BY <1>1, <1>4 DEF Chain
    <3>3. QED
      BY <3>1, <3>2
  <2>4. QED
    BY <1>4, <2>1, <2>2, <2>3 DEF Chain
<1>7. QED
  BY <1>4, <1>5, <1>6 DEF t

\* A function calls itself for a directory in its own.
LEMMA ChainPush ==
  ASSUME NEW s, Chain(s), s # <<>>, s[1].phase # "open",
         NEW f, FrameInv(f), f.dir \in Dirs, Parent[f.dir] = s[1].dir
  PROVE  LET t == <<f>> \o s
         IN /\ Chain(t) /\ Len(t) = Len(s) + 1 /\ t # <<>> /\ t[1] = f
            /\ \A i \in 2 .. Len(t) : t[i] = s[i - 1]
<1> DEFINE t == <<f>> \o s
<1>1. s \in Seq(Frames) /\ Len(s) \in Nat /\ Len(s) # 0
  BY DEF Chain
<1>2. f \in Frames
  BY DEF FrameInv
<1>3. /\ t \in Seq(Frames) /\ Len(t) = Len(s) + 1 /\ t[1] = f /\ t # <<>>
      /\ \A i \in 2 .. Len(t) : t[i] = s[i - 1]
  BY <1>1, <1>2
<1> HIDE DEF t
<1>4. \A i \in 2 .. Len(t) : i - 1 \in 1 .. Len(s) /\ (i # 2 => i - 1 \in 2 .. Len(s))
  BY <1>1, <1>3
<1>5. ASSUME NEW i \in 1 .. Len(t) PROVE FrameInv(t[i])
  <2>1. CASE i = 1
    BY <1>3, <2>1
  <2>2. CASE i # 1
    <3>1. i \in 2 .. Len(t) /\ i - 1 \in 1 .. Len(s)
      BY <1>1, <1>3, <2>2
    <3>2. t[i] = s[i - 1]
      BY <1>3, <3>1
    <3>3. FrameInv(s[i - 1])
      BY <3>1 DEF Chain
    <3>4. QED
      BY <3>2, <3>3
  <2>3. QED
    BY <2>1, <2>2
<1>6. \A i \in 2 .. Len(t) : t[i].phase # "open"
  BY <1>1, <1>3, <1>4 DEF Chain
<1>7. ASSUME NEW i \in 1 .. Len(t) - 1
      PROVE  t[i].dir \in Dirs /\ Parent[t[i].dir] = t[i + 1].dir
  <2>1. CASE i = 1
    BY <1>1, <1>3, <2>1
  <2>2. CASE i # 1
    <3>1. i - 1 \in 1 .. Len(s) - 1 /\ t[i] = s[i - 1] /\ t[i + 1] = s[(i - 1) + 1]
      BY <1>1, <1>3, <2>2
    <3>2. QED
      BY <3>1 DEF Chain
  <2>3. QED
    BY <2>1, <2>2
<1>8. Chain(t)
  BY <1>3, <1>5, <1>6, <1>7 DEF Chain
<1>9. QED
  BY <1>3, <1>8 DEF t

\* Every function is in another directory than those that have called it, as
\* directories form a tree.
LEMMA DirsDiffer ==
  ASSUME NEW s, Chain(s), NEW i \in 2 .. Len(s)
  PROVE  s[i].dir # s[1].dir
<1>1. SUFFICES ASSUME s[i].dir = s[1].dir PROVE FALSE
  OBVIOUS
<1>2. Len(s) \in Nat
  BY DEF Chain
<1> DEFINE S == {s[j].dir : j \in 1 .. i - 1}
<1>3. \A j \in 1 .. i - 1 : s[j].dir \in Dirs /\ Parent[s[j].dir] = s[j + 1].dir
  BY <1>2 DEF Chain
<1>4. S \in (SUBSET Paths) \ {{}}
  <2>1. s[1].dir \in S
    OBVIOUS
  <2>2. S \subseteq Dirs
    BY <1>3
  <2> HIDE DEF S
  <2>3. Dirs \subseteq Paths
    BY PathsAssumption
  <2>4. QED
    BY <2>1, <2>2, <2>3
<1>5. \A j \in 1 .. i - 1 : s[j + 1].dir \in S
  <2>1. ASSUME NEW j \in 1 .. i - 1 PROVE s[j + 1].dir \in S
    <3>1. CASE j = i - 1
      BY <1>1, <3>1
    <3>2. CASE j # i - 1
      <4>1. j + 1 \in 1 .. i - 1
        BY <3>2
      <4>2. QED
        BY <4>1
    <3>3. QED
      BY <3>1, <3>2
  <2>2. QED
    BY <2>1
<1>6. \A p \in S : Parent[p] \in S
  BY <1>3, <1>5
<1> HIDE DEF S
<1>7. QED
  BY <1>4, <1>6, PathsAssumption

\* There are no more stale directories than frames.
LEMMA StaleFinite ==
  ASSUME NEW s, Chain(s), NEW files
  PROVE  IsFiniteSet(Stale(s, files)) /\ Cardinality(Stale(s, files)) \in Nat
<1> DEFINE D == {s[i].dir : i \in 1 .. Len(s)}
<1>1. Len(s) \in Nat
  BY DEF Chain
<1>2. IsFiniteSet(1 .. Len(s))
  BY <1>1, FS_Interval
<1> DEFINE g == [i \in 1 .. Len(s) |-> s[i].dir]
<1>3. g \in Surjection(1 .. Len(s), D)
  BY DEF Surjection
<1>4. Stale(s, files) \subseteq D
  BY DEF Stale
<1> HIDE DEF D, g
<1>5. IsFiniteSet(D)
  BY <1>2, <1>3, FS_Surjection
<1>6. QED
  BY <1>4, <1>5, FS_Subset, FS_CardinalityType

\* With fewer frames, or less to read in them, there are no more than before, ...
LEMMA StaleShrinks ==
  ASSUME NEW s, NEW t, Chain(s), Chain(t), NEW files, NEW rest,
         \A i \in 1 .. Len(t) : ~(Pending(t[i]) \subseteq rest \cup Dots) =>
           \E j \in 1 .. Len(s) : s[j].dir = t[i].dir /\ ~(Pending(s[j]) \subseteq files \cup Dots)
  PROVE  Cardinality(Stale(t, rest)) <= Cardinality(Stale(s, files))
<1>1. Stale(t, rest) \subseteq Stale(s, files)
  BY DEF Stale
<1>2. QED
  BY <1>1, StaleFinite, FS_Subset

\* ... and one less when a function returns that has found an entry gone.
LEMMA StaleReturn ==
  ASSUME NEW s, Chain(s), s # <<>>, NEW files, ~(Pending(s[1]) \subseteq files \cup Dots)
  PROVE  Cardinality(Stale(Tail(s), files)) + 1 <= Cardinality(Stale(s, files))
<1> DEFINE d == s[1].dir
<1>1. s \in Seq(Frames) /\ Len(s) \in Nat /\ Len(s) # 0 /\ FrameInv(s[1])
  BY DEF Chain
<1>2. d \in Stale(s, files)
  <2>1. s[1] \in Frames
    BY <1>1 DEF FrameInv
  <2>2. d \in Dirs \cup {Here}
    BY <2>1 DEF Frames
  <2>3. 1 \in 1 .. Len(s)
    BY <1>1
  <2>4. QED
    BY <2>2, <2>3 DEF Stale
<1>3. Len(Tail(s)) = Len(s) - 1 /\ \A i \in 1 .. Len(s) - 1 : Tail(s)[i] = s[i + 1]
  BY <1>1
<1>4. \A i \in 1 .. Len(s) - 1 : s[i + 1].dir # d
  BY <1>1, DirsDiffer
<1>5. Stale(Tail(s), files) \subseteq Stale(s, files) \ {d}
  BY <1>1, <1>3, <1>4 DEF Stale
<1> HIDE DEF d
<1>6. /\ IsFiniteSet(Stale(s, files)) /\ Cardinality(Stale(s, files)) \in Nat
      /\ Chain(Tail(s)) /\ Cardinality(Stale(Tail(s), files)) \in Nat
  BY StaleFinite, ChainTail
<1>7. Cardinality(Stale(s, files) \ {d}) = Cardinality(Stale(s, files)) - 1
      /\ IsFiniteSet(Stale(s, files) \ {d})
  BY <1>2, <1>6, FS_RemoveElement
<1>8. Cardinality(Stale(Tail(s), files)) <= Cardinality(Stale(s, files) \ {d})
  BY <1>5, <1>7, FS_Subset
<1>9. QED
  BY <1>6, <1>7, <1>8
-----------------------------------------------------------------------------
(***************************************************************************)
(* The running function.                                                   *)
(***************************************************************************)

\* The frame of the running function.
LEMMA TopType ==
  ASSUME Chain(stack), stack # <<>>
  PROVE  /\ top = stack[1] /\ FrameInv(top) /\ top \in Frames
         /\ Len(stack) \in Nat /\ Len(stack) >= 1
<1>1. stack \in Seq(Frames) /\ Len(stack) \in Nat /\ Len(stack) # 0
  BY DEF Chain
<1>2. top = stack[1]
  BY <1>1 DEF top
<1>3. FrameInv(stack[1])
  BY <1>1 DEF Chain
<1>4. QED
  BY <1>1, <1>2, <1>3 DEF FrameInv

\* What the next iteration is about is an entry the frame still has, ...
LEMMA NextPending ==
  ASSUME Chain(stack), NEW p \in NextEntries
  PROVE  /\ stack # <<>> /\ top.phase \in {"read", "print"} /\ pc \in Range(Blocks)
         /\ p \in Pending(top) /\ p \in Entry
         /\ p \in Paths => Parent[p] = top.dir
         /\ top.phase = "print" => top.table # <<>>
<1>1. Running("read") \/ Running("print")
  BY DEF NextEntries
<1>2. stack # <<>> /\ top.phase \in {"read", "print"} /\ pc \in Range(Blocks)
  BY <1>1 DEF Running
<1>3. FrameInv(top) /\ top \in Frames
  BY <1>2, TopType
<1>4. p \in Pending(top) /\ (top.phase = "print" => top.table # <<>>)
  <2>1. CASE Running("read")
    <3>1. p \in top.left
      BY <2>1 DEF NextEntries, Running
    <3>2. QED
      BY <2>1, <3>1 DEF Pending, Running
  <2>2. CASE ~Running("read")
    <3>1. p \in {top.table[i] : i \in DOMAIN top.table \cap {1}}
      BY <1>1, <2>2 DEF NextEntries
    <3>2. top.table \in Seq(Entry)
      BY <1>3 DEF Frames
    <3>3. QED
      BY <3>1, <3>2 DEF Pending, Range
  <2>3. QED
    BY <2>1, <2>2
<1>5. Pending(top) \subseteq Entry
  BY <1>3 DEF Frames, Pending, Range
<1>6. QED
  BY <1>2, <1>3, <1>4, <1>5 DEF FrameInv

\* ... and is what it has no longer afterwards.
LEMMA ConsumeType ==
  ASSUME Chain(stack), NEW p \in NextEntries
  PROVE  LET f == Consume(p)
         IN /\ FrameInv(f) /\ f.dir = top.dir /\ f.phase = top.phase
            /\ Pending(f) \subseteq Pending(top)
            /\ f.phase = "read" => f.table = top.table
<1> DEFINE f == Consume(p)
<1>1. /\ stack # <<>> /\ top.phase \in {"read", "print"}
      /\ top.phase = "print" => top.table # <<>>
  BY NextPending
<1>2. FrameInv(top) /\ top \in Frames
  BY <1>1, TopType
<1> DEFINE table == IF top.phase = "print" THEN Tail(top.table) ELSE top.table
<1>3. table \in Seq(Entry) /\ Range(table) \subseteq Range(top.table)
  <2>1. top.table \in Seq(Entry)
    BY <1>2 DEF Frames
  <2>2. CASE top.phase = "print"
    <3>1. /\ Tail(top.table) \in Seq(Entry) /\ Len(Tail(top.table)) = Len(top.table) - 1
          /\ \A i \in 1 .. Len(top.table) - 1 : Tail(top.table)[i] = top.table[i + 1]
      BY <1>1, <2>1, <2>2
    <3>2. QED
      BY <2>1, <2>2, <3>1 DEF Range
  <2>3. CASE top.phase # "print"
    BY <2>1, <2>3
  <2>4. QED
    BY <2>2, <2>3
<1>4. /\ f.left = top.left \ {p} /\ f.table = table /\ f.dir = top.dir
      /\ f.phase = top.phase /\ f.fn = top.fn /\ f.pad = top.pad
  BY <1>2 DEF Consume, Frames
<1>5. f \in Frames
  <2>1. top.left \ {p} \in SUBSET Entry
    BY <1>2 DEF Frames
  <2>2. table \in Seq(Entry)
    BY <1>3
  <2> HIDE DEF table
  <2>3. f = [top EXCEPT !.left = top.left \ {p}, !.table = table]
    BY <1>2 DEF Consume, Frames, table
  <2>4. QED
    BY <1>2, <2>1, <2>2, <2>3 DEF Frames
<1> HIDE DEF f, table
<1>6. Pending(f) \subseteq Pending(top)
  BY <1>3, <1>4 DEF Pending
<1>7. f.phase = "read" => f.table = top.table
  BY <1>4 DEF table
<1>8. FrameInv(f)
  BY <1>1, <1>2, <1>4, <1>5, <1>6, <1>7 DEF FrameInv
<1>9. QED
  BY <1>4, <1>6, <1>7, <1>8 DEF f
-----------------------------------------------------------------------------
(***************************************************************************)
(* Steps.  What happens to the stack and to the streams is shown together, *)
(* once for each way in which the stack changes.                           *)
(***************************************************************************)

\* The stack stays as it is, also when stat refuses an entry and the shell ends.
LEMMA KeepStep ==
  ASSUME IInv, UNCHANGED <<stack, fs, open, call, removed>>, refused' \in {refused, refused + 1}
  PROVE  StackInv' /\ StreamsInv'
<1>1. StackInv'
  BY DEF IInv, StackInv, Chain, Listing
<1>2. Stale(stack, fs)' = Stale(stack, fs) /\ Opened(stack)' = Opened(stack)
  BY DEF Stale, Opened
<1>3. Cardinality(Stale(stack, fs)) \in Nat /\ Opened(stack) \in Nat
  BY StaleFinite DEF IInv, StackInv, Opened, Chain
<1>4. StreamsInv'
  BY <1>2, <1>3, LimitAssumption DEF IInv, StreamsInv
<1>5. QED
  BY <1>1, <1>4

\* No function runs.
LEMMA IdleStep ==
  ASSUME IInv, stack = <<>>, UNCHANGED <<stack, open, removed, refused>>
  PROVE  StackInv' /\ StreamsInv'
<1>1. Stale(stack, fs) = {} /\ Stale(stack, fs)' = {}
  BY DEF Stale
<1>2. QED
  BY <1>1 DEF IInv, StackInv, StreamsInv, Chain, Opened

\* A command starts with a frame that has its directory to open yet.
LEMMA StartStep ==
  ASSUME IInv, stack = <<>>, UNCHANGED <<open, removed, refused>>,
         NEW f, FrameInv(f), f.phase = "open", f.dir = Here, stack' = <<f>>
  PROVE  StackInv' /\ StreamsInv'
<1>1. f \in Frames /\ Pending(f) = {}
  BY DEF FrameInv
<1>2. /\ <<f>> \in Seq(Frames) /\ Len(<<f>>) = 1 /\ <<f>>[1] = f /\ <<f>> # <<>>
      /\ Len(<<>>) = 0
  BY <1>1
<1>3. Chain(<<f>>)
  BY <1>2 DEF Chain
<1>4. StackInv'
  BY <1>2, <1>3 DEF StackInv
<1>5. Stale(stack, fs) = {} /\ Stale(stack, fs)' = {}
  BY <1>1, <1>2 DEF Stale
<1>6. Opened(stack) = 0 /\ Opened(stack)' = 0
  BY <1>2 DEF Opened
<1>7. QED
  BY <1>4, <1>5, <1>6 DEF IInv, StreamsInv

\* A loop goes on, with no more to do than it had.
LEMMA LoopStep ==
  ASSUME IInv, stack # <<>>, top.phase # "open", UNCHANGED <<fs, open, call, removed, refused>>,
         NEW f, FrameInv(f), f.phase # "open", f.dir = top.dir,
         Pending(f) \subseteq Pending(top), Become(f)
  PROVE  StackInv' /\ StreamsInv'
<1>1. Chain(stack) /\ top = stack[1] /\ Len(stack) \in Nat /\ Len(stack) >= 1
  BY TopType DEF IInv, StackInv
<1>2. /\ Chain(stack') /\ Len(stack') = Len(stack) /\ stack' # <<>> /\ stack'[1] = f
      /\ \A i \in 2 .. Len(stack') : stack'[i] = stack[i]
  BY <1>1, ChainHead DEF Become
<1>3. StackInv'
  BY <1>1, <1>2 DEF IInv, StackInv, Listing
<1>4. Opened(stack') = Opened(stack)
  BY <1>1, <1>2 DEF Opened
<1>5. Cardinality(Stale(stack', fs)) <= Cardinality(Stale(stack, fs))
  <2>1. ASSUME NEW i \in 1 .. Len(stack'), ~(Pending(stack'[i]) \subseteq fs \cup Dots)
        PROVE  /\ stack[i].dir = stack'[i].dir /\ i \in 1 .. Len(stack)
               /\ ~(Pending(stack[i]) \subseteq fs \cup Dots)
    BY <1>1, <1>2, <2>1
  <2>2. QED
    BY <1>1, <1>2, <2>1, StaleShrinks
<1>6. Cardinality(Stale(stack, fs)) \in Nat /\ Cardinality(Stale(stack', fs)) \in Nat
  BY <1>1, <1>2, StaleFinite
<1>7. Opened(stack) \in Nat
  BY <1>1 DEF Opened
<1>8. StreamsInv'
  BY <1>4, <1>5, <1>6, <1>7 DEF IInv, StreamsInv
<1>9. QED
  BY <1>3, <1>8

\* A function returns: before it has opened its directory, with an entry gone or
\* refused and its stream open, or at the end, having closed it.
LEMMA ReturnStep ==
  ASSUME IInv, stack # <<>>, Return, UNCHANGED <<fs, call, removed>>,
         refused' \in {refused, refused + 1},
         \/ top.phase = "open" /\ UNCHANGED open
         \/ top.phase # "open" /\ UNCHANGED open /\ ~(Pending(top) \subseteq fs \cup Dots)
         \/ top.phase # "open" /\ UNCHANGED open /\ refused' = refused + 1
         \/ top.phase # "open" /\ open' = open - 1
  PROVE  StackInv' /\ StreamsInv'
<1>1. Chain(stack) /\ top = stack[1] /\ Len(stack) \in Nat /\ Len(stack) >= 1
  BY TopType DEF IInv, StackInv
<1>2. Chain(stack') /\ Len(stack') = Len(stack) - 1 /\ Opened(stack') = Len(stack) - 1
  BY ChainTail, <1>1 DEF Return
<1>3. \A i \in 1 .. Len(stack') : stack'[i] = stack[i + 1] /\ i + 1 \in 1 .. Len(stack)
  <2>1. stack \in Seq(Frames)
    BY <1>1 DEF Chain
  <2>2. QED
    BY <1>1, <1>2, <2>1 DEF Return
<1>4. StackInv'
  BY <1>1, <1>2, <1>3 DEF IInv, StackInv, Listing
<1> DEFINE n == Cardinality(Stale(stack, fs))
           m == Cardinality(Stale(stack', fs))
<1>5. n \in Nat /\ m \in Nat
  BY <1>1, <1>2, StaleFinite
<1>6. m <= n
  BY <1>1, <1>2, <1>3, StaleShrinks
<1>7. ~(Pending(top) \subseteq fs \cup Dots) => m + 1 <= n
  BY <1>1, StaleReturn DEF Return
<1>8. Opened(stack) = IF top.phase = "open" THEN Len(stack) - 1 ELSE Len(stack)
  BY <1>1 DEF Opened
<1>9. /\ open \in 0 .. MaxOpen /\ removed \in Nat /\ refused \in Nat
      /\ Opened(stack) <= open /\ open + n <= Opened(stack) + removed + refused
  BY DEF IInv, StreamsInv
<1>10. /\ open' \in 0 .. MaxOpen /\ removed' \in Nat /\ refused' \in Nat
       /\ Opened(stack') <= open' /\ open' + m <= Opened(stack') + removed' + refused'
  <2> HIDE DEF n, m
  <2>1. MaxOpen \in Nat
    BY LimitAssumption
  <2>2. CASE top.phase = "open" /\ UNCHANGED open
    BY <1>1, <1>2, <1>5, <1>6, <1>8, <1>9, <2>1, <2>2
  <2>3. CASE top.phase # "open" /\ UNCHANGED open /\ ~(Pending(top) \subseteq fs \cup Dots)
    BY <1>1, <1>2, <1>5, <1>7, <1>8, <1>9, <2>1, <2>3
  <2>4. CASE top.phase # "open" /\ UNCHANGED open /\ refused' = refused + 1
    BY <1>1, <1>2, <1>5, <1>6, <1>8, <1>9, <2>1, <2>4
  <2>5. CASE top.phase # "open" /\ open' = open - 1
    BY <1>1, <1>2, <1>5, <1>6, <1>8, <1>9, <2>1, <2>5
  <2>6. QED
    BY <2>2, <2>3, <2>4, <2>5
<1>11. StreamsInv'
  BY <1>10 DEF StreamsInv
<1>12. QED
  BY <1>4, <1>11
Injective(s) == \A i, j \in 1 .. Len(s) : s[i] = s[j] => i = j

\* An order of a finite set has each of its elements, once.
LEMMA OrdersIs ==
  ASSUME NEW S, IsFiniteSet(S), NEW s \in SetToSeqs(S)
  PROVE  s \in Seq(S) /\ Injective(s) /\ Range(s) = S /\ Len(s) = Cardinality(S)
<1> DEFINE n == Cardinality(S)
           D == 1 .. n
<1>1. n \in Nat
  BY FS_CardinalityType
<1>2. s \in [D -> S] /\ \A i, j \in D : i # j => s[i] # s[j]
  BY DEF SetToSeqs
<1>3. s \in Seq(S) /\ Len(s) = n /\ Injective(s)
  BY <1>1, <1>2 DEF Injective
<1>4. s \in Injection(D, S)
  BY <1>2 DEF Injection, IsInjective
<1>5. Cardinality(D) = Cardinality(S)
  BY <1>1, FS_Interval
<1> HIDE DEF D
<1>6. s \in Surjection(D, S)
  BY <1>4, <1>5, FS_Injection
<1>7. Range(s) = S
  BY <1>1, <1>2, <1>3, <1>6 DEF Surjection, Range, D
<1>8. QED
  BY <1>3, <1>7

\* Of a sorted directory, list takes the first entries, as many as it is asked for.
LEMMA ScannedIs ==
  ASSUME call \in Calls, NEW T, NEW s \in Seq(T)
  PROVE  \E k \in 0 .. Len(s) :
           /\ Scanned(s) = SubSeq(s, 1, k)
           /\ IF call.fn = "SORTED_LIST_NORMAL"
              THEN k = call.max \/ (k = Len(s) /\ k <= call.max)
              ELSE k = Len(s)
<1>1. Len(s) \in Nat /\ call.max \in Nat
  <2>1. Len(s) \in Nat
    OBVIOUS
  <2>2. call.max \in Nat
    BY DEF Calls
  <2>3. QED
    BY <2>1, <2>2
<1>2. CASE call.fn = "SORTED_LIST_NORMAL"
  <2> DEFINE k == Min({call.max, Len(s)})
  <2>1. k \in {call.max, Len(s)} /\ \A j \in {call.max, Len(s)} : k <= j
    <3>1. {call.max, Len(s)} \in SUBSET Nat /\ {call.max, Len(s)} # {}
      BY <1>1
    <3>2. QED
      BY <3>1, MinLeast
  <2>2. Scanned(s) = SubSeq(s, 1, k)
    BY <1>2 DEF Scanned, Room
  <2> HIDE DEF k
  <2>3. QED
    BY <1>1, <1>2, <2>1, <2>2
<1>3. CASE call.fn # "SORTED_LIST_NORMAL"
  <2>1. Scanned(s) = s
    BY <1>3 DEF Scanned
  <2>2. s = SubSeq(s, 1, Len(s)) /\ Len(s) \in 0 .. Len(s)
    BY <1>1
  <2> DEFINE k == Len(s)
  <2>3. Scanned(s) = SubSeq(s, 1, k) /\ k \in 0 .. Len(s) /\ k = Len(s)
    BY <2>1, <2>2
  <2> HIDE DEF k
  <2>4. QED
    BY <1>3, <2>3
<1>4. QED
  BY <1>2, <1>3

\* Whatever list takes, they are entries of the directory.
LEMMA ScannedType ==
  ASSUME call \in Calls, NEW T, NEW s \in Seq(T)
  PROVE  Scanned(s) \in Seq(T)
<1>1. PICK k \in 0 .. Len(s) : Scanned(s) = SubSeq(s, 1, k)
  BY ScannedIs
<1>2. QED
  BY <1>1

\* A directory is opened: its frame has entries that exist, all of them its own.
LEMMA OpenDirStep ==
  ASSUME IInv, OpenDir
  PROVE  StackInv' /\ StreamsInv'
<1>1. /\ stack # <<>> /\ top.phase = "open"
      /\ Chain(stack) /\ top = stack[1] /\ FrameInv(top) /\ top \in Frames
      /\ Len(stack) \in Nat /\ Len(stack) >= 1
  BY TopType DEF IInv, StackInv, OpenDir, Running
<1>2. Pending(top) = {} /\ top.left = {} /\ top.table = <<>>
  <2>1. top.table \in Seq(Entry) /\ Pending(top) = {}
    BY <1>1 DEF Frames, FrameInv
  <2>2. Range(top.table) = {} /\ top.left = {}
    BY <2>1 DEF Pending
  <2>3. top.table = <<>>
    <3> DEFINE table == top.table
    <3>1. table \in Seq(Entry) /\ {table[i] : i \in DOMAIN table} = {}
      BY <2>1, <2>2 DEF Range
    <3> HIDE DEF table
    <3>2. Len(table) = 0
      BY <3>1
    <3>3. table = <<>>
      BY <3>1, <3>2
    <3>4. QED
      BY <3>3 DEF table
  <2>4. QED
    BY <2>1, <2>2, <2>3
<1> DEFINE entries == IF Listing THEN Entries(Here) \cup Dots ELSE Entries(top.dir) \ Hidden
<1>3. /\ entries \subseteq Entry /\ entries \subseteq fs \cup Dots /\ IsFiniteSet(entries)
      /\ \A p \in entries : p \in Paths => Parent[p] = top.dir
  <2>1. fs \subseteq Paths /\ IsFiniteSet(fs) /\ (Listing => top.dir = Here)
    BY <1>1 DEF IInv, DataInv, StackInv
  <2>2. entries \subseteq Entry /\ entries \subseteq fs \cup Dots
    BY <2>1 DEF Entries, Entry
  <2>3. Dots \cap Paths = {}
    BY PathsAssumption
  <2>4. \A p \in entries : p \in Paths => Parent[p] = top.dir
    BY <2>1, <2>3 DEF Entries
  <2>5. IsFiniteSet(Dots)
    <3>1. Dots = {Here} \cup {".."}
      BY DEF Dots
    <3>2. IsFiniteSet({Here})
      BY FS_Singleton
    <3>3. QED
      BY <3>1, <3>2, FS_AddElement
  <2>6. IsFiniteSet(fs \cup Dots)
    BY <2>1, <2>5, FS_Union
  <2>7. QED
    BY <2>2, <2>4, <2>6, FS_Subset
<1>4. PICK f : /\ f \in Frames /\ f.phase # "open" /\ f.dir = top.dir /\ Pending(f) \subseteq entries
               /\ Len(f.table) = 0 \/ f.phase = "print"
               /\ Become(f)
  <2>1. CASE Scans
    <3>1. PICK s \in SetToSeqs(entries) :
            Become([top EXCEPT !.phase = "print", !.table = Scanned(s)])
      BY <2>1 DEF OpenDir
    <3> HIDE DEF entries
    <3>2. s \in Seq(entries) /\ Range(s) \subseteq entries
      BY <1>3, OrdersIs
    <3> DEFINE table == Scanned(s)
    <3>3. table \in Seq(entries)
      BY <3>2, ScannedType DEF IInv, DataInv
    <3>4. Range(table) \subseteq entries
      BY <3>3 DEF Range
    <3>5. table \in Seq(Entry)
      BY <1>3, <3>3
    <3> HIDE DEF table
    <3> DEFINE f == [top EXCEPT !.phase = "print", !.table = table]
    <3>6. f \in Frames
      BY <1>1, <3>5 DEF Frames
    <3>7. f.phase = "print" /\ f.dir = top.dir /\ f.left = {} /\ f.table = table
      BY <1>1, <1>2 DEF Frames
    <3>8. Become(f)
      BY <3>1 DEF table
    <3> HIDE DEF f
    <3>9. Pending(f) \subseteq entries
      BY <3>4, <3>7 DEF Pending
    <3>10. QED
      BY <3>6, <3>7, <3>8, <3>9
  <2>2. CASE ~Scans
    <3> DEFINE f == [top EXCEPT !.phase = "read", !.left = entries]
    <3>1. Become(f)
      BY <2>2 DEF OpenDir
    <3> HIDE DEF entries
    <3>2. f \in Frames /\ f.phase = "read" /\ f.dir = top.dir /\ f.left = entries /\ f.table = <<>>
      BY <1>1, <1>2, <1>3 DEF Frames
    <3> HIDE DEF f
    <3>3. Pending(f) \subseteq entries /\ Len(f.table) = 0
      BY <3>2 DEF Pending, Range
    <3>4. QED
      BY <3>1, <3>2, <3>3
  <2>3. QED
    BY <2>1, <2>2
<1> HIDE DEF entries
<1>5. FrameInv(f)
  <2>1. STAT_BUFFER_SIZE \in Nat
    BY LimitAssumption
  <2>2. f.phase = "read" => Len(f.table) <= STAT_BUFFER_SIZE
    BY <1>4, <2>1
  <2>3. QED
    BY <1>3, <1>4, <2>2 DEF FrameInv
<1>6. /\ Chain(stack') /\ Len(stack') = Len(stack) /\ stack' # <<>> /\ stack'[1] = f
      /\ \A i \in 2 .. Len(stack') : stack'[i] = stack[i]
  BY <1>1, <1>4, <1>5, ChainHead DEF Become
<1>7. UNCHANGED <<fs, call, removed, refused>> /\ open' = open + 1 /\ open < MaxOpen
  <2>1. MaxOpen \in Nat /\ open \in Nat
    BY LimitAssumption DEF IInv, StreamsInv
  <2>2. open + 0 < MaxOpen \/ open + 1 < MaxOpen
    BY DEF OpenDir, CanOpenDir
  <2>3. open < MaxOpen
    BY <2>1, <2>2
  <2>4. QED
    BY <2>3 DEF OpenDir, others
<1>8. StackInv'
  BY <1>1, <1>4, <1>6, <1>7 DEF IInv, StackInv, Listing
<1>9. Opened(stack') = Opened(stack) + 1 /\ Opened(stack) \in Nat
  BY <1>1, <1>4, <1>6 DEF Opened
<1>10. Cardinality(Stale(stack', fs)) <= Cardinality(Stale(stack, fs))
  <2>1. ASSUME NEW i \in 1 .. Len(stack'), ~(Pending(stack'[i]) \subseteq fs \cup Dots)
        PROVE  /\ stack[i].dir = stack'[i].dir /\ i \in 1 .. Len(stack)
               /\ ~(Pending(stack[i]) \subseteq fs \cup Dots)
    <3>1. i # 1
      BY <1>3, <1>4, <1>6, <2>1
    <3>2. QED
      BY <1>1, <1>6, <2>1, <3>1
  <2>2. QED
    BY <1>1, <1>6, <2>1, StaleShrinks
<1>11. Cardinality(Stale(stack, fs)) \in Nat /\ Cardinality(Stale(stack', fs)) \in Nat
  BY <1>1, <1>6, StaleFinite
<1>12. StreamsInv'
  BY <1>7, <1>9, <1>10, <1>11, LimitAssumption DEF IInv, StreamsInv
<1>13. QED
  BY <1>8, <1>12
\* An entry goes into the table, which has room for it.
LEMMA CollectStep ==
  ASSUME IInv, Collect
  PROVE  StackInv' /\ StreamsInv'
<1>1. PICK p \in NextEntries : CanStat(p) /\ Become([Consume(p) EXCEPT !.table = Append(@, p)])
  BY DEF Collect
<1>2. Chain(stack) /\ stack # <<>> /\ top.phase = "read"
  BY DEF IInv, StackInv, Collect, Collecting, Running
<1>3. p \in Pending(top) /\ p \in Entry /\ top \in Frames /\ FrameInv(top)
  BY <1>2, NextPending, TopType
<1> DEFINE f == Consume(p)
           g == [f EXCEPT !.table = Append(f.table, p)]
<1>4. /\ FrameInv(f) /\ f.dir = top.dir /\ f.phase = "read"
      /\ Pending(f) \subseteq Pending(top) /\ f.table = top.table
  BY <1>2, ConsumeType
<1>5. Become(g)
  BY <1>1
<1> HIDE DEF f
<1>6. f \in Frames /\ f.table \in Seq(Entry) /\ Len(f.table) < STAT_BUFFER_SIZE
  <2>1. f \in Frames /\ f.table \in Seq(Entry)
    BY <1>4 DEF FrameInv, Frames
  <2>2. ~(Len(f.table) >= STAT_BUFFER_SIZE)
    BY <1>4 DEF Collect, Full
  <2>3. QED
    BY <2>1, <2>2, LimitAssumption
<1>7. /\ g \in Frames /\ g.dir = top.dir /\ g.phase = "read" /\ g.left = f.left
      /\ g.table = Append(f.table, p) /\ Len(g.table) <= STAT_BUFFER_SIZE
  <2> DEFINE table == Append(f.table, p)
  <2>1. table \in Seq(Entry) /\ Len(table) = Len(f.table) + 1 /\ Len(f.table) \in Nat
    BY <1>3, <1>6
  <2>2. Len(table) <= STAT_BUFFER_SIZE
    BY <1>6, <2>1, LimitAssumption
  <2> HIDE DEF table
  <2>3. g = [f EXCEPT !.table = table]
    BY DEF table
  <2>4. /\ g \in Frames /\ g.dir = f.dir /\ g.phase = f.phase /\ g.left = f.left /\ g.table = table
    BY <1>6, <2>1, <2>3 DEF Frames
  <2>5. QED
    BY <1>4, <2>2, <2>4 DEF table
<1>8. Pending(g) \subseteq Pending(top)
  <2>1. Range(g.table) \subseteq Range(f.table) \cup {p}
    BY <1>6, <1>7 DEF Range
  <2>2. QED
    BY <1>3, <1>4, <1>7, <2>1 DEF Pending
<1> HIDE DEF g
<1>9. FrameInv(g)
  BY <1>3, <1>7, <1>8 DEF FrameInv
<1>10. UNCHANGED <<fs, open, call, removed, refused>>
  BY DEF Collect, others
<1>11. QED
  BY <1>2, <1>5, <1>7, <1>8, <1>9, <1>10, LoopStep

\* The table is sorted, and becomes what is to be printed.
LEMMA SortStep ==
  ASSUME IInv, Sort
  PROVE  StackInv' /\ StreamsInv'
<1>1. PICK s \in SetToSeqs(Range(top.table)) : Become([top EXCEPT !.phase = "print", !.table = s])
  BY DEF Sort
<1>2. Chain(stack) /\ stack # <<>> /\ top.phase = "read"
  BY DEF IInv, StackInv, Sort, Collecting, Running
<1>3. top \in Frames /\ FrameInv(top) /\ top.table \in Seq(Entry)
  BY <1>2, TopType DEF Frames
<1>4. IsFiniteSet(Range(top.table))
  <2> DEFINE table == top.table
             n == Len(table)
             g == [i \in 1 .. n |-> table[i]]
  <2>1. n \in Nat /\ DOMAIN table = 1 .. n
    BY <1>3
  <2>2. g \in Surjection(1 .. n, Range(table))
    BY <2>1 DEF Surjection, Range
  <2>3. IsFiniteSet(1 .. n)
    BY <2>1, FS_Interval
  <2> HIDE DEF n, table, g
  <2>4. IsFiniteSet(Range(table))
    BY <2>2, <2>3, FS_Surjection
  <2>5. QED
    BY <2>4 DEF table
<1>5. s \in Seq(Range(top.table)) /\ Range(s) \subseteq Range(top.table)
  BY <1>4, OrdersIs
<1>6. s \in Seq(Entry)
  <2>1. Range(top.table) \subseteq Entry
    BY <1>3 DEF Range
  <2>2. QED
    BY <1>5, <2>1
<1> DEFINE g == [top EXCEPT !.phase = "print", !.table = s]
<1>7. g \in Frames /\ g.dir = top.dir /\ g.phase = "print" /\ g.left = top.left /\ g.table = s
  BY <1>3, <1>6 DEF Frames
<1>8. Become(g)
  BY <1>1
<1> HIDE DEF g
<1>9. Pending(g) \subseteq Pending(top)
  BY <1>5, <1>7 DEF Pending
<1>10. FrameInv(g)
  BY <1>3, <1>7, <1>9 DEF FrameInv
<1>11. UNCHANGED <<fs, open, call, removed, refused>>
  BY DEF Sort, others
<1>12. QED
  BY <1>2, <1>7, <1>8, <1>9, <1>10, <1>11, LoopStep

\* The frame of a recursive call.
LEMMA CalleeType ==
  ASSUME IInv, NEW p \in NextEntries
  PROVE  \/ Callee(p) = <<>>
         \/ ~Listing /\ \E f : /\ Callee(p) = <<f>> /\ FrameInv(f) /\ f.phase = "open"
                              /\ f.dir \in Dirs /\ Parent[f.dir] = top.dir /\ Pending(f) = {}
<1>1. Chain(stack) /\ stack # <<>> /\ (p \in Paths => Parent[p] = top.dir)
  BY NextPending DEF IInv, StackInv
<1>2. top \in Frames
  BY <1>1, TopType
<1>3. SUFFICES ASSUME p \in Dirs, ~Listing, Callee(p) # <<>>
               PROVE  \E f : /\ Callee(p) = <<f>> /\ FrameInv(f) /\ f.phase = "open"
                             /\ f.dir \in Dirs /\ Parent[f.dir] = top.dir /\ Pending(f) = {}
  <2>1. p \notin Dirs \/ Listing => Callee(p) = <<>>
    BY DEF Callee
  <2>2. QED
    BY <2>1
<1>4. PICK f : /\ Callee(p) = <<f>>
               /\ \E fn \in {"findRecurseDirPrint", "recurseDirPrint", "treePrint", "treePrintSort"},
                     pad \in {0, top.pad + 1} : f = Frame(fn, p, pad)
  <2>1. CASE top.fn \in {"treePrint", "treePrintSort"}
    BY <1>3, <2>1 DEF Callee
  <2>2. CASE top.fn \notin {"treePrint", "treePrintSort"} /\ top.fn = "findRecurseDirPrint" /\ ~Prints(p)
    BY <1>3, <2>2 DEF Callee
  <2>3. CASE top.fn \notin {"treePrint", "treePrintSort"}
             /\ ~(top.fn = "findRecurseDirPrint" /\ ~Prints(p))
    BY <1>3, <2>3 DEF Callee
  <2>4. QED
    BY <2>1, <2>2, <2>3
<1>5. /\ f \in Frames /\ f.phase = "open" /\ f.dir = p /\ f.left = {} /\ f.table = <<>>
  <2>1. top.pad + 1 \in Nat
    BY <1>2 DEF Frames
  <2>2. <<>> \in Seq(Entry)
    OBVIOUS
  <2>3. QED
    BY <1>3, <1>4, <2>1, <2>2 DEF Frame, Frames
<1>6. Pending(f) = {}
  BY <1>5 DEF Pending, Range
<1>7. FrameInv(f)
  BY <1>5, <1>6 DEF FrameInv
<1>8. p \in Paths
  BY <1>3, PathsAssumption
<1>9. QED
  BY <1>1, <1>3, <1>4, <1>5, <1>6, <1>7, <1>8

\* An entry is printed, and its directory may get a frame of its own.
LEMMA PrintStep ==
  ASSUME IInv, PrintEntry
  PROVE  StackInv' /\ StreamsInv'
<1>1. PICK p \in NextEntries : stack' = Callee(p) \o <<Consume(p)>> \o Tail(stack)
  BY DEF PrintEntry
<1>2. Chain(stack)
  BY DEF IInv, StackInv
<1>3. /\ stack # <<>> /\ top.phase \in {"read", "print"}
      /\ top = stack[1] /\ Len(stack) \in Nat /\ Len(stack) >= 1
  BY <1>2, NextPending, TopType
<1> DEFINE f == Consume(p)
           s == <<f>> \o Tail(stack)
<1>4. FrameInv(f) /\ f.dir = top.dir /\ f.phase = top.phase /\ Pending(f) \subseteq Pending(top)
  BY <1>2, ConsumeType
<1>5. UNCHANGED <<fs, open, call, removed, refused>>
  BY DEF PrintEntry, others
<1>6. CASE Callee(p) = <<>>
  <2>1. Become(f)
    <3>1. f \in Frames
      BY <1>4 DEF FrameInv
    <3> HIDE DEF f
    <3>2. <<>> \o <<f>> = <<f>>
      BY <3>1
    <3>3. stack' = <<f>> \o Tail(stack)
      BY <1>1, <1>6, <3>2 DEF f
    <3>4. QED
      BY <3>3 DEF Become
  <2> HIDE DEF f
  <2>2. QED
    BY <1>3, <1>4, <1>5, <2>1, LoopStep
<1>7. ASSUME ~Listing,
             NEW c, Callee(p) = <<c>>, FrameInv(c), c.phase = "open", c.dir \in Dirs,
             Parent[c.dir] = top.dir, Pending(c) = {}
      PROVE  StackInv' /\ StreamsInv'
  <2> HIDE DEF f
  <2>1. Chain(s) /\ Len(s) = Len(stack) /\ s # <<>> /\ s[1] = f /\ \A i \in 2 .. Len(s) : s[i] = stack[i]
    BY <1>2, <1>3, <1>4, ChainHead
  <2>2. stack' = <<c>> \o s
    <3>1. f \in Frames /\ c \in Frames /\ stack \in Seq(Frames)
      BY <1>2, <1>4, <1>7 DEF FrameInv, Chain
    <3>2. Tail(stack) \in Seq(Frames)
      BY <1>3, <3>1
    <3> DEFINE rest == Tail(stack)
    <3>3. stack' = <<c>> \o <<f>> \o rest
      BY <1>1, <1>7 DEF f
    <3> HIDE DEF rest
    <3>4. <<c>> \o <<f>> \o rest = <<c>> \o (<<f>> \o rest)
      BY <3>1, <3>2 DEF rest
    <3>5. QED
      BY <3>3, <3>4 DEF rest
  <2> HIDE DEF s
  <2>3. /\ Chain(stack') /\ Len(stack') = Len(s) + 1 /\ stack' # <<>> /\ stack'[1] = c
        /\ \A i \in 2 .. Len(stack') : stack'[i] = s[i - 1]
    BY <1>3, <1>4, <1>7, <2>1, <2>2, ChainPush
  <2>4. StackInv'
    BY <1>5, <1>7, <2>3 DEF StackInv, Listing
  <2>5. Opened(stack') = Opened(stack) /\ Opened(stack) \in Nat
    BY <1>3, <1>7, <2>1, <2>3 DEF Opened
  <2>6. Cardinality(Stale(stack', fs)) <= Cardinality(Stale(stack, fs))
    <3>1. ASSUME NEW i \in 1 .. Len(stack'), ~(Pending(stack'[i]) \subseteq fs \cup Dots)
          PROVE  /\ i - 1 \in 1 .. Len(stack) /\ stack[i - 1].dir = stack'[i].dir
                 /\ ~(Pending(stack[i - 1]) \subseteq fs \cup Dots)
      <4>1. i # 1
        BY <1>7, <2>3, <3>1
      <4>2. i - 1 \in 1 .. Len(stack) /\ stack'[i] = s[i - 1]
        BY <1>3, <2>1, <2>3, <4>1
      <4>3. CASE i = 2
        BY <1>3, <1>4, <2>1, <3>1, <4>2, <4>3
      <4>4. CASE i # 2
        <5>1. i - 1 \in 2 .. Len(s)
          BY <1>3, <2>1, <4>1, <4>2, <4>4
        <5>2. QED
          BY <2>1, <3>1, <4>2, <5>1
      <4>5. QED
        BY <4>3, <4>4
    <3>2. QED
      BY <1>2, <2>3, <3>1, StaleShrinks
  <2>7. Cardinality(Stale(stack, fs)) \in Nat /\ Cardinality(Stale(stack', fs)) \in Nat
    BY <1>2, <2>3, StaleFinite
  <2>8. StreamsInv'
    BY <1>5, <2>5, <2>6, <2>7 DEF IInv, StreamsInv
  <2>9. QED
    BY <2>4, <2>8
<1>8. QED
  BY <1>6, <1>7, CalleeType
\* Others add an entry: nothing becomes stale.
LEMMA OthersAddStep ==
  ASSUME IInv, OthersAdd
  PROVE  StackInv' /\ StreamsInv'
<1>1. fs \subseteq fs' /\ UNCHANGED <<stack, open, call, removed, refused>>
  BY DEF OthersAdd
<1>2. Chain(stack)
  BY DEF IInv, StackInv
<1>3. Cardinality(Stale(stack, fs')) <= Cardinality(Stale(stack, fs))
  <2>1. \A i \in 1 .. Len(stack) : ~(Pending(stack[i]) \subseteq fs' \cup Dots) =>
          ~(Pending(stack[i]) \subseteq fs \cup Dots)
    BY <1>1
  <2>2. QED
    BY <1>2, <2>1, StaleShrinks
<1>4. Cardinality(Stale(stack, fs)) \in Nat /\ Cardinality(Stale(stack, fs')) \in Nat
  BY <1>2, StaleFinite
<1>5. Opened(stack) \in Nat
  BY <1>2 DEF Opened, Chain
<1>6. StreamsInv'
  BY <1>1, <1>3, <1>4, <1>5 DEF IInv, StreamsInv
<1>7. QED
  BY <1>1, <1>6 DEF IInv, StackInv, Listing

\* Others remove an entry: only its own directory can become stale.
LEMMA OthersRemoveStep ==
  ASSUME IInv, OthersRemove
  PROVE  StackInv' /\ StreamsInv'
<1>1. PICK p \in fs : fs' = fs \ {p}
  BY DEF OthersRemove
<1>2. UNCHANGED <<stack, open, call, refused>> /\ removed' = removed + 1
  BY DEF OthersRemove
<1>3. Chain(stack) /\ p \in Paths
  BY DEF IInv, StackInv, DataInv
<1>4. Stale(stack, fs') \subseteq Stale(stack, fs) \cup {Parent[p]}
  <2>1. ASSUME NEW i \in 1 .. Len(stack), ~(Pending(stack[i]) \subseteq fs' \cup Dots)
        PROVE  stack[i].dir = Parent[p] \/ ~(Pending(stack[i]) \subseteq fs \cup Dots)
    <3>1. FrameInv(stack[i])
      BY <1>3 DEF Chain
    <3>2. CASE p \in Pending(stack[i])
      BY <1>3, <3>1, <3>2 DEF FrameInv
    <3>3. CASE p \notin Pending(stack[i])
      BY <1>1, <2>1, <3>3
    <3>4. QED
      BY <3>2, <3>3
  <2>2. QED
    BY <2>1 DEF Stale
<1> DEFINE S == Stale(stack, fs)
           T == Stale(stack, fs')
<1>5. IsFiniteSet(S) /\ Cardinality(S) \in Nat /\ Cardinality(T) \in Nat
  BY <1>3, StaleFinite
<1> HIDE DEF S, T
<1>6. /\ IsFiniteSet(S \cup {Parent[p]}) /\ Cardinality(S \cup {Parent[p]}) \in Nat
      /\ Cardinality(S \cup {Parent[p]}) <= Cardinality(S) + 1
  BY <1>5, FS_AddElement
<1>7. T \subseteq S \cup {Parent[p]}
  BY <1>4 DEF S, T
<1>8. Cardinality(T) <= Cardinality(S) + 1
  <2>1. Cardinality(T) <= Cardinality(S \cup {Parent[p]})
    BY <1>6, <1>7, FS_Subset
  <2>2. QED
    BY <1>5, <1>6, <2>1
<1>9. Opened(stack) \in Nat
  BY <1>3 DEF Opened, Chain
<1>10. StreamsInv'
  <2>1. /\ open \in 0 .. MaxOpen /\ removed \in Nat /\ refused \in Nat /\ MaxOpen \in Nat
        /\ Opened(stack) <= open /\ open + Cardinality(S) <= Opened(stack) + removed + refused
    BY LimitAssumption DEF IInv, StreamsInv, S
  <2>2. open + Cardinality(T) <= Opened(stack) + (removed + 1) + refused
    BY <1>5, <1>8, <1>9, <2>1
  <2>3. stack' = stack /\ Stale(stack, fs)' = T
    BY <1>2 DEF T
  <2>4. QED
    BY <1>2, <2>1, <2>2, <2>3 DEF StreamsInv
<1>11. QED
  BY <1>2, <1>10 DEF IInv, StackInv, Listing

\* The frame a command starts with.
LEMMA FirstFrame ==
  ASSUME NEW fn \in {"list", "findRecurseDirPrint", "treePrint", "treePrintSort"}
  PROVE  LET f == Frame(fn, Here, 0)
         IN FrameInv(f) /\ f.phase = "open" /\ f.dir = Here
<1> DEFINE f == Frame(fn, Here, 0)
<1>1. /\ f \in Frames /\ f.phase = "open" /\ f.dir = Here /\ f.left = {} /\ f.table = <<>>
  <2>1. <<>> \in Seq(Entry)
    OBVIOUS
  <2>2. QED
    BY <2>1 DEF Frame, Frames
<1> HIDE DEF f
<1>2. Pending(f) = {}
  BY <1>1 DEF Pending, Range
<1>3. FrameInv(f)
  BY <1>1, <1>2 DEF FrameInv
<1>4. QED
  BY <1>1, <1>3 DEF f

\* A command is taken up, or found invalid.
LEMMA TakeUpStep ==
  ASSUME IInv, stack = <<>>, NEW c,
         NEW fn \in {"list", "findRecurseDirPrint", "treePrint", "treePrintSort"}, Start(c, fn)
  PROVE  StackInv' /\ StreamsInv'
<1>1. UNCHANGED <<open, removed, refused>>
  BY DEF Start, others
<1>2. CASE c.fn = "invalid"
  BY <1>1, <1>2, IdleStep DEF Start
<1>3. CASE c.fn # "invalid"
  <2> DEFINE f == Frame(fn, Here, 0)
  <2>1. FrameInv(f) /\ f.phase = "open" /\ f.dir = Here
    BY FirstFrame
  <2>2. stack' = <<f>>
    BY <1>3 DEF Start
  <2> HIDE DEF f
  <2>3. QED
    BY <1>1, <2>1, <2>2, StartStep
<1>4. QED
  BY <1>2, <1>3
\* Every step keeps the stack in order, and the streams accounted for.
LEMMA StackStep ==
  ASSUME IInv, [Next]_vars
  PROVE  StackInv' /\ StreamsInv'
<1>1. CASE UNCHANGED vars
  BY <1>1, KeepStep DEF vars
<1>2. CASE NextLine
  <2>1. stack = <<>> /\ UNCHANGED <<stack, open, removed, refused>>
    BY <1>2 DEF NextLine, IInv, ControlInv
  <2>2. QED
    BY <2>1, IdleStep
<1>3. CASE Skip
  BY <1>3, KeepStep DEF Skip, others
<1>4. CASE Create
  BY <1>4, IdleStep DEF Create, At, others
<1>5. CASE Delete
  BY <1>5, IdleStep DEF Delete, At, others
<1>6. CASE Display
  BY <1>6, KeepStep DEF Display, others
<1>7. CASE StartList
  BY <1>7, TakeUpStep DEF StartList, At
<1>8. CASE StartFind
  BY <1>8, TakeUpStep DEF StartFind, At
<1>9. CASE StartTree
  <2> DEFINE fn == IF treeCall.fn = "TREE_SORT" THEN "treePrintSort" ELSE "treePrint"
  <2>1. stack = <<>> /\ Start(treeCall, fn)
    BY <1>9 DEF StartTree, At
  <2>2. fn \in {"list", "findRecurseDirPrint", "treePrint", "treePrintSort"}
    OBVIOUS
  <2> HIDE DEF fn
  <2>3. QED
    BY <2>1, <2>2, TakeUpStep
<1>10. CASE OpenDir
  BY <1>10, OpenDirStep
<1>11. CASE OpenFails
  <2>1. stack # <<>> /\ top.phase = "open" /\ UNCHANGED <<fs, open, call, removed, refused>>
    BY <1>11 DEF OpenFails, Running, others
  <2>2. UNCHANGED stack \/ Return
    BY <1>11 DEF OpenFails
  <2>3. QED
    BY <2>1, <2>2, KeepStep, ReturnStep
<1>12. CASE StatFails
  <2>1. PICK p \in NextEntries :
          ~CanStat(p) /\ refused' = IF Exists(p) THEN refused + 1 ELSE refused
    BY <1>12 DEF StatFails
  <2>2. Chain(stack)
    BY DEF IInv, StackInv
  <2>3. /\ stack # <<>> /\ top.phase # "open"
        /\ refused' = refused + 1 \/ ~(Pending(top) \subseteq fs \cup Dots)
        /\ refused' \in {refused, refused + 1}
    BY <2>1, <2>2, NextPending DEF Exists
  <2>4. UNCHANGED <<fs, open, call, removed>> /\ (UNCHANGED stack \/ Return)
    BY <1>12 DEF StatFails
  <2>5. QED
    BY <2>3, <2>4, KeepStep, ReturnStep
<1>13. CASE Overrun
  BY <1>13, KeepStep DEF Overrun, others
<1>14. CASE Collect
  BY <1>14, CollectStep
<1>15. CASE Sort
  BY <1>15, SortStep
<1>16. CASE PrintEntry
  BY <1>16, PrintStep
<1>17. CASE EndDir
  <2>1. stack # <<>> /\ top.phase # "open" /\ UNCHANGED <<fs, call, removed, refused>> /\ Return
    BY <1>17 DEF EndDir, Running, others
  <2>2. open' = open - 1
    BY <1>17 DEF EndDir, Close
  <2>3. QED
    BY <2>1, <2>2, ReturnStep
<1>18. CASE OthersAdd
  BY <1>18, OthersAddStep
<1>19. CASE OthersRemove
  BY <1>19, OthersRemoveStep
<1>20. CASE Stopped
  BY <1>20, KeepStep DEF Stopped, vars
<1>21. QED
  BY <1>1, <1>2, <1>3, <1>4, <1>5, <1>6, <1>7, <1>8, <1>9, <1>10, <1>11, <1>12, <1>13,
     <1>14, <1>15, <1>16, <1>17, <1>18, <1>19, <1>20 DEF Next, Command

\* main is at its prompt only when no function runs.
LEMMA ControlStep ==
  ASSUME IInv, [Next]_vars
  PROVE  ControlInv'
<1> USE DEF IInv, ControlInv
<1>1. "create" \in Range(Blocks) /\ "prompt" \in Range(Blocks)
  <2>1. Blocks[1] = "create" /\ Blocks[7] = "prompt" /\ DOMAIN Blocks = 1 .. 7
    BY DEF Blocks
  <2>2. QED
    BY <2>1 DEF Range
<1>2. ASSUME pc \in Range(Blocks), pc # "prompt", stack = <<>>, stack' = <<>>, pc' = After(pc)
      PROVE  ControlInv'
  BY <1>2, AfterType
<1>3. ASSUME pc \in Range(Blocks), stack # <<>>, Return
      PROVE  ControlInv'
  <2>1. stack \in Seq(Frames)
    BY DEF StackInv, Chain
  <2>2. Len(stack) = 1 => Tail(stack) = <<>>
    <3> DEFINE rest == Tail(stack)
    <3>1. rest \in Seq(Frames) /\ Len(rest) = Len(stack) - 1 /\ Len(stack) \in Nat
      BY <1>3, <2>1
    <3> HIDE DEF rest
    <3>2. Len(stack) = 1 => rest = <<>>
      BY <3>1
    <3>3. QED
      BY <3>2 DEF rest
  <2>3. QED
    BY <1>3, <2>2, AfterType DEF Return
<1>4. ASSUME pc \in Range(Blocks), pc # "prompt", stack = <<>>, NEW c, NEW fn, Start(c, fn)
      PROVE  ControlInv'
  BY <1>1, <1>4 DEF Start
<1>5. CASE UNCHANGED vars
  BY <1>5 DEF vars
<1>6. CASE NextLine
  BY <1>1, <1>6 DEF NextLine, Blocks
<1>7. CASE Skip
  BY <1>2, <1>7 DEF Skip
<1>8. CASE Create
  BY <1>1, <1>2, <1>8 DEF Create, At, Blocks, Range
<1>9. CASE Delete
  BY <1>2, <1>9 DEF Delete, At
<1>10. CASE Display
  BY <1>2, <1>10 DEF Display, At
<1>11. CASE StartList
  BY <1>4, <1>11 DEF StartList, At
<1>12. CASE StartFind
  BY <1>4, <1>12 DEF StartFind, At
<1>13. CASE StartTree
  BY <1>4, <1>13 DEF StartTree, At
<1>14. CASE OpenDir
  BY <1>14 DEF OpenDir, Running
<1>15. CASE OpenFails
  BY <1>3, <1>15 DEF OpenFails, Running
<1>16. CASE StatFails
  <2>1. pc \in Range(Blocks) /\ stack # <<>>
    BY <1>16, NextPending DEF StatFails, StackInv
  <2>2. QED
    BY <1>3, <1>16, <2>1 DEF StatFails
<1>17. CASE Overrun
  BY <1>17 DEF Overrun
<1>18. CASE Collect
  BY <1>18 DEF Collect, Collecting, Running
<1>19. CASE Sort
  BY <1>19 DEF Sort, Collecting, Running
<1>20. CASE PrintEntry
  <2>1. pc # "prompt" /\ pc' = pc
    BY <1>20, NextPending DEF PrintEntry, StackInv
  <2>2. QED
    BY <2>1
<1>21. CASE EndDir
  BY <1>3, <1>21 DEF EndDir, Running
<1>22. CASE OthersAdd \/ OthersRemove
  BY <1>22 DEF OthersAdd, OthersRemove
<1>23. CASE Stopped
  BY <1>23 DEF Stopped, vars
<1>24. QED
  BY <1>5, <1>6, <1>7, <1>8, <1>9, <1>10, <1>11, <1>12, <1>13, <1>14, <1>15, <1>16,
     <1>17, <1>18, <1>19, <1>20, <1>21, <1>22, <1>23 DEF Next, Command

\* Every step keeps the types of the line, the call, the files and the output.
LEMMA DataStep ==
  ASSUME IInv, [Next]_vars
  PROVE  DataInv'
<1>1. line \in Seq(STRING) /\ call \in Calls /\ fs \subseteq Paths /\ IsFiniteSet(fs)
      /\ out \in Seq(Entry \X Nat)
  BY DEF IInv, DataInv
<1>2. noCall \in Calls /\ <<>> \in Seq(Entry \X Nat)
  BY DEF noCall, Calls, Functions, Orders
<1>3. ASSUME UNCHANGED <<line, call, fs, out>> PROVE DataInv'
  BY <1>1, <1>3 DEF DataInv
<1>4. CASE UNCHANGED vars
  BY <1>3, <1>4 DEF vars
<1>5. CASE NextLine
  BY <1>1, <1>2, <1>5, LineAssumption DEF NextLine, DataInv
<1>6. CASE Skip
  BY <1>3, <1>6 DEF Skip
<1>7. CASE Create
  <2> DEFINE new == {p \in {Argument("create")} : CanCreate(p)}
  <2>1. fs' = fs \cup new /\ UNCHANGED <<line, call, out>>
    BY <1>7 DEF Create
  <2>2. new \subseteq Paths
    BY DEF CanCreate
  <2>3. IsFiniteSet(new)
    BY FS_Singleton, FS_Subset
  <2> HIDE DEF new
  <2>4. fs' \subseteq Paths /\ IsFiniteSet(fs')
    BY <1>1, <2>1, <2>2, <2>3, FS_Union
  <2>5. QED
    BY <1>1, <2>1, <2>4 DEF DataInv
<1>8. CASE Delete
  <2>1. fs' \subseteq fs /\ UNCHANGED <<line, call, out>>
    BY <1>8 DEF Delete
  <2>2. IsFiniteSet(fs')
    BY <1>1, <2>1, FS_Subset
  <2>3. QED
    BY <1>1, <2>1, <2>2 DEF DataInv
<1>9. CASE Display
  BY <1>3, <1>9 DEF Display
<1>10. CASE StartList
  BY <1>1, <1>2, <1>10, ArgumentsType, ListCallType DEF StartList, Start, DataInv, ListCalls
<1>11. CASE StartFind
  <2> DEFINE c == [noCall EXCEPT !.fn = "FIND", !.word = Argument("find")]
  <2>1. Argument("find") \in STRING \cup {""}
    BY <1>1, ArgumentsType
  <2>2. c \in Calls
    BY <2>1 DEF noCall, Calls, Functions, Orders
  <2>3. call' = c /\ out' = <<>> /\ UNCHANGED <<line, fs>>
    BY <1>11 DEF StartFind, Start
  <2> HIDE DEF c
  <2>4. QED
    BY <1>1, <1>2, <2>2, <2>3 DEF DataInv
<1>12. CASE StartTree
  BY <1>1, <1>2, <1>12, ArgumentsType, TreeCallType DEF StartTree, Start, DataInv, TreeCalls
<1>13. CASE OpenDir
  BY <1>3, <1>13 DEF OpenDir
<1>14. CASE OpenFails
  BY <1>3, <1>14 DEF OpenFails
<1>15. CASE StatFails
  BY <1>3, <1>15 DEF StatFails
<1>16. CASE Overrun
  BY <1>3, <1>16 DEF Overrun
<1>17. CASE Collect
  BY <1>3, <1>17 DEF Collect
<1>18. CASE Sort
  BY <1>3, <1>18 DEF Sort
<1>19. CASE PrintEntry
  <2>1. PICK p \in NextEntries : out' = IF Prints(p) THEN Append(out, <<p, top.pad>>) ELSE out
    BY <1>19 DEF PrintEntry
  <2>2. p \in Entry /\ top \in Frames
    BY NextPending, TopType DEF IInv, StackInv
  <2>3. <<p, top.pad>> \in Entry \X Nat
    BY <2>2 DEF Frames
  <2>4. out' \in Seq(Entry \X Nat)
    <3> HIDE DEF Entry
    <3>1. Append(out, <<p, top.pad>>) \in Seq(Entry \X Nat)
      BY <1>1, <2>3
    <3>2. QED
      BY <1>1, <2>1, <3>1
  <2>5. QED
    BY <1>1, <1>19, <2>4 DEF PrintEntry, DataInv
<1>20. CASE EndDir
  BY <1>3, <1>20 DEF EndDir
<1>21. CASE OthersAdd
  <2>1. PICK p \in Paths : fs' = fs \cup {p}
    BY <1>21 DEF OthersAdd
  <2>2. fs' \subseteq Paths /\ IsFiniteSet(fs')
    BY <1>1, <2>1, FS_AddElement
  <2>3. QED
    BY <1>1, <1>21, <2>2 DEF OthersAdd, DataInv
<1>22. CASE OthersRemove
  <2>1. fs' \subseteq fs
    BY <1>22 DEF OthersRemove
  <2>2. IsFiniteSet(fs')
    BY <1>1, <2>1, FS_Subset
  <2>3. QED
    BY <1>1, <1>22, <2>1, <2>2 DEF OthersRemove, DataInv
<1>23. CASE Stopped
  BY <1>3, <1>23 DEF Stopped, vars
<1>24. QED
  BY <1>4, <1>5, <1>6, <1>7, <1>8, <1>9, <1>10, <1>11, <1>12, <1>13, <1>14, <1>15, <1>16,
     <1>17, <1>18, <1>19, <1>20, <1>21, <1>22, <1>23 DEF Next, Command

\* The initial states satisfy the invariant.
LEMMA InitInv ==
  ASSUME Init
  PROVE  IInv
<1>1. StackInv
  <2>1. stack = <<>> /\ stack \in Seq(Frames) /\ Len(stack) = 0
    BY DEF Init
  <2>2. QED
    BY <2>1 DEF StackInv, Chain
<1>2. ControlInv
  <2>1. Blocks[7] = "prompt" /\ DOMAIN Blocks = 1 .. 7
    BY DEF Blocks
  <2>2. QED
    BY <2>1 DEF Init, ControlInv, Range
<1>3. DataInv
  <2>1. line \in Seq(STRING)
    BY LineAssumption DEF Init
  <2>2. fs \subseteq Paths /\ IsFiniteSet(fs)
    BY PathsAssumption DEF Init
  <2>3. call \in Calls
    BY DEF Init, noCall, Calls, Functions, Orders
  <2>4. out \in Seq(Entry \X Nat)
    BY DEF Init
  <2>5. QED
    BY <2>1, <2>2, <2>3, <2>4 DEF DataInv
<1>4. StreamsInv
  <2>1. stack = <<>> /\ Len(stack) = 0
    BY DEF Init
  <2>2. Stale(stack, fs) = {}
    BY <2>1 DEF Stale
  <2>3. Cardinality({}) = 0
    BY FS_EmptySet
  <2>4. Opened(stack) = 0
    BY <2>1 DEF Opened
  <2>5. open = 0 /\ removed = 0 /\ refused = 0
    BY DEF Init
  <2>6. QED
    BY <2>2, <2>3, <2>4, <2>5, LimitAssumption DEF StreamsInv
<1>5. QED
  BY <1>1, <1>2, <1>3, <1>4 DEF IInv

-----------------------------------------------------------------------------
(***************************************************************************)
(* The tree.                                                               *)
(***************************************************************************)

\* A path and the directories it is in; nothing for the current directory.
Up(p) == IF p \in Paths THEN {p} \cup Above[p] ELSE {}

\* Sets with which the directories of their paths are closed, and the least one with p.
Shut(S) == \A x \in S : Parent[x] \in S \cup {Here}
Least(p) == {q \in Paths : \A S \in SUBSET Paths : p \in S /\ Shut(S) => q \in S}

\* The least closed set with p is that with its directory, and p.
LEMMA LeastStep ==
  ASSUME NEW p \in Paths
  PROVE  Least(p) = {p} \cup (IF Parent[p] = Here THEN {} ELSE Least(Parent[p]))
<1> DEFINE d == Parent[p]
           rest == IF d = Here THEN {} ELSE Least(d)
<1>1. d = Here \/ d \in Paths
  BY PathsAssumption
<1>2. {p} \cup rest \subseteq Least(p)
  <2>1. ASSUME NEW x \in rest, NEW S \in SUBSET Paths, p \in S, Shut(S) PROVE x \in S
    <3>1. d # Here /\ x \in Least(d)
      BY <2>1
    <3>2. d \in S
      BY <2>1, <3>1 DEF Shut
    <3>3. QED
      BY <2>1, <3>1, <3>2 DEF Least
  <2>2. rest \subseteq Paths
    BY DEF Least
  <2>3. QED
    BY <2>1, <2>2 DEF Least
<1>3. Shut({p} \cup rest) /\ {p} \cup rest \in SUBSET Paths
  <2>1. rest \subseteq Paths
    BY DEF Least
  <2>2. d # Here => d \in rest
    BY <1>1 DEF Least
  <2>3. ASSUME NEW x \in rest, Parent[x] # Here PROVE Parent[x] \in rest
    <3>1. d # Here /\ x \in Least(d)
      BY <2>3
    <3>2. Parent[x] \in Paths
      BY <2>1, <2>3, PathsAssumption
    <3>3. ASSUME NEW S \in SUBSET Paths, d \in S, Shut(S) PROVE Parent[x] \in S
      <4>1. x \in S
        BY <3>1, <3>3 DEF Least
      <4>2. QED
        BY <2>3, <3>3, <4>1 DEF Shut
    <3>4. QED
      BY <3>1, <3>2, <3>3 DEF Least
  <2> HIDE DEF rest
  <2>4. QED
    BY <2>1, <2>2, <2>3 DEF Shut
<1> HIDE DEF rest
<1>4. Least(p) \subseteq {p} \cup rest
  BY <1>3 DEF Least
<1>5. QED
  BY <1>2, <1>4 DEF rest, d

\* The definition of Above has a solution, and so Above is one.
LEMMA AboveDef ==
  Above = [p \in Entry |->
             IF p \in Dots \/ Parent[p] = Here THEN {} ELSE {Parent[p]} \cup Above[Parent[p]]]
<1> DEFINE g == [p \in Entry |-> IF p \in Dots \/ Parent[p] = Here THEN {} ELSE Least(Parent[p])]
<1>1. ASSUME NEW p \in Entry
      PROVE  g[p] = IF p \in Dots \/ Parent[p] = Here THEN {} ELSE {Parent[p]} \cup g[Parent[p]]
  <2>1. CASE p \in Dots \/ Parent[p] = Here
    BY <2>1
  <2>2. CASE ~(p \in Dots \/ Parent[p] = Here)
    <3>1. Parent[p] \in Paths /\ Parent[p] \notin Dots /\ Parent[p] \in Entry
      BY <2>2, PathsAssumption DEF Entry
    <3>2. g[p] = Least(Parent[p])
      BY <2>2
    <3>3. g[Parent[p]] = IF Parent[Parent[p]] = Here THEN {} ELSE Least(Parent[Parent[p]])
      BY <3>1
    <3>4. QED
      BY <2>2, <3>1, <3>2, <3>3, LeastStep
  <2>3. QED
    BY <2>1, <2>2
<1>2. g = [p \in Entry |->
             IF p \in Dots \/ Parent[p] = Here THEN {} ELSE {Parent[p]} \cup g[Parent[p]]]
  <2>1. g = [p \in Entry |-> g[p]]
    OBVIOUS
  <2> HIDE DEF g
  <2>2. QED
    BY <1>1, <2>1
<1> HIDE DEF g
<1>3. QED
  BY <1>2, Zenon DEF Above, Entry

\* A path is in its directory and in what that is in.
LEMMA AboveIs ==
  /\ \A p \in Paths : Above[p] = Up(Parent[p])
  /\ \A p \in Dots : Above[p] = {}
  /\ Up(Here) = {}
<1>1. Here \in Dots /\ Dots \cap Paths = {}
  BY PathsAssumption DEF Dots
<1>2. ASSUME NEW p \in Paths PROVE Above[p] = Up(Parent[p])
  <2>1. Above[p] = IF Parent[p] = Here THEN {} ELSE {Parent[p]} \cup Above[Parent[p]]
    BY <1>1, AboveDef DEF Entry
  <2>2. Parent[p] = Here \/ Parent[p] \in Paths
    BY PathsAssumption
  <2>3. QED
    BY <1>1, <2>1, <2>2 DEF Up
<1>3. ASSUME NEW p \in Dots PROVE Above[p] = {}
  BY AboveDef DEF Entry
<1>4. QED
  BY <1>1, <1>2, <1>3 DEF Up

\* A set that has every path whose directory it has has them all: otherwise one without
\* it would be in a directory that has it.
LEMMA TreeInduction ==
  ASSUME NEW S \in SUBSET Paths,
         \A p \in Paths : (Parent[p] \in Paths => Parent[p] \in S) => p \in S
  PROVE  S = Paths
<1> DEFINE Bad == Paths \ S
<1>1. SUFFICES ASSUME Bad # {} PROVE FALSE
  OBVIOUS
<1>2. PICK p \in Bad : Parent[p] \notin Bad
  <2>1. Bad \in (SUBSET Paths) \ {{}}
    BY <1>1
  <2> HIDE DEF Bad
  <2>2. QED
    BY <2>1, PathsAssumption
<1>3. QED
  BY <1>2

\* The directories of a path: they are paths, finitely many, the outermost is in the
\* current directory, and those of a directory of it are among them.
Lineage(p) ==
  /\ Up(p) \subseteq Paths /\ p \in Up(p) /\ IsFiniteSet(Up(p))
  /\ \E r \in Up(p) : Parent[r] = Here
  /\ \A x \in Up(p) : Up(x) \subseteq Up(p) /\ (x # p => \E c \in Up(p) : Parent[c] = x)

\* The way up from a path is the list of the directories it is in, the nearest first.
LEMMA UpLineage ==
  ASSUME NEW p \in Paths
  PROVE  Lineage(p)
<1> DEFINE S == {q \in Paths : Lineage(q)}
<1>1. ASSUME NEW q \in Paths, Parent[q] \in Paths => Parent[q] \in S PROVE Lineage(q)
  <2> DEFINE d == Parent[q]
  <2>1. Up(q) = {q} \cup Up(d) /\ Up(Here) = {}
    BY AboveIs DEF Up
  <2>2. CASE d = Here
    <3>1. Up(q) = {q}
      BY <2>1, <2>2
    <3>2. IsFiniteSet({q})
      BY FS_Singleton
    <3>3. QED
      BY <2>2, <3>1, <3>2 DEF Lineage
  <2>3. CASE d # Here
    <3>1. d \in Paths /\ Lineage(d)
      BY <1>1, <2>3, PathsAssumption
    <3>2. Up(q) \subseteq Paths /\ q \in Up(q)
      BY <2>1, <3>1 DEF Lineage
    <3>3. IsFiniteSet(Up(q))
      <4>1. IsFiniteSet(Up(d) \cup {q})
        BY <3>1, FS_AddElement DEF Lineage
      <4>2. QED
        BY <2>1, <4>1
    <3>4. \E r \in Up(q) : Parent[r] = Here
      BY <2>1, <3>1 DEF Lineage
    <3>5. ASSUME NEW x \in Up(q) PROVE Up(x) \subseteq Up(q)
      BY <2>1, <3>1 DEF Lineage
    <3>6. ASSUME NEW x \in Up(q), x # q PROVE \E c \in Up(q) : Parent[c] = x
      <4>1. x \in Up(d)
        BY <2>1, <3>6
      <4>2. QED
        BY <2>1, <3>1, <4>1 DEF Lineage
    <3>7. QED
      BY <3>2, <3>3, <3>4, <3>5, <3>6 DEF Lineage
  <2>4. QED
    BY <2>2, <2>3
<1>2. S \in SUBSET Paths
  OBVIOUS
<1> HIDE DEF Lineage
<1>3. \A q \in Paths : (Parent[q] \in Paths => Parent[q] \in S) => q \in S
  BY <1>1
<1> HIDE DEF S
<1>4. S = Paths
  BY <1>2, <1>3, TreeInduction
<1>5. QED
  BY <1>4 DEF S

\* No path is in itself.
LEMMA NotInItself ==
  ASSUME NEW p \in Paths
  PROVE  p \notin Above[p]
<1> DEFINE S == {q \in Paths : q \notin Above[q]}
<1>1. ASSUME NEW q \in Paths, Parent[q] \in Paths => Parent[q] \in S, q \in Above[q] PROVE FALSE
  <2> DEFINE d == Parent[q]
  <2>1. Above[q] = Up(d) /\ Up(Here) = {}
    BY AboveIs
  <2>2. d \in Paths /\ d \notin Above[d]
    BY <1>1, <2>1, PathsAssumption
  <2>3. q \in Up(d) /\ Up(d) = {d} \cup Above[d]
    BY <1>1, <2>1, <2>2 DEF Up
  <2>4. q # d
    BY <1>1, <2>2
  <2>5. q \in Above[d] /\ Parent[d] \in Paths /\ Above[d] = Up(Parent[d])
    <3>1. q \in Above[d]
      BY <2>3, <2>4
    <3>2. Above[d] = Up(Parent[d])
      BY <2>2, AboveIs
    <3>3. Parent[d] # Here
      BY <2>1, <3>1, <3>2
    <3>4. QED
      BY <2>2, <3>1, <3>2, <3>3, PathsAssumption
  <2>6. Up(q) \subseteq Above[d]
    BY <2>5, UpLineage DEF Lineage
  <2>7. d \in Above[q] /\ Above[q] \subseteq Up(q)
    BY <2>1, <2>3 DEF Up
  <2>8. QED
    BY <2>2, <2>6, <2>7
<1>2. \A q \in Paths : (Parent[q] \in Paths => Parent[q] \in S) => q \in S
  BY <1>1
<1>3. S \in SUBSET Paths
  OBVIOUS
<1> HIDE DEF S
<1>4. S = Paths
  BY <1>2, <1>3, TreeInduction
<1>5. QED
  BY <1>4 DEF S

\* The directories of a path are one fewer than its path has names.
LEMMA UpCount ==
  ASSUME NEW p \in Paths
  PROVE  /\ IsFiniteSet(Above[p]) /\ Depth(p) \in Nat
         /\ Cardinality(Up(p)) = Depth(p) + 1
         /\ Depth(p) = Cardinality(Up(Parent[p]))
<1>1. Up(p) = Above[p] \cup {p} /\ p \notin Above[p] /\ IsFiniteSet(Up(p))
  BY NotInItself, UpLineage DEF Up, Lineage
<1>2. IsFiniteSet(Above[p])
  BY <1>1, FS_Subset
<1>3. Cardinality(Above[p] \cup {p}) = Cardinality(Above[p]) + 1
  BY <1>1, <1>2, FS_AddElement
<1>4. QED
  BY <1>1, <1>2, <1>3, AboveIs, FS_CardinalityType DEF Depth

\* What is in a directory lies deeper.
LEMMA DeeperInside ==
  ASSUME NEW p \in Paths, NEW q \in Paths, p \in Above[q]
  PROVE  Depth(p) + 1 <= Depth(q)
<1>1. Above[q] = Up(Parent[q]) /\ Parent[q] \in Paths
  BY AboveIs, PathsAssumption
<1>2. Up(p) \subseteq Above[q]
  BY <1>1, UpLineage DEF Lineage
<1>3. Cardinality(Up(p)) <= Cardinality(Above[q])
  BY <1>2, UpCount, FS_Subset
<1>4. QED
  BY <1>3, UpCount DEF Depth

\* Paths that are in the same directories are in the same directory.
LEMMA SameDirectory ==
  ASSUME NEW p \in Paths, NEW q \in Paths, Above[p] = Above[q]
  PROVE  Parent[p] = Parent[q]
<1> DEFINE a == Parent[p]
           b == Parent[q]
<1>1. Up(a) = Up(b) /\ Up(Here) = {}
  BY AboveIs
<1>2. (a = Here \/ a \in Paths) /\ (b = Here \/ b \in Paths)
  BY PathsAssumption
<1>3. a \in Paths => a \in Up(a)
  BY DEF Up
<1>4. b \in Paths => b \in Up(b)
  BY DEF Up
<1>5. ASSUME a \in Paths, b \in Paths, a # b PROVE FALSE
  <2>1. a \in Above[b] /\ b \in Above[a]
    BY <1>1, <1>3, <1>4, <1>5 DEF Up
  <2>2. Depth(a) + 1 <= Depth(b) /\ Depth(b) + 1 <= Depth(a)
    BY <1>5, <2>1, DeeperInside
  <2>3. Depth(a) \in Nat /\ Depth(b) \in Nat
    BY <1>5, UpCount
  <2>4. QED
    BY <2>2, <2>3
<1>6. QED
  BY <1>1, <1>2, <1>3, <1>4, <1>5

-----------------------------------------------------------------------------
(***************************************************************************)
(* What find and tree have to print, and what they have still to look at.  *)
(***************************************************************************)

Recursive == call.fn \in {"FIND", "TREE_NORMAL", "TREE_DEPTH", "TREE_SORT"}

\* What lies in a directory is there with the directory.
FilesInv == fs \subseteq Paths /\ \A p \in fs : Parent[p] \in fs \cup {Here}

Wanted ==
  {q \in Visible :
     IF call.fn = "FIND" THEN Up(q) \cap Match[call.word] # {} ELSE Depth(q) <= call.max}
PadOf(q) == IF call.fn = "FIND" THEN 0 ELSE Depth(q)

\* What a function reads in its directory, which may be locked.
Below(d) == IF d \in Locked THEN {} ELSE Entries(d) \ Hidden

\* What there is of the wanted without the entries A, which are ahead.
Explored(A) == {q \in Wanted : Up(q) \cap A = {}}
Done(A) == {<<q, PadOf(q)>> : q \in Explored(A)}

\* A visible path is in visible directories, ...
LEMMA VisibleUp ==
  ASSUME FilesInv, NEW q \in Visible
  PROVE  q \in Paths /\ q \in fs /\ Up(q) \subseteq Visible
<1> DEFINE S == {x \in Paths : x \in fs => Up(x) \subseteq fs}
<1>1. \A x \in Paths : (Parent[x] \in Paths => Parent[x] \in S) => x \in S
  <2>1. ASSUME NEW x \in Paths, Parent[x] \in Paths => Parent[x] \in S, x \in fs
        PROVE  Up(x) \subseteq fs
    <3>1. Up(x) = {x} \cup Up(Parent[x]) /\ Up(Here) = {}
      BY AboveIs DEF Up
    <3>2. Parent[x] = Here \/ Parent[x] \in fs
      BY <2>1 DEF FilesInv
    <3>3. QED
      BY <2>1, <3>1, <3>2 DEF FilesInv
  <2>2. QED
    BY <2>1
<1>2. S \in SUBSET Paths
  OBVIOUS
<1>3. S = Paths
  <2> HIDE DEF S
  <2> QED BY <1>1, <1>2, TreeInduction
<1>4. q \in fs /\ q \in Paths /\ Up(q) \cap Hidden = {} /\ Above[q] \cap Locked = {}
  BY DEF Visible, Up, FilesInv
<1>5. Up(q) \subseteq fs
  BY <1>3, <1>4
<1>6. ASSUME NEW x \in Up(q) PROVE x \in Visible
  <2>1. x \in Paths /\ Up(x) \subseteq Up(q)
    BY <1>4, UpLineage DEF Lineage
  <2>2. Up(x) \cap Hidden = {}
    BY <1>4, <2>1
  <2>3. Above[x] \subseteq Above[q]
    <3>1. CASE x = q
      BY <3>1
    <3>2. CASE x # q
      <4>1. x \in Above[q] /\ Above[q] = Up(Parent[q])
        BY <1>4, <3>2, AboveIs DEF Up
      <4>2. Parent[q] \in Paths
        BY <1>4, <4>1, AboveIs, PathsAssumption
      <4>3. Up(x) \subseteq Above[q]
        BY <4>1, <4>2, UpLineage DEF Lineage
      <4>4. QED
        BY <2>1, <4>3 DEF Up
    <3>3. QED
      BY <3>1, <3>2
  <2>4. QED
    BY <1>4, <1>5, <2>1, <2>2, <2>3 DEF Visible, Up
<1>7. QED
  BY <1>4, <1>6

\* ... and so is what is read in a visible one, which lies right in it.
LEMMA BelowVisible ==
  ASSUME FilesInv, NEW d \in Visible \cup {Here}, NEW p \in Below(d)
  PROVE  /\ p \in Visible /\ p \in Paths /\ p \in fs /\ Parent[p] = d
         /\ Above[p] = Up(d) /\ Up(p) = {p} \cup Up(d) /\ p \notin Up(d)
<1>1. p \in fs /\ p \in Paths /\ p \notin Hidden /\ Parent[p] = d /\ d \notin Locked
  BY DEF Below, Entries, FilesInv
<1>2. Above[p] = Up(d) /\ Up(p) = {p} \cup Up(d)
  BY <1>1, AboveIs DEF Up
<1>3. p \notin Up(d)
  BY <1>1, <1>2, NotInItself
<1>4. Up(d) \cap Hidden = {} /\ Up(d) \cap Locked = {}
  BY <1>1, AboveIs DEF Visible, Up
<1>5. p \in Visible
  BY <1>1, <1>2, <1>4 DEF Visible, Up
<1>6. QED
  BY <1>1, <1>2, <1>3, <1>5

\* The way to a visible path leads through an entry of the current directory, and
\* through one of each directory it is in.
LEMMA WayDown ==
  ASSUME FilesInv, NEW q \in Visible
  PROVE  /\ \E r \in Up(q) : r \in Below(Here)
         /\ \A p \in Up(q) : p # q => \E c \in Up(q) : c \in Below(p)
<1>1. q \in Paths /\ Up(q) \subseteq Visible
  BY VisibleUp
<1>2. \A x \in Up(q) : x \in Paths /\ x \in fs /\ x \notin Hidden /\ Up(Parent[x]) \cap Locked = {}
  BY <1>1, AboveIs, UpLineage DEF Visible, Lineage
<1>3. Lineage(q)
  BY <1>1, UpLineage
<1>4. Here \notin Locked
  BY PathsAssumption DEF Dots
<1>5. \A x \in Up(q) : Parent[x] \notin Locked
  BY <1>2, PathsAssumption DEF Up
<1>6. QED
  BY <1>2, <1>3, <1>4, <1>5 DEF Lineage, Below, Entries

\* At first everything is ahead, and at last nothing.
LEMMA ExploredEnds ==
  ASSUME FilesInv
  PROVE  Explored(Below(Here)) = {} /\ Explored({}) = Wanted
<1>1. ASSUME NEW q \in Explored(Below(Here)) PROVE FALSE
  <2>1. q \in Visible /\ Up(q) \cap Below(Here) = {}
    BY DEF Explored, Wanted
  <2>2. QED
    BY <2>1, WayDown
<1>2. QED
  BY <1>1 DEF Explored

\* An entry is dealt with: what there is to do is what is below it, if it is wanted.
LEMMA ExploredNext ==
  ASSUME FilesInv, NEW d \in Visible \cup {Here}, NEW p \in Below(d),
         NEW A, p \in A, Up(d) \cap A = {},
         NEW B, B \subseteq Below(p),
         B = Below(p) \/ \A q \in Wanted : p \in Up(q) => q = p
  PROVE  LET A2 == (A \ {p}) \cup B
         IN /\ Up(p) \cap A2 = {}
            /\ Explored(A2) = Explored(A) \cup ({p} \cap Wanted)
            /\ p \notin Explored(A)
<1> DEFINE A2 == (A \ {p}) \cup B
<1>1. /\ p \in Visible /\ p \in Paths
      /\ Up(p) = {p} \cup Up(d) /\ p \notin Up(d)
  BY BelowVisible
<1>2. ASSUME NEW x \in B PROVE x \notin Up(p) /\ p \in Up(x) /\ x \in Paths
  <2>1. x \in Below(p) /\ p \in Visible \cup {Here}
    BY <1>1
  <2>2. QED
    BY <1>1, <2>1, BelowVisible
<1>3. Up(p) \cap A2 = {}
  BY <1>1, <1>2
<1>4. p \notin Explored(A)
  BY <1>1 DEF Explored
<1>5. ASSUME NEW q \in Wanted, Up(q) \cap A2 = {}, Up(q) \cap A # {} PROVE q = p
  <2>1. q \in Visible
    BY DEF Wanted
  <2>2. p \in Up(q)
    BY <1>5
  <2>3. CASE B = Below(p)
    BY <1>5, <2>1, <2>2, <2>3, WayDown
  <2>4. QED
    BY <2>2, <2>3
<1>6. ASSUME NEW q \in Wanted, Up(q) \cap A = {} PROVE Up(q) \cap A2 = {}
  <2>1. q \in Visible /\ q \in Paths
    BY VisibleUp DEF Wanted
  <2>2. ASSUME NEW x \in Up(q), x \in B PROVE FALSE
    <3>1. Up(x) \subseteq Up(q)
      BY <2>1, UpLineage DEF Lineage
    <3>2. QED
      BY <1>2, <1>6, <2>2, <3>1
  <2>3. QED
    BY <1>6, <2>2
<1> HIDE DEF A2
<1>7. Explored(A2) = Explored(A) \cup ({p} \cap Wanted)
  BY <1>3, <1>5, <1>6 DEF Explored
<1>8. QED
  BY <1>3, <1>4, <1>7 DEF A2

-----------------------------------------------------------------------------
(***************************************************************************)
(* What has been printed.                                                  *)
(***************************************************************************)

Shown(o) == {o[i] : i \in 1 .. Len(o)}

\* PreOrder and SiblingsSorted, of an output o.
OrderOf(o) ==
  \A i, j \in 1 .. Len(o) : i < j =>
    /\ o[i][1] # o[j][1] /\ o[j][1] \notin Above[o[i][1]]
    /\ o[i][1] \in Above[o[j][1]] => \A k \in i + 1 .. j : o[i][1] \in Above[o[k][1]]
SiblingsOf(o) ==
  \A i, j \in 1 .. Len(o) :
    i < j /\ Above[o[i][1]] = Above[o[j][1]] => Rank[call.by][o[i][1]] <= Rank[call.by][o[j][1]]

\* Everything that is printed since a directory is inside it.
Inside(d, o) ==
  \A i \in 1 .. Len(o) : o[i][1] \in Up(d) => \A k \in i + 1 .. Len(o) : o[i][1] \in Above[o[k][1]]

\* What is printed of a wanted path is its name, with its padding.
LEMMA ShownExplored ==
  ASSUME NEW o, NEW A, Shown(o) = Done(A), NEW i \in 1 .. Len(o)
  PROVE  o[i][1] \in Explored(A) /\ o[i][1] \in Visible /\ Up(o[i][1]) \cap A = {}
<1>1. o[i] \in Done(A)
  BY DEF Shown
<1>2. PICK q \in Explored(A) : o[i] = <<q, PadOf(q)>>
  BY <1>1 DEF Done
<1>3. QED
  BY <1>2 DEF Explored, Wanted

\* One more entry is printed, the last.
LEMMA AppendIs ==
  ASSUME NEW T, NEW o \in Seq(T), NEW e \in T
  PROVE  LET o2 == Append(o, e)
         IN /\ o2 \in Seq(T) /\ Len(o2) = Len(o) + 1 /\ Len(o) \in Nat /\ o2[Len(o) + 1] = e
            /\ \A i \in 1 .. Len(o) : o2[i] = o[i]
            /\ Shown(o2) = Shown(o) \cup {e}
<1> DEFINE o2 == Append(o, e)
<1>1. /\ o2 \in Seq(T) /\ Len(o2) = Len(o) + 1 /\ Len(o) \in Nat /\ o2[Len(o) + 1] = e
      /\ \A i \in 1 .. Len(o) : o2[i] = o[i]
  OBVIOUS
<1> HIDE DEF o2
<1>2. Shown(o2) = Shown(o) \cup {e}
  BY <1>1 DEF Shown
<1>3. QED
  BY <1>1, <1>2 DEF o2

\* It comes after the directories it is in, and right behind what is in them.
LEMMA OrderNext ==
  ASSUME NEW T, NEW o \in Seq(T), OrderOf(o), NEW e \in T, NEW d, Inside(d, o),
         Above[e[1]] = Up(d),
         \A i \in 1 .. Len(o) : o[i][1] # e[1] /\ e[1] \notin Above[o[i][1]]
  PROVE  OrderOf(Append(o, e)) /\ Inside(d, Append(o, e))
<1> DEFINE o2 == Append(o, e)
           n == Len(o) + 1
<1>1. /\ Len(o2) = n /\ Len(o) \in Nat /\ o2[n] = e
      /\ \A i \in 1 .. Len(o) : o2[i] = o[i]
  BY AppendIs
<1> HIDE DEF o2
<1>2. \A i \in 1 .. n : i \in 1 .. Len(o) \/ i = n
  BY <1>1
<1>3. Inside(d, o2)
  <2>1. ASSUME NEW i \in 1 .. n, o2[i][1] \in Up(d), NEW k \in i + 1 .. n
        PROVE  o2[i][1] \in Above[o2[k][1]]
    <3>1. i \in 1 .. Len(o) /\ o2[i] = o[i]
      BY <1>1, <1>2, <2>1
    <3>2. CASE k = n
      BY <1>1, <2>1, <3>2
    <3>3. CASE k # n
      <4>1. k \in i + 1 .. Len(o) /\ k \in 1 .. Len(o)
        BY <1>1, <3>1, <3>3
      <4>2. QED
        BY <1>1, <2>1, <3>1, <4>1 DEF Inside
    <3>4. QED
      BY <3>2, <3>3
  <2>2. QED
    BY <1>1, <2>1 DEF Inside
<1>4. OrderOf(o2)
  <2>1. ASSUME NEW i \in 1 .. n, NEW j \in 1 .. n, i < j
        PROVE  /\ o2[i][1] # o2[j][1] /\ o2[j][1] \notin Above[o2[i][1]]
               /\ o2[i][1] \in Above[o2[j][1]] => \A k \in i + 1 .. j : o2[i][1] \in Above[o2[k][1]]
    <3>1. i \in 1 .. Len(o) /\ o2[i] = o[i]
      BY <1>1, <1>2, <2>1
    <3>2. CASE j = n
      <4>1. o2[j] = e
        BY <1>1, <3>2
      <4>2. o2[i][1] \in Up(d) => \A k \in i + 1 .. n : o2[i][1] \in Above[o2[k][1]]
        BY <1>1, <1>3 DEF Inside
      <4>3. QED
        BY <3>1, <3>2, <4>1, <4>2
    <3>3. CASE j # n
      <4>1. j \in 1 .. Len(o) /\ o2[j] = o[j]
        BY <1>1, <1>2, <3>3
      <4>2. \A k \in i + 1 .. j : k \in 1 .. Len(o) /\ o2[k] = o[k]
        BY <1>1, <3>1, <4>1
      <4>3. QED
        BY <2>1, <3>1, <4>1, <4>2 DEF OrderOf
    <3>4. QED
      BY <3>2, <3>3
  <2>2. QED
    BY <1>1, <2>1 DEF OrderOf
<1>5. QED
  BY <1>3, <1>4 DEF o2

\* It ranks behind the siblings that are printed.
LEMMA SiblingsNext ==
  ASSUME NEW T, NEW o \in Seq(T), SiblingsOf(o), NEW e \in T,
         \A i \in 1 .. Len(o) :
           Above[o[i][1]] = Above[e[1]] => Rank[call.by][o[i][1]] <= Rank[call.by][e[1]]
  PROVE  SiblingsOf(Append(o, e))
<1> DEFINE o2 == Append(o, e)
           n == Len(o) + 1
<1>1. /\ Len(o2) = n /\ Len(o) \in Nat /\ o2[n] = e
      /\ \A i \in 1 .. Len(o) : o2[i] = o[i]
  BY AppendIs
<1> HIDE DEF o2
<1>2. ASSUME NEW i \in 1 .. n, NEW j \in 1 .. n, i < j, Above[o2[i][1]] = Above[o2[j][1]]
      PROVE  Rank[call.by][o2[i][1]] <= Rank[call.by][o2[j][1]]
  <2>1. i \in 1 .. Len(o) /\ o2[i] = o[i]
    BY <1>1, <1>2
  <2>2. CASE j = n
    BY <1>1, <1>2, <2>1, <2>2
  <2>3. CASE j # n
    <3>1. j \in 1 .. Len(o) /\ o2[j] = o[j]
      BY <1>1, <2>3
    <3>2. QED
      BY <1>2, <2>1, <3>1 DEF SiblingsOf
  <2>4. QED
    BY <2>2, <2>3
<1>3. QED
  BY <1>1, <1>2 DEF SiblingsOf, o2

-----------------------------------------------------------------------------
(***************************************************************************)
(* A traversal.                                                            *)
(***************************************************************************)

\* What a function has still to read or to print, and all that do.
Reads(f) == IF f.phase = "open" THEN Below(f.dir) ELSE Pending(f)
Ahead(s) == UNION {Reads(s[i]) : i \in 1 .. Len(s)}

\* The function that runs in a directory, and its padding.
FnOf(d) ==
  CASE call.fn = "FIND" ->
         IF Up(d) \cap Match[call.word] = {} THEN "findRecurseDirPrint" ELSE "recurseDirPrint"
    [] call.fn = "TREE_SORT" -> "treePrintSort"
    [] OTHER -> "treePrint"
Level(d) == IF call.fn = "FIND" THEN 0 ELSE Cardinality(Up(d))

FrameLook(f) ==
  /\ f.dir \in Visible \cup {Here}
  /\ f.fn = FnOf(f.dir) /\ f.pad = Level(f.dir) /\ (call.fn # "FIND" => f.pad <= call.max)
  /\ Pending(f) \subseteq Below(f.dir)
  /\ f.left \cap Range(f.table) = {} /\ Injective(f.table)
  /\ f.phase = "print" => f.left = {} /\ Ordered(f.table, call.by)
  /\ f.fn # "treePrintSort" => f.table = <<>> /\ f.phase # "print"

\* A function that sorts has printed nothing of its directory before, and nothing that
\* ranks behind what is in its table.
SortedSoFar(f, o) ==
  call.fn = "TREE_SORT" =>
    \A i \in 1 .. Len(o) : Parent[o[i][1]] = f.dir =>
      /\ f.phase = "print"
      /\ \A k \in 1 .. Len(f.table) : Rank[call.by][o[i][1]] <= Rank[call.by][f.table[k]]

\* The running function is not in a directory that has still to be looked at; and it
\* is as deep in calls as its directory in others.
TopLook(s, o) ==
  s # <<>> => /\ Len(s) = 1 + Cardinality(Up(s[1].dir))
              /\ Up(s[1].dir) \cap Ahead(s) = {} /\ Inside(s[1].dir, o)

Traversal(s, o) ==
  /\ \A i \in 1 .. Len(s) : FrameLook(s[i]) /\ SortedSoFar(s[i], o)
  /\ Shown(o) = Done(Ahead(s))
  /\ TopLook(s, o)
  /\ OrderOf(o) /\ (call.fn = "TREE_SORT" => SiblingsOf(o))

\* Only the running function changes: so does what is ahead.
LEMMA AheadHead ==
  ASSUME NEW s, NEW t, Len(s) \in Nat, Len(s) >= 1, Len(t) = Len(s), \A i \in 2 .. Len(t) : t[i] = s[i]
  PROVE  \A x : x \in Ahead(t) <=> x \in Reads(t[1]) \/ \E i \in 2 .. Len(s) : x \in Reads(s[i])
<1>1. ASSUME NEW x, NEW i \in 1 .. Len(t), x \in Reads(t[i])
      PROVE  x \in Reads(t[1]) \/ \E j \in 2 .. Len(s) : x \in Reads(s[j])
  <2>1. i = 1 \/ i \in 2 .. Len(t)
    OBVIOUS
  <2>2. QED
    BY <1>1, <2>1
<1>2. ASSUME NEW x, x \in Reads(t[1]) PROVE x \in Ahead(t)
  <2>1. 1 \in 1 .. Len(t)
    OBVIOUS
  <2>2. QED
    BY <1>2, <2>1 DEF Ahead
<1>3. ASSUME NEW x, NEW i \in 2 .. Len(s), x \in Reads(s[i]) PROVE x \in Ahead(t)
  <2>1. i \in 1 .. Len(t) /\ t[i] = s[i]
    OBVIOUS
  <2>2. QED
    BY <1>3, <2>1 DEF Ahead
<1>4. QED
  BY <1>1, <1>2, <1>3 DEF Ahead

\* What another function is in has nothing of what the running one reads.
LEMMA ReadsDiffer ==
  ASSUME FilesInv, NEW s, Chain(s), \A i \in 1 .. Len(s) : FrameLook(s[i]),
         NEW p \in Below(s[1].dir), NEW i \in 2 .. Len(s)
  PROVE  p \notin Reads(s[i])
<1>1. Len(s) \in Nat
  BY DEF Chain
<1>2. 1 \in 1 .. Len(s) /\ i \in 1 .. Len(s)
  BY <1>1
<1>3. FrameLook(s[i]) /\ s[i].dir # s[1].dir
  BY <1>2, DirsDiffer
<1>4. Reads(s[i]) \subseteq Below(s[i].dir)
  BY <1>3 DEF Reads, FrameLook
<1>5. QED
  BY <1>3, <1>4 DEF Below, Entries

\* The running function goes on, and has as much ahead as before.
LEMMA LoopLook ==
  ASSUME NEW s, Chain(s), s # <<>>, NEW o, Traversal(s, o),
         NEW f, FrameInv(f), f.dir = s[1].dir, Reads(f) = Reads(s[1]),
         FrameLook(f), SortedSoFar(f, o)
  PROVE  Traversal(<<f>> \o Tail(s), o)
<1> DEFINE t == <<f>> \o Tail(s)
<1>1. Len(s) \in Nat /\ Len(s) >= 1
  BY DEF Chain
<1>2. /\ Len(t) = Len(s) /\ t # <<>> /\ t[1] = f
      /\ \A i \in 2 .. Len(t) : t[i] = s[i]
  BY ChainHead
<1> HIDE DEF t
<1>3. Ahead(t) = Ahead(s)
  <2>1. \A x : x \in Ahead(t) <=> x \in Reads(t[1]) \/ \E i \in 2 .. Len(s) : x \in Reads(s[i])
    BY <1>1, <1>2, AheadHead
  <2>2. \A x : x \in Ahead(s) <=> x \in Reads(s[1]) \/ \E i \in 2 .. Len(s) : x \in Reads(s[i])
    BY <1>1, AheadHead
  <2>3. QED
    BY <1>2, <2>1, <2>2
<1>4. \A i \in 1 .. Len(t) : FrameLook(t[i]) /\ SortedSoFar(t[i], o)
  <2>1. \A i \in 1 .. Len(t) : i = 1 \/ (i \in 2 .. Len(t) /\ i \in 1 .. Len(s))
    BY <1>1, <1>2
  <2>2. QED
    BY <1>2, <2>1, Zenon DEF Traversal
<1>5. TopLook(t, o)
  BY <1>2, <1>3 DEF Traversal, TopLook
<1>6. QED
  BY <1>3, <1>4, <1>5 DEF Traversal, t

\* The running function returns, with nothing ahead.
LEMMA EndLook ==
  ASSUME NEW s, Chain(s), s # <<>>, NEW o, Traversal(s, o), Reads(s[1]) = {}
  PROVE  Traversal(Tail(s), o)
<1> DEFINE t == Tail(s)
<1>1. s \in Seq(Frames) /\ Len(s) \in Nat /\ Len(s) >= 1
  BY DEF Chain
<1>2. Len(t) = Len(s) - 1 /\ \A i \in 1 .. Len(t) : t[i] = s[i + 1] /\ i + 1 \in 1 .. Len(s)
  BY <1>1
<1>3. t # <<>> => Len(t) >= 1
  BY <1>1
<1> HIDE DEF t
<1>4. Ahead(t) = Ahead(s)
  <2>1. ASSUME NEW x \in Ahead(t) PROVE x \in Ahead(s)
    BY <1>2, <2>1 DEF Ahead
  <2>2. ASSUME NEW x \in Ahead(s) PROVE x \in Ahead(t)
    <3>1. PICK i \in 1 .. Len(s) : x \in Reads(s[i])
      BY <2>2 DEF Ahead
    <3>2. i - 1 \in 1 .. Len(t) /\ t[i - 1] = s[i]
      <4>1. i # 1
        BY <3>1
      <4>2. i - 1 \in 1 .. Len(t) /\ (i - 1) + 1 = i
        BY <1>1, <1>2, <4>1
      <4>3. QED
        BY <1>2, <4>2
    <3>3. QED
      BY <3>1, <3>2 DEF Ahead
  <2>3. QED
    BY <2>1, <2>2
<1>5. \A i \in 1 .. Len(t) : FrameLook(t[i]) /\ SortedSoFar(t[i], o)
  BY <1>2, Zenon DEF Traversal
<1>6. ASSUME t # <<>> PROVE TopLook(t, o)
  <2> DEFINE p == s[1].dir
             d == t[1].dir
  <2>1. 1 \in 1 .. Len(t) /\ 1 \in 1 .. Len(s) - 1
    BY <1>1, <1>2, <1>3, <1>6
  <2>2. p \in Dirs /\ Parent[p] = s[1 + 1].dir /\ t[1] = s[1 + 1]
    BY <1>2, <2>1 DEF Chain
  <2>3. p \in Paths /\ Parent[p] = d
    BY <2>2, PathsAssumption
  <2>4. /\ Cardinality(Up(p)) = Depth(p) + 1 /\ Depth(p) = Cardinality(Up(d)) /\ Depth(p) \in Nat
        /\ Up(d) \subseteq Up(p)
    BY <2>3, UpCount, AboveIs DEF Up
  <2>5. Len(s) = 1 + Cardinality(Up(p)) /\ Up(p) \cap Ahead(s) = {} /\ Inside(p, o)
    BY DEF Traversal, TopLook
  <2>6. Inside(d, o)
    BY <2>4, <2>5 DEF Inside
  <2>7. Len(t) = 1 + Cardinality(Up(d))
    BY <1>2, <2>4, <2>5
  <2>8. QED
    BY <1>4, <2>4, <2>5, <2>6, <2>7 DEF TopLook
<1>7. TopLook(t, o)
  BY <1>6 DEF TopLook
<1>8. QED
  BY <1>4, <1>5, <1>7 DEF Traversal, t

\* The next entry is p, of the directory d, with A ahead; and A2 is ahead after it.
NextEntry(o, d, p, A, A2) ==
  /\ d \in Visible \cup {Here} /\ p \in Below(d) /\ p \in A /\ Up(d) \cap A = {}
  /\ Explored(A2) = Explored(A) \cup ({p} \cap Wanted)
  /\ o \in Seq(Entry \X Nat) /\ Shown(o) = Done(A) /\ OrderOf(o) /\ Inside(d, o)

\* The output after it, and what is known of that.
Printing(o, p) == IF p \in Wanted THEN Append(o, <<p, PadOf(p)>>) ELSE o
NextOut(o, o2, d, p) ==
  /\ OrderOf(o2) /\ Inside(d, o2) /\ Inside(p, o2)
  /\ \A i \in 1 .. Len(o) : o[i][1] # p /\ p \notin Up(o[i][1])
  /\ \A i \in 1 .. Len(o2) : \/ i \in 1 .. Len(o) /\ o2[i] = o[i]
                             \/ o2[i][1] = p

\* An entry is printed, if it is wanted: what is known of the output stays true.
LEMMA OutNext ==
  ASSUME FilesInv, NEW o, NEW d, NEW p, NEW A, NEW A2, NextEntry(o, d, p, A, A2)
  PROVE  Shown(Printing(o, p)) = Done(A2) /\ NextOut(o, Printing(o, p), d, p)
<1> DEFINE e == <<p, PadOf(p)>>
           o2 == Printing(o, p)
<1> USE DEF NextEntry
<1>1. /\ p \in Paths /\ Parent[p] = d /\ Above[p] = Up(d) /\ Up(p) = {p} \cup Up(d)
      /\ p \in Visible
  BY BelowVisible
<1>2. PadOf(p) \in Nat /\ e \in Entry \X Nat /\ e[1] = p
  BY <1>1, UpCount DEF PadOf, Entry
<1>3. ASSUME NEW i \in 1 .. Len(o)
      PROVE  o[i][1] # p /\ p \notin Up(o[i][1]) /\ p \notin Above[o[i][1]] /\ o[i][1] \in Paths
  <2>1. o[i][1] \in Visible /\ Up(o[i][1]) \cap A = {}
    BY ShownExplored
  <2>2. o[i][1] \in Paths
    BY <2>1, VisibleUp
  <2>3. QED
    BY <2>1, <2>2 DEF Up
<1>0. o2 = IF p \in Wanted THEN Append(o, e) ELSE o
  BY DEF Printing
<1> HIDE DEF e, o2
<1>4. CASE p \in Wanted
  <2>1. o2 = Append(o, e)
    BY <1>0, <1>4
  <2>2. /\ Len(o2) = Len(o) + 1 /\ Len(o) \in Nat /\ o2[Len(o) + 1] = e
        /\ \A i \in 1 .. Len(o) : o2[i] = o[i]
        /\ Shown(o2) = Shown(o) \cup {e}
    BY <1>2, <2>1, AppendIs
  <2>3. Shown(o2) = Done(A2)
    BY <1>4, <2>2 DEF Done, e
  <2>4. OrderOf(o2) /\ Inside(d, o2)
    <3>1. Above[e[1]] = Up(d) /\ \A i \in 1 .. Len(o) : o[i][1] # e[1] /\ e[1] \notin Above[o[i][1]]
      BY <1>1, <1>2, <1>3
    <3> DEFINE T == Entry \X Nat
    <3>2. o \in Seq(T) /\ e \in T
      BY <1>2
    <3> HIDE DEF T
    <3>3. OrderOf(Append(o, e)) /\ Inside(d, Append(o, e))
      BY <3>1, <3>2, OrderNext, Zenon
    <3>4. QED
      BY <2>1, <3>3
  <2>5. \A i \in 1 .. Len(o2) : \/ i \in 1 .. Len(o) /\ o2[i] = o[i]
                                \/ i = Len(o2) /\ o2[i][1] = p
    BY <1>2, <2>2
  <2>6. Inside(p, o2)
    <3>1. ASSUME NEW i \in 1 .. Len(o2), o2[i][1] \in Up(p), NEW k \in i + 1 .. Len(o2)
          PROVE  o2[i][1] \in Above[o2[k][1]]
      <4>1. i # Len(o2) /\ i \in 1 .. Len(o) /\ o2[i] = o[i]
        BY <2>2, <2>5
      <4>2. o2[i][1] \in Up(d)
        BY <1>1, <1>3, <3>1, <4>1
      <4>3. QED
        BY <2>4, <4>2 DEF Inside
    <3>2. QED
      BY <3>1 DEF Inside
  <2>7. QED
    BY <1>3, <2>3, <2>4, <2>5, <2>6 DEF NextOut, o2
<1>5. CASE p \notin Wanted
  <2>1. o2 = o /\ Explored(A2) = Explored(A)
    BY <1>0, <1>5
  <2>2. Inside(p, o)
    BY <1>1, <1>3 DEF Inside
  <2>3. QED
    BY <1>3, <2>1, <2>2 DEF Done, NextOut, o2
<1>6. QED
  BY <1>4, <1>5 DEF o2

\* The stack after an entry: the function that goes on, or calls another for what is
\* below the entry, unless nothing of that is wanted.
Proceeds(f, s, p, t) ==
  \/ t = <<f>> \o Tail(s) /\ \A q \in Wanted : p \in Up(q) => q = p
  \/ \E c : /\ t = <<c>> \o (<<f>> \o Tail(s))
            /\ FrameInv(c) /\ c.dir = p /\ p \in Dirs /\ c.phase = "open" /\ FrameLook(c)

\* What is ahead then: not the entry, but what is below it, unless that is not wanted.
NextAhead(s, p, t, B) ==
  /\ B \subseteq Below(p) /\ Ahead(t) = (Ahead(s) \ {p}) \cup B
  /\ B = Below(p) \/ \A q \in Wanted : p \in Up(q) => q = p
Proceeded(f, s, p, t) ==
  /\ t # <<>>
  /\ \/ Len(t) = Len(s) /\ t[1].dir = s[1].dir
     \/ Len(t) = Len(s) + 1 /\ t[1].dir = p
  /\ \A i \in 1 .. Len(t) :
       \/ t[i] = f
       \/ \E j \in 2 .. Len(s) : t[i] = s[j]
       \/ t[i].dir = p /\ t[i].phase = "open" /\ FrameLook(t[i])

\* What is ahead afterwards is what the stack has ahead of it.
LEMMA ProceedsAhead ==
  ASSUME FilesInv, NEW s, Chain(s), s # <<>>, s[1].phase # "open",
         \A i \in 1 .. Len(s) : FrameLook(s[i]), NEW p \in Pending(s[1]),
         NEW f, FrameInv(f), f.dir = s[1].dir, f.phase = s[1].phase, FrameLook(f),
         Pending(f) = Pending(s[1]) \ {p},
         NEW t, Proceeds(f, s, p, t)
  PROVE  (\E B : NextAhead(s, p, t, B)) /\ Proceeded(f, s, p, t)
<1> DEFINE u == <<f>> \o Tail(s)
           A == Ahead(s)
<1>1. Len(s) \in Nat /\ Len(s) >= 1 /\ 1 \in 1 .. Len(s)
  BY DEF Chain
<1>2. /\ Chain(u) /\ Len(u) = Len(s) /\ u # <<>> /\ u[1] = f
      /\ \A i \in 2 .. Len(u) : u[i] = s[i]
  BY ChainHead
<1>3. /\ Reads(s[1]) = Pending(s[1]) /\ Reads(f) = Reads(s[1]) \ {p} /\ p \in Below(s[1].dir)
      /\ FrameLook(s[1])
  BY <1>1 DEF Reads, FrameLook
<1> HIDE DEF u
<1>4. Ahead(u) = A \ {p}
  <2>1. \A x : x \in Ahead(u) <=> x \in Reads(u[1]) \/ \E i \in 2 .. Len(s) : x \in Reads(s[i])
    BY <1>1, <1>2, AheadHead
  <2>2. \A x : x \in A <=> x \in Reads(s[1]) \/ \E i \in 2 .. Len(s) : x \in Reads(s[i])
    BY <1>1, AheadHead
  <2>3. \A i \in 2 .. Len(s) : p \notin Reads(s[i])
    BY <1>3, ReadsDiffer
  <2>4. QED
    BY <1>2, <1>3, <2>1, <2>2, <2>3
<1>5. \A i \in 1 .. Len(u) : u[i] = f \/ \E j \in 2 .. Len(s) : u[i] = s[j]
  <2>1. \A i \in 1 .. Len(u) : i = 1 \/ i \in 2 .. Len(s)
    BY <1>1, <1>2
  <2>2. QED
    BY <1>2, <2>1
<1> HIDE DEF A
<1>6. CASE t = u /\ \A q \in Wanted : p \in Up(q) => q = p
  <2>1. {} \subseteq Below(p) /\ Ahead(t) = (A \ {p}) \cup {}
    BY <1>4, <1>6
  <2>2. NextAhead(s, p, t, {})
    BY <1>6, <2>1 DEF A, NextAhead
  <2>3. Proceeded(f, s, p, t)
    BY <1>2, <1>5, <1>6 DEF Proceeded
  <2>4. QED
    BY <2>2, <2>3, Zenon
<1>7. ASSUME NEW c, t = <<c>> \o u, FrameInv(c), c.dir = p, p \in Dirs, c.phase = "open", FrameLook(c)
      PROVE  /\ Ahead(t) = (A \ {p}) \cup Below(p)
             /\ t # <<>> /\ Len(t) = Len(s) + 1 /\ t[1].dir = p
             /\ \A i \in 1 .. Len(t) : t[i] = c \/ t[i] = f \/ \E j \in 2 .. Len(s) : t[i] = s[j]
  <2>1. Parent[c.dir] = u[1].dir /\ u[1].phase # "open"
    BY <1>2, <1>3, <1>7 DEF Below, Entries
  <2>2. /\ Chain(t) /\ Len(t) = Len(u) + 1 /\ t # <<>> /\ t[1] = c
        /\ \A i \in 2 .. Len(t) : t[i] = u[i - 1]
    BY <1>2, <1>7, <2>1, ChainPush
  <2>3. \A i \in 1 .. Len(t) : i = 1 \/ (i \in 2 .. Len(t) /\ i - 1 \in 1 .. Len(u))
    <3>1. Len(u) \in Nat /\ Len(t) = Len(u) + 1
      BY <1>1, <1>2, <2>2
    <3>2. QED
      BY <3>1
  <2>4. \A i \in 1 .. Len(u) : i + 1 \in 2 .. Len(t) /\ i + 1 \in 1 .. Len(t) /\ (i + 1) - 1 = i
    BY <1>1, <1>2, <2>2
  <2>5. Ahead(t) = Reads(c) \cup Ahead(u)
    <3>1. ASSUME NEW x \in Ahead(t) PROVE x \in Reads(c) \cup Ahead(u)
      BY <2>2, <2>3, <3>1 DEF Ahead
    <3>2. ASSUME NEW x \in Reads(c) PROVE x \in Ahead(t)
      <4>1. 1 \in 1 .. Len(t)
        BY <1>1, <1>2, <2>2
      <4>2. QED
        BY <2>2, <3>2, <4>1 DEF Ahead
    <3>3. ASSUME NEW x \in Ahead(u) PROVE x \in Ahead(t)
      <4>1. PICK i \in 1 .. Len(u) : x \in Reads(u[i])
        BY <3>3 DEF Ahead
      <4>2. i + 1 \in 1 .. Len(t) /\ t[i + 1] = u[i]
        BY <2>2, <2>4
      <4>3. QED
        BY <4>1, <4>2 DEF Ahead
    <3>4. QED
      BY <3>1, <3>2, <3>3
  <2>6. Reads(c) = Below(p)
    BY <1>7 DEF Reads
  <2>7. \A i \in 1 .. Len(t) : t[i] = c \/ t[i] = f \/ \E j \in 2 .. Len(s) : t[i] = s[j]
    BY <1>5, <2>2, <2>3
  <2>8. QED
    BY <1>2, <1>4, <1>7, <2>2, <2>5, <2>6, <2>7
<1>8. QED
  <2>1. CASE \E c : /\ t = <<c>> \o u
                    /\ FrameInv(c) /\ c.dir = p /\ p \in Dirs /\ c.phase = "open" /\ FrameLook(c)
    <3>1. PICK c : /\ t = <<c>> \o u
                   /\ FrameInv(c) /\ c.dir = p /\ p \in Dirs /\ c.phase = "open" /\ FrameLook(c)
      BY <2>1
    <3>2. /\ Ahead(t) = (A \ {p}) \cup Below(p)
          /\ t # <<>> /\ Len(t) = Len(s) + 1 /\ t[1].dir = p
          /\ \A i \in 1 .. Len(t) : t[i] = c \/ t[i] = f \/ \E j \in 2 .. Len(s) : t[i] = s[j]
      BY <1>7, <3>1
    <3>3. NextAhead(s, p, t, Below(p))
      BY <3>2 DEF A, NextAhead
    <3>4. Proceeded(f, s, p, t)
      BY <1>2, <3>1, <3>2 DEF Proceeded
    <3>5. QED
      BY <3>3, <3>4, Zenon
  <2>2. QED
    BY <1>6, <2>1 DEF Proceeds, u

\* An entry is dealt with: it is printed if it is wanted, and then what is below it.
LEMMA PrintLook ==
  ASSUME FilesInv, NEW s, Chain(s), s # <<>>, s[1].phase # "open",
         NEW o \in Seq(Entry \X Nat), Traversal(s, o), NEW p \in Pending(s[1]),
         NEW f, FrameInv(f), f.dir = s[1].dir, f.phase = s[1].phase, FrameLook(f),
         Pending(f) = Pending(s[1]) \ {p},
         call.fn = "TREE_SORT" =>
           /\ f.phase = "print"
           /\ \A i \in 1 .. Len(o) : Parent[o[i][1]] = f.dir => Rank[call.by][o[i][1]] <= Rank[call.by][p]
           /\ \A k \in 1 .. Len(f.table) : Rank[call.by][p] <= Rank[call.by][f.table[k]],
         SortedSoFar(f, o),
         NEW t, Proceeds(f, s, p, t),
         NEW o2, o2 = Printing(o, p)
  PROVE  Traversal(t, o2)
<1> DEFINE d == s[1].dir
           A == Ahead(s)
<1>1. Len(s) \in Nat /\ Len(s) >= 1 /\ 1 \in 1 .. Len(s)
  BY DEF Chain
<1>2. \A i \in 1 .. Len(s) : FrameLook(s[i]) /\ SortedSoFar(s[i], o)
  BY DEF Traversal
<1>3. d \in Visible \cup {Here} /\ p \in Below(d) /\ p \in A
  <2>1. FrameLook(s[1]) /\ p \in Reads(s[1])
    BY <1>1, <1>2 DEF Reads
  <2>2. QED
    BY <1>1, <2>1 DEF FrameLook, Ahead
<1>4. Shown(o) = Done(A) /\ OrderOf(o) /\ (call.fn = "TREE_SORT" => SiblingsOf(o))
  BY DEF Traversal
<1>5. Len(s) = 1 + Cardinality(Up(d)) /\ Up(d) \cap A = {} /\ Inside(d, o)
  BY DEF Traversal, TopLook
<1>6. (\E B : NextAhead(s, p, t, B)) /\ Proceeded(f, s, p, t)
  BY <1>2, ProceedsAhead
<1>7. PICK B : NextAhead(s, p, t, B)
  BY <1>6
<1> DEFINE A2 == Ahead(t)
<1>8. /\ Up(p) \cap A2 = {}
      /\ Explored(A2) = Explored(A) \cup ({p} \cap Wanted)
  <2>1. B \subseteq Below(p) /\ A2 = (A \ {p}) \cup B
        /\ (B = Below(p) \/ \A q \in Wanted : p \in Up(q) => q = p)
    BY <1>7 DEF NextAhead
  <2> HIDE DEF A, A2, d
  <2>2. QED
    BY <1>3, <1>5, <2>1, ExploredNext
<1>9. /\ p \in Paths /\ Parent[p] = d /\ Above[p] = Up(d) /\ Up(p) = {p} \cup Up(d) /\ p \notin Up(d)
  BY <1>3, BelowVisible
<1> HIDE DEF A, A2, d
<1>10. /\ Shown(o2) = Done(A2) /\ OrderOf(o2) /\ Inside(d, o2) /\ Inside(p, o2)
       /\ \A i \in 1 .. Len(o) : o[i][1] # p /\ p \notin Up(o[i][1])
       /\ \A i \in 1 .. Len(o2) : \/ i \in 1 .. Len(o) /\ o2[i] = o[i]
                                  \/ o2[i][1] = p
  <2>1. NextEntry(o, d, p, A, A2)
    BY <1>3, <1>4, <1>5, <1>8 DEF NextEntry
  <2>2. Shown(o2) = Done(A2) /\ NextOut(o, o2, d, p)
    BY <2>1, OutNext, Zenon
  <2>3. QED
    BY <2>2 DEF NextOut
<1>11. \A i \in 1 .. Len(o) : o[i][1] \in Paths
  BY <1>4, ShownExplored, VisibleUp
<1>12. call.fn = "TREE_SORT" => SiblingsOf(o2)
  <2>1. SUFFICES ASSUME call.fn = "TREE_SORT" PROVE SiblingsOf(o2)
    OBVIOUS
  <2>2. ASSUME NEW i \in 1 .. Len(o), Above[o[i][1]] = Above[p]
        PROVE  Rank[call.by][o[i][1]] <= Rank[call.by][p]
    <3>1. Parent[o[i][1]] = Parent[p]
      BY <1>9, <1>11, <2>2, SameDirectory
    <3>2. QED
      BY <1>9, <2>1, <3>1 DEF d
  <2>3. CASE p \in Wanted
    <3> DEFINE T == Entry \X Nat
               e == <<p, PadOf(p)>>
    <3>1. o \in Seq(T) /\ e \in T /\ e[1] = p /\ o2 = Append(o, e)
      BY <1>9, <2>3, UpCount DEF PadOf, Entry, Printing
    <3> HIDE DEF T, e
    <3>2. \A i \in 1 .. Len(o) :
            Above[o[i][1]] = Above[e[1]] => Rank[call.by][o[i][1]] <= Rank[call.by][e[1]]
      BY <2>2, <3>1
    <3>3. SiblingsOf(Append(o, e))
      BY <1>4, <2>1, <3>1, <3>2, SiblingsNext
    <3>4. QED
      BY <3>1, <3>3
  <2>4. QED
    BY <1>4, <2>1, <2>3 DEF Printing
<1>13. ASSUME NEW i \in 1 .. Len(t) PROVE FrameLook(t[i]) /\ SortedSoFar(t[i], o2)
  <2>1. CASE t[i] = f
    <3>1. SortedSoFar(f, o2)
      <4>1. SUFFICES ASSUME call.fn = "TREE_SORT", NEW j \in 1 .. Len(o2), Parent[o2[j][1]] = f.dir
                     PROVE  /\ f.phase = "print"
                            /\ \A k \in 1 .. Len(f.table) :
                                 Rank[call.by][o2[j][1]] <= Rank[call.by][f.table[k]]
        BY DEF SortedSoFar
      <4>2. CASE j \in 1 .. Len(o) /\ o2[j] = o[j]
        BY <4>1, <4>2 DEF SortedSoFar
      <4>3. CASE o2[j][1] = p
        BY <4>1, <4>3
      <4>4. QED
        BY <1>10, <4>2, <4>3
    <3>2. QED
      BY <2>1, <3>1
  <2>2. CASE \E j \in 2 .. Len(s) : t[i] = s[j]
    <3>1. PICK j \in 2 .. Len(s) : t[i] = s[j]
      BY <2>2
    <3>2. j \in 1 .. Len(s) /\ s[j].dir # d
      BY <1>1, <3>1, DirsDiffer DEF d
    <3>3. FrameLook(s[j]) /\ SortedSoFar(s[j], o)
      BY <1>2, <3>2
    <3>4. SortedSoFar(s[j], o2)
      BY <1>9, <1>10, <3>2, <3>3 DEF SortedSoFar
    <3>5. QED
      BY <3>1, <3>3, <3>4
  <2>3. CASE t[i].dir = p /\ t[i].phase = "open" /\ FrameLook(t[i])
    <3>1. ASSUME NEW j \in 1 .. Len(o2), Parent[o2[j][1]] = p PROVE FALSE
      <4>1. CASE j \in 1 .. Len(o) /\ o2[j] = o[j]
        <5>1. o[j][1] \in Paths /\ Parent[o[j][1]] = p /\ p \notin Up(o[j][1])
          BY <1>10, <1>11, <3>1, <4>1
        <5>2. p \in Above[o[j][1]]
          BY <1>9, <5>1, AboveIs DEF Up
        <5>3. QED
          BY <5>1, <5>2 DEF Up
      <4>2. CASE o2[j][1] = p
        BY <1>9, <3>1, <4>2 DEF Up
      <4>3. QED
        BY <1>10, <4>1, <4>2
    <3>2. QED
      BY <2>3, <3>1 DEF SortedSoFar
  <2>4. QED
    BY <1>6, <2>1, <2>2, <2>3 DEF Proceeded
<1>14. TopLook(t, o2)
  <2>1. t # <<>> /\ \/ Len(t) = Len(s) /\ t[1].dir = d
                    \/ Len(t) = Len(s) + 1 /\ t[1].dir = p
    BY <1>6 DEF Proceeded, d
  <2>2. CASE Len(t) = Len(s) /\ t[1].dir = d
    BY <1>5, <1>8, <1>9, <1>10, <2>2 DEF TopLook, A2
  <2>3. CASE Len(t) = Len(s) + 1 /\ t[1].dir = p
    <3>1. Cardinality(Up(p)) = Cardinality(Up(d)) + 1 /\ Cardinality(Up(d)) \in Nat
      BY <1>9, UpCount
    <3>2. QED
      BY <1>5, <1>8, <1>10, <2>3, <3>1 DEF TopLook, A2
  <2>4. QED
    BY <2>1, <2>2, <2>3
<1>15. QED
  BY <1>10, <1>12, <1>13, <1>14 DEF Traversal, A2

\* As long as the files and the command are the same, so is what is known.
LEMMA SameLook ==
  ASSUME UNCHANGED <<fs, call>>, Traversal(stack', out')
  PROVE  Traversal(stack, out)'
<1>1. fs' = fs /\ call' = call
  OBVIOUS
<1>2. Visible' = Visible
  BY <1>1 DEF Visible
<1>3. Wanted' = Wanted
  BY <1>1, <1>2 DEF Wanted
<1>4. Ahead(stack)' = Ahead(stack')
  BY <1>1 DEF Ahead, Reads, Below, Entries
<1>5. Done(Ahead(stack))' = Done(Ahead(stack'))
  BY <1>1, <1>3, <1>4 DEF Done, Explored, PadOf
<1>6. TopLook(stack, out)'
  BY <1>4 DEF Traversal, TopLook, Inside
<1>7. ASSUME NEW i \in 1 .. Len(stack') PROVE FrameLook(stack[i])' /\ SortedSoFar(stack[i], out)'
  BY <1>1, <1>2 DEF Traversal, FrameLook, SortedSoFar, FnOf, Level, Below, Entries
<1>8. OrderOf(out)'
  BY DEF Traversal, OrderOf
<1>9. (call.fn = "TREE_SORT" => SiblingsOf(out))'
  BY <1>1 DEF Traversal, SiblingsOf
<1>10. QED
  BY <1>5, <1>6, <1>7, <1>8, <1>9 DEF Traversal, Shown

\* A sequence in which nothing occurs twice is as long as it has elements.
LEMMA InjectiveCount ==
  ASSUME NEW T, NEW r \in Seq(T), Injective(r)
  PROVE  IsFiniteSet(Range(r)) /\ Len(r) = Cardinality(Range(r))
<1> DEFINE D == 1 .. Len(r)
           S == Range(r)
<1>1. Len(r) \in Nat /\ r \in [D -> S] /\ S = {r[i] : i \in D}
  BY DEF Range
<1>2. IsFiniteSet(D) /\ Cardinality(D) = Len(r)
  <2> DEFINE n == Len(r)
  <2>1. n \in Nat
    BY <1>1
  <2> HIDE DEF n
  <2>2. IsFiniteSet(1 .. n) /\ Cardinality(1 .. n) = n
    BY <2>1, FS_Interval
  <2>3. QED
    BY <2>2 DEF n
<1> HIDE DEF S
<1>3. r \in Surjection(D, S) /\ r \in Injection(D, S)
  BY <1>1 DEF Surjection, Injection, IsInjective, Injective
<1> HIDE DEF D
<1>4. IsFiniteSet(S) /\ (Cardinality(S) = Cardinality(D) <=> r \in Injection(D, S))
  BY <1>2, <1>3, FS_Surjection
<1>5. QED
  BY <1>2, <1>3, <1>4 DEF S

-----------------------------------------------------------------------------
\* A traversal is under way, and nothing disturbs it.
Travels == IInv /\ FilesInv /\ Recursive /\ Traversal(stack, out)

\* The function that runs in it.
LEMMA TravelTop ==
  ASSUME Travels, stack # <<>>
  PROVE  /\ Chain(stack) /\ top = stack[1] /\ FrameInv(top) /\ top \in Frames
         /\ FrameLook(top) /\ SortedSoFar(top, out) /\ ~Listing /\ ~Scans
         /\ (top.fn = "treePrintSort" <=> call.fn = "TREE_SORT")
         /\ (Collecting <=> Running("read") /\ call.fn = "TREE_SORT")
<1>1. /\ Chain(stack) /\ top = stack[1] /\ FrameInv(top) /\ top \in Frames
      /\ Len(stack) \in Nat /\ Len(stack) >= 1
  BY TopType DEF Travels, IInv, StackInv
<1>2. 1 \in 1 .. Len(stack)
  BY <1>1
<1>3. FrameLook(top) /\ SortedSoFar(top, out)
  BY <1>1, <1>2 DEF Travels, Traversal
<1>4. ~Listing /\ ~Scans /\ call.fn # "SORTED_LIST_PROPERTY"
  BY DEF Travels, Recursive, Listing, ListFunctions, Scans
<1>5. top.fn = "treePrintSort" <=> call.fn = "TREE_SORT"
  BY <1>3 DEF FrameLook, FnOf, Travels, Recursive
<1>6. QED
  BY <1>1, <1>3, <1>4, <1>5 DEF Collecting

\* Its directory is opened.
LEMMA OpenLook ==
  ASSUME Travels, OpenDir
  PROVE  Traversal(stack', out')
<1>1. stack # <<>> /\ top.phase = "open" /\ out' = out
  BY DEF OpenDir, Running
<1>2. /\ Chain(stack) /\ top = stack[1] /\ FrameInv(top) /\ top \in Frames
      /\ FrameLook(top) /\ SortedSoFar(top, out) /\ ~Listing /\ ~Scans
  BY <1>1, TravelTop
<1> DEFINE entries == Below(top.dir)
           f == [top EXCEPT !.phase = "read", !.left = entries]
<1>3. stack' = <<f>> \o Tail(stack)
  BY <1>2 DEF OpenDir, CanOpenDir, Become, Below
<1>4. entries \subseteq Paths /\ \A p \in entries : Parent[p] = top.dir
  BY DEF Below, Entries, Travels, FilesInv
<1> HIDE DEF entries
<1>5. top.left = {} /\ top.table \in Seq(Entry) /\ Range(top.table) = {}
  BY <1>1, <1>2 DEF FrameInv, Frames, Pending
<1>6. Len(top.table) = 0
  <2> DEFINE table == top.table
  <2>1. table \in Seq(Entry) /\ {table[i] : i \in DOMAIN table} = {}
    BY <1>5 DEF Range
  <2> HIDE DEF table
  <2>2. Len(table) \in Nat /\ (Len(table) # 0 => table[1] \in {table[i] : i \in DOMAIN table})
    BY <2>1
  <2>3. Len(table) = 0
    BY <2>1, <2>2
  <2>4. QED
    BY <2>3 DEF table
<1>7. /\ f \in Frames /\ f.dir = top.dir /\ f.fn = top.fn /\ f.pad = top.pad
      /\ f.phase = "read" /\ f.left = entries /\ f.table = top.table
  BY <1>2, <1>4 DEF Frames, Entry
<1> HIDE DEF f
<1>8. Pending(f) = entries /\ Reads(f) = Reads(top)
  BY <1>1, <1>5, <1>7 DEF Pending, Reads, entries
<1>9. FrameInv(f)
  BY <1>4, <1>6, <1>7, <1>8, LimitAssumption DEF FrameInv
<1>10. FrameLook(f)
  <2>1. Injective(f.table)
    BY <1>6, <1>7 DEF Injective
  <2>2. f.fn # "treePrintSort" => f.table = <<>>
    BY <1>2, <1>7 DEF FrameLook
  <2>3. QED
    BY <1>2, <1>5, <1>7, <1>8, <2>1, <2>2 DEF FrameLook, entries
<1>11. SortedSoFar(f, out)
  BY <1>1, <1>2, <1>7 DEF SortedSoFar
<1>12. QED
  BY <1>1, <1>2, <1>3, <1>7, <1>8, <1>9, <1>10, <1>11, LoopLook DEF Travels

\* It collects an entry.
LEMMA CollectLook ==
  ASSUME Travels, Collect
  PROVE  Traversal(stack', out')
<1>1. PICK p \in NextEntries : Become([Consume(p) EXCEPT !.table = Append(@, p)])
  BY DEF Collect
<1>2. stack # <<>> /\ top.phase = "read" /\ out' = out
  BY DEF Collect, Collecting, Running
<1>3. /\ Chain(stack) /\ top = stack[1] /\ FrameInv(top) /\ top \in Frames
      /\ FrameLook(top) /\ SortedSoFar(top, out) /\ ~Listing
      /\ top.fn = "treePrintSort"
  BY <1>2, TravelTop DEF Collect, Collecting
<1>4. p \in top.left /\ p \in Entry
  BY <1>1, <1>2, <1>3 DEF NextEntries, Running, Frames
<1> DEFINE g == [top EXCEPT !.left = top.left \ {p}, !.table = Append(top.table, p)]
<1>5. stack' = <<g>> \o Tail(stack)
  <2>1. [Consume(p) EXCEPT !.table = Append(@, p)] = g
    BY <1>2, <1>3 DEF Consume, Frames
  <2>2. QED
    BY <1>1, <2>1 DEF Become
<1>6. top.table \in Seq(Entry) /\ Len(top.table) < STAT_BUFFER_SIZE
  <2>1. top.table \in Seq(Entry) /\ ~(Len(top.table) >= STAT_BUFFER_SIZE)
    BY <1>3 DEF Collect, Full, Frames
  <2>2. QED
    BY <2>1, LimitAssumption
<1> DEFINE table == Append(top.table, p)
<1>7. /\ table \in Seq(Entry) /\ Len(table) = Len(top.table) + 1 /\ Len(top.table) \in Nat
      /\ table[Len(top.table) + 1] = p
      /\ \A i \in 1 .. Len(top.table) : table[i] = top.table[i]
  BY <1>4, <1>6
<1>8. Range(table) = Range(top.table) \cup {p}
  BY <1>6, <1>7 DEF Range
<1>9. Injective(table)
  <2>1. \A i \in 1 .. Len(top.table) : top.table[i] # p
    BY <1>3, <1>4, <1>6 DEF FrameLook, Range
  <2>2. \A i \in 1 .. Len(table) : i \in 1 .. Len(top.table) \/ i = Len(top.table) + 1
    BY <1>7
  <2>3. Injective(top.table)
    BY <1>3 DEF FrameLook
  <2> HIDE DEF table
  <2>4. QED
    BY <1>7, <2>1, <2>2, <2>3 DEF Injective
<1> HIDE DEF table
<1>10. /\ g \in Frames /\ g.dir = top.dir /\ g.fn = top.fn /\ g.pad = top.pad
       /\ g.phase = "read" /\ g.left = top.left \ {p} /\ g.table = table
  <2>1. g = [top EXCEPT !.left = top.left \ {p}, !.table = table]
    BY DEF table
  <2>2. QED
    BY <1>2, <1>3, <1>7, <2>1 DEF Frames
<1> HIDE DEF g
<1>11. Pending(g) = Pending(top) /\ Reads(g) = Reads(top)
  BY <1>2, <1>4, <1>8, <1>10 DEF Pending, Reads
<1>12. FrameInv(g)
  BY <1>3, <1>6, <1>7, <1>10, <1>11, LimitAssumption DEF FrameInv
<1>13. FrameLook(g)
  <2>1. g.left \cap Range(g.table) = {}
    BY <1>3, <1>8, <1>10 DEF FrameLook
  <2>2. QED
    BY <1>3, <1>9, <1>10, <1>11, <2>1 DEF FrameLook
<1>14. SortedSoFar(g, out)
  BY <1>2, <1>3, <1>10 DEF SortedSoFar
<1>15. QED
  BY <1>2, <1>3, <1>5, <1>10, <1>11, <1>12, <1>13, <1>14, LoopLook DEF Travels

\* It sorts its table.
LEMMA SortLook ==
  ASSUME Travels, Sort
  PROVE  Traversal(stack', out')
<1>1. PICK s \in SetToSeqs(Range(top.table)) :
        Ordered(s, call.by) /\ Become([top EXCEPT !.phase = "print", !.table = s])
  BY DEF Sort
<1>2. stack # <<>> /\ top.phase = "read" /\ out' = out
  BY DEF Sort, Collecting, Running
<1>3. /\ Chain(stack) /\ top = stack[1] /\ FrameInv(top) /\ top \in Frames
      /\ FrameLook(top) /\ SortedSoFar(top, out) /\ ~Listing
      /\ top.fn = "treePrintSort"
  BY <1>2, TravelTop DEF Sort, Collecting
<1>4. top.left = {}
  BY <1>2, <1>3 DEF Sort, Collecting, NextEntries, Running
<1>5. top.table \in Seq(Entry) /\ Injective(top.table)
  BY <1>3 DEF Frames, FrameLook
<1>6. IsFiniteSet(Range(top.table))
  BY <1>5, InjectiveCount
<1>7. s \in Seq(Range(top.table)) /\ Injective(s) /\ Range(s) = Range(top.table)
  BY <1>6, OrdersIs
<1>8. s \in Seq(Entry)
  <2>1. Range(top.table) \subseteq Entry
    BY <1>5 DEF Range
  <2>2. QED
    BY <1>7, <2>1
<1> DEFINE g == [top EXCEPT !.phase = "print", !.table = s]
<1>9. /\ g \in Frames /\ g.dir = top.dir /\ g.fn = top.fn /\ g.pad = top.pad
      /\ g.phase = "print" /\ g.left = top.left /\ g.table = s
  BY <1>3, <1>8 DEF Frames
<1>10. stack' = <<g>> \o Tail(stack)
  BY <1>1 DEF Become
<1> HIDE DEF g
<1>11. Pending(g) = Pending(top) /\ Reads(g) = Reads(top)
  BY <1>2, <1>7, <1>9 DEF Pending, Reads
<1>12. FrameInv(g)
  BY <1>3, <1>9, <1>11 DEF FrameInv
<1>13. FrameLook(g)
  <2>1. g.left \cap Range(g.table) = {} /\ g.left = {}
    BY <1>4, <1>9
  <2>2. QED
    BY <1>1, <1>3, <1>7, <1>9, <1>11, <2>1 DEF FrameLook
<1>14. SortedSoFar(g, out)
  BY <1>2, <1>3, <1>9 DEF SortedSoFar
<1>15. QED
  BY <1>2, <1>3, <1>9, <1>10, <1>11, <1>12, <1>13, <1>14, LoopLook DEF Travels

\* It returns at the end of its directory.
LEMMA ReturnLook ==
  ASSUME Travels, EndDir
  PROVE  Traversal(stack', out')
<1>1. /\ stack # <<>> /\ top.phase \in {"read", "print"} /\ out' = out /\ stack' = Tail(stack)
      /\ ~Collecting /\ NextEntries = {}
  BY DEF EndDir, Running, Return
<1>2. /\ Chain(stack) /\ top = stack[1] /\ top \in Frames /\ FrameLook(top) /\ ~Listing
      /\ (top.fn = "treePrintSort" <=> call.fn = "TREE_SORT")
      /\ (Collecting <=> Running("read") /\ call.fn = "TREE_SORT")
  BY <1>1, TravelTop
<1>3. Reads(top) = {}
  <2>1. CASE Running("read")
    <3>1. top.left = {} /\ top.table = <<>> /\ top.phase = "read"
      BY <1>1, <1>2, <2>1 DEF NextEntries, FrameLook, Running
    <3>2. QED
      BY <3>1 DEF Reads, Pending, Range
  <2>2. CASE Running("print")
    <3>1. top.left = {} /\ top.phase = "print" /\ top.table \in Seq(Entry)
      BY <1>2, <2>2 DEF FrameLook, Running, Frames
    <3>2. {top.table[i] : i \in DOMAIN top.table \cap {1}} = {}
      BY <1>1, <2>2, <3>1 DEF NextEntries, Running
    <3>3. DOMAIN top.table = {}
      BY <3>1, <3>2
    <3>4. QED
      BY <3>1, <3>3 DEF Reads, Pending, Range
  <2>3. QED
    BY <2>1, <2>2 DEF EndDir
<1>4. QED
  BY <1>1, <1>2, <1>3, EndLook DEF Travels

\* What the running function does with an entry is what the output says.
LEMMA PrintsWanted ==
  ASSUME Travels, NEW p \in NextEntries, ~Collecting
  PROVE  /\ p \in Below(top.dir) /\ top.dir \in Visible \cup {Here} /\ p \in Visible
         /\ (IF Prints(p) THEN Append(out, <<p, top.pad>>) ELSE out) = Printing(out, p)
<1>1. stack # <<>> /\ p \in Pending(top)
  BY NextPending DEF Travels, IInv, StackInv
<1>2. FrameLook(top)
  BY <1>1, TravelTop
<1> DEFINE d == top.dir
<1>3. d \in Visible \cup {Here} /\ p \in Below(d)
  BY <1>1, <1>2 DEF FrameLook
<1>4. /\ p \in Visible /\ p \in Paths /\ Above[p] = Up(d) /\ Up(p) = {p} \cup Up(d) /\ FilesInv
  BY <1>3, BelowVisible DEF Travels
<1>5. Depth(p) = Cardinality(Up(d))
  BY <1>4 DEF Depth
<1>6. top.pad = PadOf(p)
  BY <1>2, <1>5 DEF FrameLook, Level, PadOf
<1>7. Prints(p) <=> p \in Wanted
  <2>1. CASE call.fn = "FIND"
    <3>1. p \in Wanted <=> p \in Match[call.word] \/ Up(d) \cap Match[call.word] # {}
      BY <1>4, <2>1 DEF Wanted
    <3>2. top.fn = "findRecurseDirPrint" <=> Up(d) \cap Match[call.word] = {}
      BY <1>2, <2>1 DEF FrameLook, FnOf
    <3>3. QED
      BY <3>1, <3>2 DEF Prints
  <2>2. CASE call.fn # "FIND"
    <3>1. p \in Wanted
      BY <1>2, <1>4, <1>6, <2>2 DEF Wanted, FrameLook, PadOf
    <3>2. top.fn # "findRecurseDirPrint"
      BY <1>2, <2>2 DEF FrameLook, FnOf
    <3>3. QED
      BY <3>1, <3>2 DEF Prints
  <2>3. QED
    BY <2>1, <2>2
<1>8. QED
  BY <1>3, <1>4, <1>6, <1>7 DEF Printing

\* It calls a function for a directory if something in it may be wanted, and the right one.
LEMMA CalleeLook ==
  ASSUME Travels, NEW p \in NextEntries, ~Collecting
  PROVE  \/ Callee(p) = <<>> /\ \A q \in Wanted : p \in Up(q) => q = p
         \/ \E c : /\ Callee(p) = <<c>> /\ FrameInv(c) /\ c.dir = p /\ p \in Dirs
                   /\ c.phase = "open" /\ FrameLook(c)
<1>1. stack # <<>> /\ p \in Pending(top)
  BY NextPending DEF Travels, IInv, StackInv
<1>2. /\ FrameLook(top) /\ ~Listing /\ top \in Frames
      /\ (top.fn = "treePrintSort" <=> call.fn = "TREE_SORT")
  BY <1>1, TravelTop
<1> DEFINE d == top.dir
<1>3. d \in Visible \cup {Here} /\ p \in Below(d)
  BY <1>1, <1>2 DEF FrameLook
<1>4. /\ p \in Visible /\ p \in Paths /\ p \in fs /\ Above[p] = Up(d) /\ Up(p) = {p} \cup Up(d)
      /\ p \notin Up(d) /\ FilesInv /\ Parent[p] = d
  BY <1>3, BelowVisible DEF Travels
<1>5. Cardinality(Up(p)) = Cardinality(Up(d)) + 1 /\ Depth(p) = Cardinality(Up(d)) /\ Depth(p) \in Nat
  BY <1>4, UpCount
<1>6. top.pad = Level(d) /\ top.fn = FnOf(d) /\ (call.fn # "FIND" => top.pad <= call.max)
  BY <1>2 DEF FrameLook
<1>7. CASE p \notin Dirs
  <2>1. Callee(p) = <<>>
    BY <1>7 DEF Callee
  <2>2. ASSUME NEW q \in Wanted, p \in Up(q), q # p PROVE FALSE
    <3>1. PICK c \in Up(q) : c \in Below(p)
      BY <1>4, <2>2, WayDown DEF Wanted
    <3>2. c \in Paths /\ Parent[c] = p
      BY <1>4, <3>1 DEF Below, Entries, FilesInv
    <3>3. p # Here
      BY <1>4, PathsAssumption DEF Dots
    <3>4. QED
      BY <1>7, <3>2, <3>3, PathsAssumption
  <2>3. QED
    BY <2>1, <2>2
<1>8. CASE p \in Dirs /\ call.fn # "FIND" /\ ~Deeper
  <2>1. Callee(p) = <<>>
    BY <1>2, <1>6, <1>8 DEF Callee, FnOf
  <2>2. ASSUME NEW q \in Wanted, p \in Up(q), q # p PROVE FALSE
    <3>1. q \in Paths /\ Depth(q) <= call.max
      BY <1>4, <1>8, VisibleUp DEF Wanted
    <3>2. p \in Above[q]
      BY <2>2, <3>1 DEF Up
    <3>3. Depth(p) + 1 <= Depth(q) /\ Depth(q) \in Nat
      BY <1>4, <3>1, <3>2, DeeperInside, UpCount
    <3>4. call.max \in Nat
      BY DEF Travels, IInv, DataInv, Calls
    <3>5. top.pad = Depth(p) /\ ~(top.pad < call.max)
      BY <1>5, <1>6, <1>8 DEF Level, Deeper
    <3>6. QED
      BY <1>5, <3>1, <3>3, <3>4, <3>5
  <2>3. QED
    BY <2>1, <2>2
<1>9. CASE p \in Dirs /\ (call.fn = "FIND" \/ Deeper)
  <2> DEFINE c == Frame(FnOf(p), p, Level(p))
  <2>1. Callee(p) = <<c>>
    <3>1. CASE call.fn # "FIND"
      <4>1. FnOf(p) = top.fn /\ top.fn \in {"treePrint", "treePrintSort"}
        BY <1>6, <3>1 DEF FnOf
      <4>2. Level(p) = top.pad + 1
        BY <1>5, <1>6, <3>1 DEF Level
      <4>3. QED
        BY <1>2, <1>9, <3>1, <4>1, <4>2 DEF Callee
    <3>2. CASE call.fn = "FIND"
      <4>1. Level(p) = 0 /\ top.fn \notin {"treePrint", "treePrintSort"}
        BY <1>6, <3>2 DEF Level, FnOf
      <4>2. top.fn = "findRecurseDirPrint" <=> Up(d) \cap Match[call.word] = {}
        BY <1>6, <3>2 DEF FnOf
      <4>3. FnOf(p) = IF top.fn = "findRecurseDirPrint" /\ ~Prints(p)
                      THEN "findRecurseDirPrint" ELSE "recurseDirPrint"
        BY <1>4, <3>2, <4>2 DEF FnOf, Prints
      <4>4. QED
        BY <1>2, <1>9, <4>1, <4>3 DEF Callee
    <3>3. QED
      BY <3>1, <3>2
  <2>2. /\ c.fn = FnOf(p) /\ c.dir = p /\ c.pad = Level(p) /\ c.phase = "open"
        /\ c.left = {} /\ c.table = <<>> /\ c \in Frames
    <3>1. FnOf(p) \in {"findRecurseDirPrint", "recurseDirPrint", "treePrint", "treePrintSort"}
      BY DEF FnOf
    <3>2. Level(p) \in Nat
      BY <1>5 DEF Level
    <3>3. <<>> \in Seq(Entry)
      OBVIOUS
    <3>4. QED
      BY <1>9, <3>1, <3>2, <3>3 DEF Frame, Frames
  <2> HIDE DEF c
  <2>3. Pending(c) = {} /\ Range(c.table) = {} /\ Injective(c.table)
    BY <2>2 DEF Pending, Range, Injective
  <2>4. FrameInv(c)
    BY <2>2, <2>3 DEF FrameInv
  <2>5. call.fn # "FIND" => c.pad <= call.max
    <3>1. call.max \in Nat
      BY DEF Travels, IInv, DataInv, Calls
    <3>2. call.fn # "FIND" => top.pad < call.max /\ top.pad = Cardinality(Up(d)) /\ c.pad = top.pad + 1
      BY <1>5, <1>6, <1>9, <2>2 DEF Level, Deeper
    <3>3. QED
      BY <1>5, <3>1, <3>2
  <2>6. FrameLook(c)
    BY <1>4, <2>2, <2>3, <2>5 DEF FrameLook
  <2>7. QED
    BY <1>9, <2>1, <2>2, <2>4, <2>6
<1>10. QED
  BY <1>7, <1>8, <1>9

\* An entry is printed.
LEMMA EntryLook ==
  ASSUME Travels, PrintEntry
  PROVE  Traversal(stack', out')
<1>1. PICK p \in NextEntries :
        /\ out' = IF Prints(p) THEN Append(out, <<p, top.pad>>) ELSE out
        /\ stack' = Callee(p) \o <<Consume(p)>> \o Tail(stack)
  BY DEF PrintEntry
<1>2. /\ stack # <<>> /\ p \in Pending(top) /\ ~Collecting /\ Chain(stack)
      /\ top.phase \in {"read", "print"}
  BY NextPending DEF Travels, IInv, StackInv, PrintEntry
<1>3. /\ top = stack[1] /\ top \in Frames /\ FrameLook(top) /\ SortedSoFar(top, out) /\ ~Listing
      /\ (top.fn = "treePrintSort" <=> call.fn = "TREE_SORT")
      /\ (Collecting <=> Running("read") /\ call.fn = "TREE_SORT")
  BY <1>2, TravelTop
<1>4. out' = Printing(out, p)
  BY <1>1, <1>2, PrintsWanted
<1> DEFINE f == Consume(p)
           table == IF top.phase = "print" THEN Tail(top.table) ELSE top.table
<1>5. FrameInv(f)
  BY <1>2, ConsumeType
<1>6. /\ f.left = top.left \ {p} /\ f.table = table /\ f.dir = top.dir
      /\ f.phase = top.phase /\ f.fn = top.fn /\ f.pad = top.pad /\ f \in Frames
  BY <1>3, <1>5 DEF Consume, Frames, FrameInv
<1>7. stack \in Seq(Frames) /\ Len(stack) \in Nat /\ Len(stack) >= 1 /\ Tail(stack) \in Seq(Frames)
  BY <1>2 DEF Chain
<1> HIDE DEF f
<1>8. Proceeds(f, stack, p, stack')
  <2>1. CASE Callee(p) = <<>> /\ \A q \in Wanted : p \in Up(q) => q = p
    <3>1. <<>> \o <<f>> = <<f>>
      BY <1>6
    <3>2. stack' = <<f>> \o Tail(stack)
      BY <1>1, <2>1, <3>1 DEF f
    <3>3. QED
      BY <2>1, <3>2 DEF Proceeds
  <2>2. ASSUME NEW c, Callee(p) = <<c>>, FrameInv(c), c.dir = p, p \in Dirs,
               c.phase = "open", FrameLook(c)
        PROVE  Proceeds(f, stack, p, stack')
    <3> DEFINE rest == Tail(stack)
    <3>1. stack' = <<c>> \o <<f>> \o rest
      BY <1>1, <2>2 DEF f
    <3>2. c \in Frames /\ f \in Frames /\ rest \in Seq(Frames)
      BY <1>6, <1>7, <2>2 DEF FrameInv
    <3> HIDE DEF rest
    <3>3. <<c>> \o <<f>> \o rest = <<c>> \o (<<f>> \o rest)
      BY <3>2
    <3>4. stack' = <<c>> \o (<<f>> \o Tail(stack))
      BY <3>1, <3>3 DEF rest
    <3>5. QED
      BY <2>2, <3>4 DEF Proceeds
  <2>3. QED
    BY <1>2, <2>1, <2>2, CalleeLook
<1>9. ASSUME top.phase = "print"
      PROVE  /\ top.table # <<>> /\ p = top.table[1] /\ top.left = {} /\ top.table \in Seq(Entry)
             /\ Len(top.table) \in Nat /\ Len(table) = Len(top.table) - 1 /\ table \in Seq(Entry)
             /\ \A i \in 1 .. Len(table) :
                  table[i] = top.table[i + 1] /\ i + 1 \in 1 .. Len(top.table) /\ i + 1 # 1
  <2>1. top.table \in Seq(Entry) /\ top.left = {}
    BY <1>3, <1>9 DEF FrameLook, Frames
  <2>2. top.table # <<>> /\ p = top.table[1]
    BY <1>9, <2>1 DEF NextEntries, Running
  <2>3. QED
    BY <1>9, <2>1, <2>2
<1>10. top.phase = "read" => top.table = <<>> /\ p \in top.left
  <2>1. SUFFICES ASSUME top.phase = "read" PROVE top.table = <<>> /\ p \in top.left
    OBVIOUS
  <2>2. Running("read")
    BY <1>2, <2>1, NextPending DEF Running
  <2>3. QED
    BY <1>2, <1>3, <2>2 DEF FrameLook, NextEntries
<1>11. Pending(f) = Pending(top) \ {p} /\ f.left \cap Range(f.table) = {} /\ Injective(f.table)
       /\ (f.phase = "print" => f.left = {} /\ Ordered(f.table, call.by))
  <2>1. CASE top.phase = "read"
    <3>1. f.table = <<>> /\ top.table = <<>>
      BY <1>6, <1>10, <2>1
    <3>2. QED
      BY <1>6, <2>1, <3>1 DEF Pending, Range, Injective
  <2>2. CASE top.phase = "print"
    <3>1. Injective(top.table) /\ Ordered(top.table, call.by)
      BY <1>3, <2>2 DEF FrameLook
    <3> HIDE DEF table
    <3>2. Range(table) = Range(top.table) \ {p}
      <4>1. ASSUME NEW x \in Range(table) PROVE x \in Range(top.table) /\ x # p
        <5>1. PICK i \in 1 .. Len(table) : x = table[i]
          BY <1>9, <2>2, <4>1 DEF Range
        <5>2. x = top.table[i + 1] /\ i + 1 \in 1 .. Len(top.table) /\ i + 1 # 1 /\ 1 \in 1 .. Len(top.table)
          BY <1>9, <2>2, <5>1
        <5>3. x \in Range(top.table)
          BY <1>9, <2>2, <5>2 DEF Range
        <5>4. top.table[i + 1] # top.table[1]
          BY <3>1, <5>2, Zenon DEF Injective
        <5>5. QED
          BY <1>9, <2>2, <5>2, <5>3, <5>4
      <4>2. ASSUME NEW x \in Range(top.table), x # p PROVE x \in Range(table)
        <5>1. PICK i \in 1 .. Len(top.table) : x = top.table[i]
          BY <1>9, <2>2, <4>2 DEF Range
        <5>2. i - 1 \in 1 .. Len(table) /\ (i - 1) + 1 = i
          BY <1>9, <2>2, <4>2, <5>1
        <5>3. x = table[i - 1]
          BY <1>9, <2>2, <5>1, <5>2
        <5>4. QED
          BY <1>9, <2>2, <5>2, <5>3 DEF Range
      <4>3. QED
        BY <4>1, <4>2
    <3>3. Injective(table)
      BY <1>9, <2>2, <3>1 DEF Injective
    <3>4. Ordered(table, call.by)
      <4>1. ASSUME NEW i \in 1 .. Len(table), NEW j \in 1 .. Len(table), i < j
            PROVE  Rank[call.by][table[i]] <= Rank[call.by][table[j]]
        <5>1. /\ i + 1 \in 1 .. Len(top.table) /\ j + 1 \in 1 .. Len(top.table) /\ i + 1 < j + 1
              /\ table[i] = top.table[i + 1] /\ table[j] = top.table[j + 1]
          BY <1>9, <2>2, <4>1
        <5>2. DOMAIN top.table = 1 .. Len(top.table)
          BY <1>9, <2>2
        <5>3. Rank[call.by][top.table[i + 1]] <= Rank[call.by][top.table[j + 1]]
          BY <3>1, <5>1, <5>2, Zenon DEF Ordered
        <5>4. QED
          BY <5>1, <5>3
      <4>2. DOMAIN table = 1 .. Len(table)
        BY <1>9, <2>2
      <4>3. QED
        BY <4>1, <4>2 DEF Ordered
    <3>5. QED
      BY <1>6, <1>9, <2>2, <3>2, <3>3, <3>4 DEF Pending
  <2>3. QED
    BY <1>2, <2>1, <2>2
<1>12. FrameLook(f)
  <2>1. f.fn # "treePrintSort" => f.table = <<>> /\ f.phase # "print"
    BY <1>2, <1>3, <1>6, <1>10 DEF FrameLook
  <2> HIDE DEF table
  <2>2. QED
    BY <1>3, <1>6, <1>11, <2>1 DEF FrameLook
<1>13. ASSUME call.fn = "TREE_SORT"
       PROVE  /\ f.phase = "print"
              /\ \A i \in 1 .. Len(out) : Parent[out[i][1]] = f.dir =>
                   Rank[call.by][out[i][1]] <= Rank[call.by][p]
              /\ \A k \in 1 .. Len(f.table) : Rank[call.by][p] <= Rank[call.by][f.table[k]]
  <2>1. top.phase = "print"
    BY <1>2, <1>3, <1>13, NextPending DEF Running
  <2>2. 1 \in 1 .. Len(top.table)
    BY <1>9, <2>1
  <2>3. \A i \in 1 .. Len(out) : Parent[out[i][1]] = f.dir =>
          Rank[call.by][out[i][1]] <= Rank[call.by][p]
    BY <1>3, <1>6, <1>9, <1>13, <2>1, <2>2 DEF SortedSoFar
  <2>4. \A k \in 1 .. Len(table) : Rank[call.by][p] <= Rank[call.by][table[k]]
    <3>1. Ordered(top.table, call.by)
      BY <1>3, <2>1 DEF FrameLook
    <3> HIDE DEF table
    <3>2. ASSUME NEW k \in 1 .. Len(table)
          PROVE  Rank[call.by][top.table[1]] <= Rank[call.by][top.table[k + 1]]
      BY <1>9, <2>1, <2>2, <3>1 DEF Ordered
    <3>3. QED
      BY <1>9, <2>1, <3>2
  <2>5. QED
    BY <1>6, <2>1, <2>3, <2>4
<1>14. SortedSoFar(f, out)
  <2>1. SUFFICES ASSUME call.fn = "TREE_SORT", NEW i \in 1 .. Len(out), Parent[out[i][1]] = f.dir
                 PROVE  /\ f.phase = "print"
                        /\ \A k \in 1 .. Len(f.table) :
                             Rank[call.by][out[i][1]] <= Rank[call.by][f.table[k]]
    BY DEF SortedSoFar
  <2>2. top.phase = "print"
    BY <1>6, <1>13, <2>1
  <2>3. \A k \in 1 .. Len(top.table) : Rank[call.by][out[i][1]] <= Rank[call.by][top.table[k]]
    BY <1>3, <1>6, <2>1 DEF SortedSoFar
  <2> HIDE DEF table
  <2>4. QED
    BY <1>6, <1>9, <2>2, <2>3
<1>15. out \in Seq(Entry \X Nat) /\ Traversal(stack, out) /\ FilesInv
  BY DEF Travels, IInv, DataInv
<1>16. QED
  <2> HIDE DEF table
  <2>1. f.dir = stack[1].dir /\ f.phase = stack[1].phase /\ stack[1].phase # "open"
    BY <1>2, <1>3, <1>6
  <2>2. p \in Pending(stack[1]) /\ Pending(f) = Pending(stack[1]) \ {p}
    BY <1>2, <1>3, <1>11
  <2>3. QED
    BY <1>2, <1>4, <1>5, <1>8, <1>12, <1>13, <1>14, <1>15, <2>1, <2>2, PrintLook

-----------------------------------------------------------------------------
(***************************************************************************)
(* The loops of list.                                                      *)
(***************************************************************************)

\* Every entry of the current directory, and the two that each directory has.
All == Entries(Here) \cup Dots
Names(o) == [i \in 1 .. Len(o) |-> o[i][1]]

Sorted == {"SORTED_LIST_NORMAL", "SORTED_LIST_PROPERTY"}

\* The options of list go together as its option machine makes them.
ListOptions ==
  /\ call.fn \in {"LIST_NORMAL", "LIST_PROPERTY"} => call.by = "time"
  /\ call.fn = "SORTED_LIST_NORMAL" => call.by = "name"

\* The entries r are as many as list prints, none of them twice; and list name has the first.
Enough(r) == Injective(r) /\ Range(r) \subseteq All /\ Len(r) = Length(Cardinality(All))
Result(r) ==
  /\ Enough(r)
  /\ call.fn \in Sorted => Ordered(r, call.by)
  /\ call.fn = "SORTED_LIST_NORMAL" =>
       \A e \in All \ Range(r) : \A i \in 1 .. Len(r) : Rank["name"][r[i]] <= Rank["name"][e]

\* A loop that reads, and counts, has taken r, and what is left is the rest.
Reading(left, r) ==
  /\ Injective(r) /\ left \cap Range(r) = {} /\ left \cup Range(r) = All
  /\ Len(r) <= Room(call)
  /\ call.fn # "SORTED_LIST_NORMAL" /\ call.by # "name"

ListFrame(f, o) ==
  /\ f.fn = "list" /\ f.pad = 0
  /\ f.phase = "open" => o = <<>>
  /\ f.phase = "read" => /\ Reading(f.left, Names(o) \o f.table)
                         /\ call.fn = "SORTED_LIST_PROPERTY" => o = <<>>
                         /\ call.fn # "SORTED_LIST_PROPERTY" => f.table = <<>>
  /\ f.phase = "print" => Result(Names(o) \o f.table) /\ call.fn \in Sorted

ListLook(s, o) ==
  /\ \A i \in 1 .. Len(o) : o[i][2] = 0
  /\ s = <<>> => Result(Names(o))
  /\ s # <<>> => ListFrame(s[1], o)

\* The names that are printed.
LEMMA NamesIs ==
  ASSUME NEW o \in Seq(Entry \X Nat), NEW table \in Seq(Entry)
  PROVE  /\ Names(o) \in Seq(Entry) /\ Len(Names(o)) = Len(o) /\ Len(o) \in Nat
         /\ Names(o) \o table \in Seq(Entry) /\ Len(Names(o) \o table) = Len(o) + Len(table)
         /\ Names(o) \o <<>> = Names(o)
         /\ o = <<>> => Names(o) \o table = table
<1>1. Len(o) \in Nat /\ \A i \in 1 .. Len(o) : o[i][1] \in Entry
  OBVIOUS
<1> DEFINE N == Names(o)
<1>2. N \in Seq(Entry) /\ Len(N) = Len(o)
  BY <1>1 DEF Names
<1> HIDE DEF N, Entry
<1>3. N \o table \in Seq(Entry) /\ Len(N \o table) = Len(N) + Len(table) /\ N \o <<>> = N
  BY <1>2
<1>4. o = <<>> => N \o table = table
  <2>1. SUFFICES ASSUME o = <<>> PROVE N \o table = table
    OBVIOUS
  <2>2. N = <<>>
    BY <1>2, <2>1
  <2>3. QED
    BY <2>2
<1>5. QED
  BY <1>1, <1>2, <1>3, <1>4 DEF N

\* One more is printed.
LEMMA NamesNext ==
  ASSUME NEW o \in Seq(Entry \X Nat), NEW p \in Entry, NEW n \in Nat
  PROVE  Names(Append(o, <<p, n>>)) = Append(Names(o), p)
<1> DEFINE e == <<p, n>>
           T == Entry \X Nat
           o2 == Append(o, e)
<1>1. e \in T /\ e[1] = p /\ o \in Seq(T)
  OBVIOUS
<1> HIDE DEF e, T
<1>2. /\ Len(o2) = Len(o) + 1 /\ Len(o) \in Nat /\ o2[Len(o) + 1] = e
      /\ \A i \in 1 .. Len(o) : o2[i] = o[i]
  BY <1>1, AppendIs
<1> HIDE DEF o2
<1> DEFINE N == Names(o)
           M == Append(N, p)
           N2 == Names(o2)
<1>3. N \in Seq(Entry) /\ Len(N) = Len(o) /\ \A i \in 1 .. Len(o) : N[i] = o[i][1]
  <2>1. <<>> \in Seq(Entry)
    OBVIOUS
  <2>2. N \in Seq(Entry) /\ Len(N) = Len(o)
    BY <2>1, NamesIs
  <2>3. QED
    BY <2>2 DEF Names
<1> HIDE DEF N, Entry
<1>4. /\ M \in Seq(Entry) /\ Len(M) = Len(o) + 1 /\ M[Len(o) + 1] = p
      /\ \A i \in 1 .. Len(o) : M[i] = N[i]
  BY <1>3
<1> HIDE DEF M
<1>5. N2 = [i \in 1 .. Len(o) + 1 |-> o2[i][1]]
  BY <1>2 DEF Names
<1>6. M = [i \in 1 .. Len(o) + 1 |-> M[i]]
  BY <1>4
<1>7. \A i \in 1 .. Len(o) + 1 : o2[i][1] = M[i]
  BY <1>1, <1>2, <1>3, <1>4
<1> HIDE DEF N2
<1>8. N2 = M
  BY <1>5, <1>6, <1>7
<1>9. QED
  BY <1>8 DEF N2, M, N, o2, e

\* The first of the table is printed.
LEMMA NamesShift ==
  ASSUME NEW o \in Seq(Entry \X Nat), NEW table \in Seq(Entry), table # <<>>, NEW n \in Nat
  PROVE  Names(Append(o, <<table[1], n>>)) \o Tail(table) = Names(o) \o table
<1> DEFINE p == table[1]
           N == Names(o)
<1>1. p \in Entry
  OBVIOUS
<1>2. N \in Seq(Entry)
  BY NamesIs
<1>3. Names(Append(o, <<p, n>>)) = Append(N, p)
  BY <1>1, NamesNext
<1> HIDE DEF N, Entry
<1>4. table = <<p>> \o Tail(table) /\ Tail(table) \in Seq(Entry)
  OBVIOUS
<1> DEFINE rest == Tail(table)
<1> HIDE DEF rest
<1>5. Append(N, p) \o rest = N \o (<<p>> \o rest)
  BY <1>1, <1>2, <1>4 DEF rest
<1>6. QED
  BY <1>3, <1>4, <1>5 DEF N, p, rest

\* One more element, that is new.
LEMMA AppendNew ==
  ASSUME NEW T, NEW r \in Seq(T), NEW p \in T, Injective(r), p \notin Range(r)
  PROVE  /\ Injective(Append(r, p)) /\ Range(Append(r, p)) = Range(r) \cup {p}
         /\ Len(Append(r, p)) = Len(r) + 1 /\ Append(r, p) \in Seq(T)
<1> DEFINE r2 == Append(r, p)
<1>1. /\ r2 \in Seq(T) /\ Len(r2) = Len(r) + 1 /\ Len(r) \in Nat
      /\ r2[Len(r) + 1] = p
      /\ \A i \in 1 .. Len(r) : r2[i] = r[i]
  OBVIOUS
<1>2. \A i \in 1 .. Len(r) : r[i] # p
  BY DEF Range
<1>3. \A i \in 1 .. Len(r2) : i \in 1 .. Len(r) \/ i = Len(r) + 1
  BY <1>1
<1> HIDE DEF r2
<1>4. Injective(r2)
  BY <1>1, <1>2, <1>3 DEF Injective
<1>5. Range(r2) = Range(r) \cup {p}
  BY <1>1, <1>3 DEF Range
<1>6. QED
  BY <1>1, <1>4, <1>5 DEF r2

\* There are so many entries.
LEMMA AllFinite ==
  ASSUME DataInv
  PROVE  /\ IsFiniteSet(All) /\ Cardinality(All) = Cardinality(Entries(Here)) + 2
         /\ All \subseteq Entry /\ call.max \in Nat
<1> DEFINE E == Entries(Here)
<1>1. E \subseteq fs /\ fs \subseteq Paths /\ IsFiniteSet(fs) /\ call.max \in Nat
  BY DEF DataInv, Calls, Entries
<1>2. IsFiniteSet(E) /\ Cardinality(E) \in Nat
  BY <1>1, FS_Subset, FS_CardinalityType
<1>3. Here \notin E /\ ".." \notin E \cup {Here}
  <2>1. Here # ".."
    BY DEF Here
  <2>2. QED
    BY <1>1, <2>1, PathsAssumption DEF Dots
<1> HIDE DEF E
<1>4. IsFiniteSet(E \cup {Here}) /\ Cardinality(E \cup {Here}) = Cardinality(E) + 1
  BY <1>2, <1>3, FS_AddElement
<1> DEFINE E1 == E \cup {Here}
<1> HIDE DEF E1
<1>5. IsFiniteSet(E1 \cup {".."}) /\ Cardinality(E1 \cup {".."}) = Cardinality(E1) + 1
  BY <1>3, <1>4, FS_AddElement DEF E1
<1>6. All = E1 \cup {".."}
  BY DEF All, E, E1, Dots
<1>7. All \subseteq Entry
  BY <1>1 DEF All, E, Entry
<1>8. QED
  BY <1>1, <1>2, <1>4, <1>5, <1>6, <1>7 DEF E, E1

\* List prints as many entries as there are, or as its loop has room for if it counts.
LEMMA LengthIs ==
  ASSUME DataInv, Listing, NEW n \in Nat
  PROVE  /\ Room(call) \in Nat
         /\ Length(n) = IF (call.fn = "SORTED_LIST_PROPERTY" /\ call.by = "name") \/ n <= Room(call)
                        THEN n ELSE Room(call)
<1>1. /\ call.max \in Nat
      /\ call.max + 1 \in Nat
      /\ call.by \in Orders
      /\ call.fn \in ListFunctions
  <2>1. call \in Calls
    BY DEF DataInv
  <2>2. call.max \in Nat /\ call.by \in Orders
    BY <2>1 DEF Calls
  <2>3. QED
    BY <2>2 DEF Listing
<1>2. Room(call) \in Nat
  BY <1>1 DEF Room
<1>3. ASSUME NEW m \in Nat PROVE Min({m, n}) = IF n <= m THEN n ELSE m
  <2>1. {m, n} \in SUBSET Nat /\ {m, n} # {}
    OBVIOUS
  <2>2. Min({m, n}) \in {m, n} /\ \A j \in {m, n} : Min({m, n}) <= j
    BY <2>1, MinLeast
  <2>3. QED
    BY <2>2
<1>4. CASE call.fn \in {"LIST_NORMAL", "SORTED_LIST_NORMAL"}
  <2>1. Length(n) = Min({call.max, n}) /\ Room(call) = call.max
    BY <1>4 DEF Length, Room
  <2>2. QED
    BY <1>1, <1>2, <1>3, <1>4, <2>1
<1>5. CASE call.fn = "LIST_PROPERTY"
  <2>1. Length(n) = Min({call.max + 1, n}) /\ Room(call) = call.max + 1
    BY <1>5 DEF Length, Room
  <2>2. QED
    BY <1>1, <1>2, <1>3, <1>5, <2>1
<1>6. CASE call.fn = "SORTED_LIST_PROPERTY" /\ call.by # "name"
  <2>1. Length(n) = Min({call.max + 1, n}) /\ Room(call) = call.max + 1
    BY <1>1, <1>6 DEF Length, Room, Orders
  <2>2. QED
    BY <1>1, <1>2, <1>3, <1>6, <2>1
<1>7. CASE call.fn = "SORTED_LIST_PROPERTY" /\ call.by = "name"
  <2>1. Length(n) = n
    BY <1>7 DEF Length
  <2>2. QED
    BY <1>2, <1>7, <2>1
<1>8. QED
  BY <1>1, <1>4, <1>5, <1>6, <1>7 DEF ListFunctions

\* A loop that reads takes one more, ...
LEMMA ReadNext ==
  ASSUME DataInv, Listing, NEW left, NEW r \in Seq(Entry), Reading(left, r),
         NEW p \in left, p \in Entry, ~(Len(r) >= Room(call))
  PROVE  Reading(left \ {p}, Append(r, p))
<1>1. p \notin Range(r) /\ Room(call) \in Nat /\ Len(r) \in Nat
  BY LengthIs DEF Reading
<1>2. /\ Injective(Append(r, p)) /\ Range(Append(r, p)) = Range(r) \cup {p}
      /\ Len(Append(r, p)) = Len(r) + 1
  <2> HIDE DEF Entry
  <2> QED BY <1>1, AppendNew DEF Reading
<1>3. Len(r) + 1 <= Room(call)
  BY <1>1
<1>4. QED
  BY <1>1, <1>2, <1>3 DEF Reading

\* ... and ends when it has as many as there are, or as it has room for.
LEMMA ReadEnds ==
  ASSUME DataInv, Listing, NEW left, NEW r \in Seq(Entry), Reading(left, r),
         left = {} \/ Len(r) >= Room(call)
  PROVE  Enough(r)
<1>1. IsFiniteSet(All) /\ Len(r) \in Nat /\ Cardinality(All) \in Nat
  BY AllFinite, FS_CardinalityType
<1>2. Injective(r) /\ Range(r) \subseteq All /\ Len(r) <= Room(call) /\ call.by # "name"
  BY DEF Reading
<1>3. Len(r) = Cardinality(Range(r)) /\ Len(r) <= Cardinality(All)
  <2>1. Len(r) = Cardinality(Range(r))
    BY <1>2, InjectiveCount
  <2>2. Cardinality(Range(r)) <= Cardinality(All)
    BY <1>1, <1>2, FS_Subset
  <2>3. QED
    BY <2>1, <2>2
<1>4. Len(r) >= Room(call) \/ Len(r) = Cardinality(All)
  BY <1>3 DEF Reading
<1>5. /\ Room(call) \in Nat
      /\ Length(Cardinality(All)) = IF Cardinality(All) <= Room(call)
                                    THEN Cardinality(All) ELSE Room(call)
  BY <1>1, <1>2, LengthIs
<1>6. Len(r) = Length(Cardinality(All))
  BY <1>1, <1>2, <1>3, <1>4, <1>5
<1>7. QED
  BY <1>2, <1>6 DEF Enough

\* The first entries of a sorted directory are a result of list name, and all one of
\* the others.
LEMMA PrefixResult ==
  ASSUME DataInv, ListOptions, Scans, NEW s \in Seq(All), Injective(s), Range(s) = All,
         Ordered(s, call.by)
  PROVE  Result(Scanned(s))
<1>1. /\ IsFiniteSet(All) /\ call.max \in Nat /\ Len(s) \in Nat /\ Cardinality(All) \in Nat
      /\ Len(s) = Cardinality(All) /\ call \in Calls
  BY AllFinite, InjectiveCount, FS_CardinalityType DEF DataInv
<1>2. /\ call.fn \in {"SORTED_LIST_NORMAL", "SORTED_LIST_PROPERTY"} /\ call.by = "name"
      /\ call.fn = "SORTED_LIST_NORMAL" => Room(call) = call.max
  BY DEF Scans, Listing, ListFunctions, ListOptions, Room
<1>3. PICK k \in 0 .. Len(s) :
        /\ Scanned(s) = SubSeq(s, 1, k)
        /\ IF call.fn = "SORTED_LIST_NORMAL"
           THEN k = call.max \/ (k = Len(s) /\ k <= call.max)
           ELSE k = Len(s)
  BY <1>1, ScannedIs
<1> DEFINE r == SubSeq(s, 1, k)
<1>4. /\ Len(r) = k /\ k \in Nat /\ r \in Seq(All)
      /\ \A i \in 1 .. k : r[i] = s[i] /\ i \in 1 .. Len(s)
  <2> HIDE DEF All
  <2> QED BY <1>1
<1> HIDE DEF r
<1>5. DOMAIN r = 1 .. k /\ DOMAIN s = 1 .. Len(s)
  BY <1>4
<1>6. Enough(r)
  <2>1. Injective(r)
    BY <1>4 DEF Injective
  <2>2. Range(r) \subseteq All
    BY <1>4 DEF Range
  <2>3. Length(Cardinality(All)) = IF call.fn = "SORTED_LIST_PROPERTY" \/ Len(s) <= Room(call)
                                   THEN Len(s) ELSE Room(call)
    BY <1>1, <1>2, LengthIs DEF Scans
  <2>4. Len(r) = Length(Cardinality(All))
    <3>1. CASE call.fn = "SORTED_LIST_NORMAL"
      BY <1>1, <1>2, <1>3, <1>4, <2>3, <3>1
    <3>2. CASE call.fn = "SORTED_LIST_PROPERTY"
      BY <1>3, <1>4, <2>3, <3>2
    <3>3. QED
      BY <1>2, <3>1, <3>2
  <2>5. QED
    BY <2>1, <2>2, <2>4 DEF Enough
<1>7. Ordered(r, call.by)
  BY <1>4, <1>5 DEF Ordered
<1>8. ASSUME call.fn = "SORTED_LIST_NORMAL", NEW e \in All \ Range(r), NEW i \in 1 .. Len(r)
      PROVE  Rank["name"][r[i]] <= Rank["name"][e]
  <2>1. PICK j \in 1 .. Len(s) : s[j] = e
    BY <1>5 DEF Range
  <2>2. ~(j \in 1 .. k)
    BY <1>4, <1>5, <1>8, <2>1 DEF Range
  <2>3. i \in 1 .. Len(s) /\ i < j /\ r[i] = s[i]
    BY <1>4, <2>1, <2>2
  <2>4. call.by = "name"
    BY <1>8 DEF ListOptions
  <2>5. QED
    BY <1>5, <2>1, <2>3, <2>4 DEF Ordered
<1>9. QED
  BY <1>3, <1>6, <1>7, <1>8 DEF Result, r

\* A loop of list is under way, and nothing disturbs it.
Lists == IInv /\ Listing /\ ListOptions /\ ListLook(stack, out)

\* The one frame of a list command that runs, and what is known of it.
LEMMA ListTop ==
  ASSUME Lists, stack # <<>>
  PROVE  /\ Chain(stack) /\ top = stack[1] /\ FrameInv(top) /\ top \in Frames
         /\ Tail(stack) = <<>> /\ ListFrame(top, out) /\ top.fn = "list" /\ top.pad = 0
         /\ top.dir = Here /\ top.table \in Seq(Entry)
         /\ (\A i \in 1 .. Len(out) : out[i][2] = 0)
         /\ DataInv /\ out \in Seq(Entry \X Nat)
         /\ (Collecting <=> Running("read") /\ call.fn = "SORTED_LIST_PROPERTY")
<1>1. /\ Chain(stack) /\ top = stack[1] /\ FrameInv(top) /\ top \in Frames
      /\ Len(stack) \in Nat /\ Len(stack) >= 1
  BY TopType DEF Lists, IInv, StackInv
<1>2. Len(stack) = 1 /\ top.dir = Here
  BY <1>1 DEF Lists, IInv, StackInv
<1>3. Tail(stack) = <<>>
  <2> DEFINE rest == Tail(stack)
  <2>1. rest \in Seq(Frames) /\ Len(rest) = 0
    BY <1>1, <1>2 DEF Chain
  <2> HIDE DEF rest
  <2>2. rest = <<>>
    BY <2>1
  <2>3. QED
    BY <2>2 DEF rest
<1>4. ListFrame(top, out) /\ \A i \in 1 .. Len(out) : out[i][2] = 0
  BY <1>1 DEF Lists, ListLook
<1>5. top.fn = "list" /\ top.pad = 0
  BY <1>4 DEF ListFrame
<1>6. DataInv /\ out \in Seq(Entry \X Nat) /\ top.table \in Seq(Entry)
  BY <1>1 DEF Lists, IInv, DataInv, Frames
<1>7. Collecting <=> Running("read") /\ call.fn = "SORTED_LIST_PROPERTY"
  BY <1>5 DEF Collecting
<1>8. QED
  BY <1>1, <1>2, <1>3, <1>4, <1>5, <1>6, <1>7

\* Its frame changes, and all that there is to know is about that.
LEMMA ListGoes ==
  ASSUME Lists, stack # <<>>, NEW f, f \in Frames, Become(f), NEW o, ListFrame(f, o),
         \A i \in 1 .. Len(o) : o[i][2] = 0
  PROVE  ListLook(stack', o)
<1>1. stack' = <<f>> \o <<>>
  BY ListTop DEF Become
<1>2. stack' = <<f>>
  BY <1>1
<1>3. stack' # <<>> /\ stack'[1] = f
  BY <1>2
<1>4. QED
  BY <1>3 DEF ListLook

\* The current directory is opened, or scanned.
LEMMA ListOpens ==
  ASSUME Lists, OpenDir
  PROVE  ListLook(stack', out')
<1>1. stack # <<>> /\ top.phase = "open" /\ out' = out
  BY DEF OpenDir, Running
<1>2. /\ Chain(stack) /\ top \in Frames /\ FrameInv(top) /\ ListFrame(top, out)
      /\ top.table \in Seq(Entry) /\ top.fn = "list" /\ top.pad = 0
      /\ (\A i \in 1 .. Len(out) : out[i][2] = 0) /\ DataInv
  BY <1>1, ListTop
<1>3. out = <<>> /\ out \in Seq(Entry \X Nat) /\ Pending(top) = {} /\ Listing
  BY <1>1, <1>2 DEF ListFrame, DataInv, FrameInv, Lists
<1>4. top.left = {} /\ top.table = <<>>
  <2>1. Range(top.table) = {} /\ top.left = {}
    BY <1>3 DEF Pending
  <2> DEFINE table == top.table
  <2>2. table \in Seq(Entry) /\ {table[i] : i \in DOMAIN table} = {}
    BY <1>2, <2>1 DEF Range
  <2> HIDE DEF table
  <2>3. Len(table) = 0
    BY <2>2
  <2>4. table = <<>>
    BY <2>2, <2>3
  <2>5. QED
    BY <2>1, <2>4 DEF table
<1>5. IsFiniteSet(All) /\ All \subseteq Entry
  BY <1>2, AllFinite
<1>6. CASE Scans
  <2>1. PICK s \in SetToSeqs(All) :
          Ordered(s, "name") /\ Become([top EXCEPT !.phase = "print", !.table = Scanned(s)])
    BY <1>3, <1>6 DEF OpenDir, All
  <2>2. s \in Seq(All) /\ Injective(s) /\ Range(s) = All
    BY <1>5, OrdersIs
  <2>3. call.by = "name" /\ call.fn \in Sorted /\ ListOptions
    BY <1>6 DEF Scans, Listing, ListFunctions, Lists, ListOptions, Sorted
  <2> DEFINE r == Scanned(s)
  <2>4. Result(r)
    BY <1>2, <1>6, <2>1, <2>2, <2>3, PrefixResult
  <2>5. r \in Seq(Entry)
    <3>1. s \in Seq(Entry)
      BY <1>5, <2>2
    <3>2. QED
      BY <1>2, <3>1, ScannedType DEF DataInv
  <2> DEFINE f == [top EXCEPT !.phase = "print", !.table = r]
  <2>6. Become(f)
    BY <2>1
  <2> HIDE DEF r
  <2>7. /\ f \in Frames /\ f.fn = "list" /\ f.pad = 0 /\ f.phase = "print" /\ f.table = r
    BY <1>2, <2>5 DEF Frames
  <2> HIDE DEF f
  <2>8. Names(out) \o r = r
    BY <1>3, <2>5, NamesIs
  <2>9. ListFrame(f, out)
    BY <2>3, <2>4, <2>7, <2>8 DEF ListFrame
  <2>10. QED
    BY <1>1, <1>2, <2>6, <2>7, <2>9, ListGoes
<1>7. CASE ~Scans
  <2> DEFINE f == [top EXCEPT !.phase = "read", !.left = All]
  <2>1. Become(f)
    BY <1>3, <1>7 DEF OpenDir, All
  <2>2. /\ f \in Frames /\ f.fn = "list" /\ f.pad = 0 /\ f.phase = "read" /\ f.left = All
        /\ f.table = <<>>
    BY <1>2, <1>4, <1>5 DEF Frames
  <2> HIDE DEF f
  <2>3. call.fn # "SORTED_LIST_NORMAL" /\ call.by # "name" /\ Room(call) \in Nat
    BY <1>2, <1>7, LengthIs DEF Scans, Lists, ListOptions
  <2>4. Names(out) \o <<>> = <<>>
    BY <1>2, <1>3, <1>4, NamesIs
  <2>5. Injective(<<>>) /\ Range(<<>>) = {} /\ Len(<<>>) = 0
    BY DEF Injective, Range
  <2>6. Reading(All, <<>>)
    BY <2>3, <2>5 DEF Reading
  <2>7. ListFrame(f, out)
    BY <1>3, <2>2, <2>4, <2>6 DEF ListFrame
  <2>8. QED
    BY <1>1, <1>2, <2>1, <2>2, <2>7, ListGoes
<1>8. QED
  BY <1>6, <1>7

\* What a loop that reads takes next.
LEMMA ListNext ==
  ASSUME Lists, stack # <<>>, NEW p \in NextEntries, Running("read")
  PROVE  /\ p \in top.left /\ p \in Entry
         /\ Reading(top.left, Names(out) \o top.table)
         /\ Reading(top.left \ {p}, Append(Names(out) \o top.table, p))
<1>1. /\ top \in Frames /\ ListFrame(top, out) /\ top.table \in Seq(Entry) /\ DataInv
      /\ out \in Seq(Entry \X Nat) /\ top.phase = "read" /\ Listing
  BY ListTop DEF Running, Lists
<1>2. p \in top.left /\ ~(Len(out) + Len(top.table) >= Room(call))
  BY <1>1 DEF NextEntries, Running
<1> DEFINE r == Names(out) \o top.table
<1>3. r \in Seq(Entry) /\ Len(r) = Len(out) + Len(top.table)
  BY <1>1, NamesIs
<1>4. Reading(top.left, r) /\ p \in Entry
  BY <1>1, <1>2 DEF ListFrame, Frames
<1> HIDE DEF r
<1>5. Reading(top.left \ {p}, Append(r, p))
  BY <1>1, <1>2, <1>3, <1>4, ReadNext
<1>6. QED
  BY <1>2, <1>4, <1>5 DEF r

\* An entry goes into the table.
LEMMA ListCollects ==
  ASSUME Lists, Collect
  PROVE  ListLook(stack', out')
<1>1. PICK p \in NextEntries : Become([Consume(p) EXCEPT !.table = Append(@, p)])
  BY DEF Collect
<1>2. stack # <<>> /\ top.phase = "read" /\ Running("read") /\ out' = out
  BY DEF Collect, Collecting, Running
<1>3. /\ top \in Frames /\ ListFrame(top, out) /\ top.table \in Seq(Entry)
      /\ top.fn = "list" /\ top.pad = 0 /\ out \in Seq(Entry \X Nat)
      /\ (\A i \in 1 .. Len(out) : out[i][2] = 0)
      /\ call.fn = "SORTED_LIST_PROPERTY"
  BY <1>2, ListTop DEF Collect
<1>4. /\ p \in top.left /\ p \in Entry
      /\ Reading(top.left \ {p}, Append(Names(out) \o top.table, p))
  BY <1>1, <1>2, ListNext
<1>5. out = <<>>
  BY <1>2, <1>3 DEF ListFrame
<1> DEFINE table == Append(top.table, p)
<1>6. table \in Seq(Entry)
  BY <1>3, <1>4
<1>7. Names(out) \o top.table = top.table /\ Names(out) \o table = table
  BY <1>3, <1>5, <1>6, NamesIs
<1>8. Reading(top.left \ {p}, Names(out) \o table)
  BY <1>4, <1>7
<1> DEFINE g == [top EXCEPT !.left = top.left \ {p}, !.table = table]
<1>9. Become(g)
  <2>1. [Consume(p) EXCEPT !.table = Append(@, p)] = g
    BY <1>2, <1>3 DEF Consume, Frames
  <2>2. QED
    BY <1>1, <2>1
<1> HIDE DEF table
<1>10. /\ g \in Frames /\ g.fn = "list" /\ g.pad = 0 /\ g.phase = "read"
       /\ g.left = top.left \ {p} /\ g.table = table
  BY <1>2, <1>3, <1>6 DEF Frames
<1> HIDE DEF g
<1>11. ListFrame(g, out)
  BY <1>3, <1>5, <1>8, <1>10 DEF ListFrame
<1>12. QED
  BY <1>2, <1>3, <1>9, <1>10, <1>11, ListGoes

\* What a loop that reads has when it ends.
LEMMA ListReadEnds ==
  ASSUME Lists, stack # <<>>, NextEntries = {}, Running("read")
  PROVE  Enough(Names(out) \o top.table) /\ call.fn # "SORTED_LIST_NORMAL"
<1>1. /\ top \in Frames /\ ListFrame(top, out) /\ top.table \in Seq(Entry) /\ DataInv
      /\ out \in Seq(Entry \X Nat) /\ top.phase = "read" /\ Listing
  BY ListTop DEF Running, Lists
<1>2. top.left = {} \/ Len(out) + Len(top.table) >= Room(call)
  BY <1>1 DEF NextEntries, Running
<1> DEFINE r == Names(out) \o top.table
<1>3. r \in Seq(Entry) /\ Len(r) = Len(out) + Len(top.table)
  BY <1>1, NamesIs
<1>4. Reading(top.left, r)
  BY <1>1 DEF ListFrame
<1> HIDE DEF r
<1>5. Enough(r)
  BY <1>1, <1>2, <1>3, <1>4, ReadEnds
<1>6. QED
  BY <1>4, <1>5 DEF Reading, r

\* The table is sorted.
LEMMA ListSorts ==
  ASSUME Lists, Sort
  PROVE  ListLook(stack', out')
<1>1. PICK s \in SetToSeqs(Range(top.table)) :
        Ordered(s, call.by) /\ Become([top EXCEPT !.phase = "print", !.table = s])
  BY DEF Sort
<1>2. stack # <<>> /\ top.phase = "read" /\ Running("read") /\ NextEntries = {} /\ out' = out
  BY DEF Sort, Collecting, Running
<1>3. /\ top \in Frames /\ ListFrame(top, out) /\ top.table \in Seq(Entry)
      /\ top.fn = "list" /\ top.pad = 0 /\ out \in Seq(Entry \X Nat)
      /\ (\A i \in 1 .. Len(out) : out[i][2] = 0)
      /\ call.fn = "SORTED_LIST_PROPERTY"
  BY <1>2, ListTop DEF Sort
<1>4. out = <<>>
  BY <1>2, <1>3 DEF ListFrame
<1>5. Enough(top.table)
  <2>1. Names(out) \o top.table = top.table
    BY <1>3, <1>4, NamesIs
  <2>2. Enough(Names(out) \o top.table)
    BY <1>2, ListReadEnds
  <2>3. QED
    BY <2>1, <2>2
<1>6. /\ IsFiniteSet(Range(top.table)) /\ Len(top.table) = Cardinality(Range(top.table))
      /\ Range(top.table) \subseteq Entry
  <2>1. Injective(top.table)
    BY <1>5 DEF Enough
  <2>2. IsFiniteSet(Range(top.table)) /\ Len(top.table) = Cardinality(Range(top.table))
    BY <1>3, <2>1, InjectiveCount
  <2>3. QED
    BY <1>3, <2>2 DEF Range
<1>7. /\ s \in Seq(Range(top.table)) /\ Injective(s) /\ Range(s) = Range(top.table)
      /\ Len(s) = Len(top.table)
  BY <1>6, OrdersIs
<1>8. s \in Seq(Entry)
  BY <1>6, <1>7
<1>9. Result(s)
  BY <1>1, <1>3, <1>5, <1>7 DEF Result, Enough
<1> DEFINE g == [top EXCEPT !.phase = "print", !.table = s]
<1>10. Become(g)
  BY <1>1
<1>11. g \in Frames /\ g.fn = "list" /\ g.pad = 0 /\ g.phase = "print" /\ g.table = s
  BY <1>3, <1>8 DEF Frames
<1> HIDE DEF g
<1>12. Names(out) \o s = s
  BY <1>3, <1>4, <1>8, NamesIs
<1>13. ListFrame(g, out)
  BY <1>3, <1>9, <1>11, <1>12 DEF ListFrame, Sorted
<1>14. QED
  BY <1>2, <1>3, <1>10, <1>11, <1>13, ListGoes

\* An entry is printed.
LEMMA ListPrints ==
  ASSUME Lists, PrintEntry
  PROVE  ListLook(stack', out')
<1>1. PICK p \in NextEntries :
        /\ out' = IF Prints(p) THEN Append(out, <<p, top.pad>>) ELSE out
        /\ stack' = Callee(p) \o <<Consume(p)>> \o Tail(stack)
  BY DEF PrintEntry
<1>2. /\ stack # <<>> /\ Chain(stack) /\ p \in Entry /\ ~Collecting
      /\ (top.phase = "print" => top.table # <<>>)
  BY NextPending DEF PrintEntry, Lists, IInv, StackInv
<1>3. /\ top \in Frames /\ ListFrame(top, out) /\ top.table \in Seq(Entry)
      /\ top.fn = "list" /\ top.pad = 0 /\ out \in Seq(Entry \X Nat) /\ Tail(stack) = <<>>
      /\ (\A i \in 1 .. Len(out) : out[i][2] = 0)
      /\ (Collecting <=> Running("read") /\ call.fn = "SORTED_LIST_PROPERTY")
  BY <1>2, ListTop
<1>4. out' = Append(out, <<p, 0>>)
  BY <1>1, <1>3 DEF Prints
<1>5. Callee(p) = <<>>
  BY DEF Callee, Lists
<1> DEFINE f == Consume(p)
<1>6. FrameInv(f) /\ f \in Frames
  BY <1>2, ConsumeType DEF FrameInv
<1>7. /\ f.left = top.left \ {p} /\ f.phase = top.phase /\ f.fn = "list" /\ f.pad = 0
      /\ f.table = IF top.phase = "print" THEN Tail(top.table) ELSE top.table
  BY <1>3 DEF Consume, Frames
<1>8. Become(f)
  <2>1. stack' = <<>> \o <<f>> \o <<>>
    BY <1>1, <1>3, <1>5
  <2> HIDE DEF f
  <2>2. stack' = <<f>> \o <<>>
    BY <1>6, <2>1
  <2>3. QED
    BY <1>3, <2>2 DEF Become
<1> HIDE DEF f
<1>9. \A i \in 1 .. Len(out') : out'[i][2] = 0
  <2> DEFINE T == Entry \X Nat
             e == <<p, 0>>
  <2>1. out \in Seq(T) /\ e \in T /\ e[2] = 0
    BY <1>2, <1>3
  <2> HIDE DEF T, e
  <2>2. Len(out') = Len(out) + 1 /\ out'[Len(out) + 1] = e /\ Len(out) \in Nat
        /\ \A i \in 1 .. Len(out) : out'[i] = out[i]
    BY <1>4, <2>1, AppendIs DEF e
  <2>3. \A i \in 1 .. Len(out') : i \in 1 .. Len(out) \/ i = Len(out) + 1
    BY <2>2
  <2>4. QED
    BY <1>3, <2>1, <2>2, <2>3
<1>10. ListFrame(f, out')
  <2>1. CASE Running("read")
    <3>1. top.phase = "read" /\ call.fn # "SORTED_LIST_PROPERTY"
      BY <1>2, <1>3, <2>1 DEF Running
    <3>2. top.table = <<>>
      BY <1>3, <3>1 DEF ListFrame
    <3>3. Names(out) \o top.table = Names(out) /\ Names(out') = Append(Names(out), p)
      <4>1. 0 \in Nat
        OBVIOUS
      <4>2. Names(Append(out, <<p, 0>>)) = Append(Names(out), p)
        BY <1>2, <1>3, <4>1, NamesNext, Zenon
      <4>3. QED
        BY <1>3, <1>4, <3>2, <4>2, NamesIs
    <3>4. out' \in Seq(Entry \X Nat)
      <4> DEFINE T == Entry \X Nat
                 e == <<p, 0>>
      <4>1. out \in Seq(T) /\ e \in T
        BY <1>2, <1>3
      <4> HIDE DEF T, e
      <4>2. Append(out, e) \in Seq(T)
        BY <4>1
      <4>3. QED
        BY <1>4, <4>2 DEF T, e
    <3>5. Names(out') \o <<>> = Names(out')
      BY <1>3, <3>2, <3>4, NamesIs
    <3>6. Reading(top.left \ {p}, Append(Names(out) \o top.table, p))
      BY <1>2, <2>1, ListNext
    <3>7. f.phase = "read" /\ f.table = <<>> /\ f.left = top.left \ {p}
      BY <1>7, <3>1, <3>2
    <3>8. Reading(f.left, Names(out') \o f.table)
      BY <3>3, <3>5, <3>6, <3>7
    <3>9. QED
      BY <1>7, <3>1, <3>7, <3>8 DEF ListFrame
  <2>2. CASE Running("print")
    <3>1. /\ top.phase = "print" /\ top.table # <<>> /\ p = top.table[1]
      BY <1>2, <1>3, <2>2 DEF NextEntries, Running
    <3>2. Names(Append(out, <<top.table[1], 0>>)) \o Tail(top.table) = Names(out) \o top.table
      <4>1. 0 \in Nat
        OBVIOUS
      <4>2. QED
        BY <1>3, <3>1, <4>1, NamesShift, Zenon
    <3>3. Names(out') \o f.table = Names(out) \o top.table
      BY <1>4, <1>7, <3>1, <3>2
    <3>4. QED
      BY <1>3, <1>7, <3>1, <3>3 DEF ListFrame
  <2>3. QED
    BY <2>1, <2>2 DEF NextEntries
<1>11. QED
  BY <1>2, <1>6, <1>8, <1>9, <1>10, ListGoes

\* The loop ends.
LEMMA ListReturns ==
  ASSUME Lists, EndDir
  PROVE  ListLook(stack', out')
<1>1. /\ stack # <<>> /\ out' = out /\ stack' = Tail(stack) /\ ~Collecting /\ NextEntries = {}
      /\ (Running("read") \/ Running("print"))
  BY DEF EndDir, Running, Return
<1>2. /\ ListFrame(top, out) /\ top.table \in Seq(Entry) /\ Tail(stack) = <<>>
      /\ out \in Seq(Entry \X Nat)
      /\ (\A i \in 1 .. Len(out) : out[i][2] = 0)
      /\ (Collecting <=> Running("read") /\ call.fn = "SORTED_LIST_PROPERTY")
  BY <1>1, ListTop
<1>3. Result(Names(out))
  <2>1. CASE Running("read")
    <3>1. Enough(Names(out) \o top.table) /\ call.fn \notin Sorted
      BY <1>1, <1>2, <2>1, ListReadEnds DEF Sorted
    <3>2. top.table = <<>>
      BY <1>1, <1>2, <2>1 DEF ListFrame, Running
    <3>3. Names(out) \o top.table = Names(out)
      BY <1>2, <3>2, NamesIs
    <3>4. QED
      BY <3>1, <3>3 DEF Result, Sorted
  <2>2. CASE Running("print")
    <3>1. top.phase = "print" /\ {top.table[i] : i \in DOMAIN top.table \cap {1}} = {}
      BY <1>1, <2>2 DEF NextEntries, Running
    <3>2. top.table = <<>>
      <4> DEFINE table == top.table
      <4>1. table \in Seq(Entry) /\ {table[i] : i \in DOMAIN table \cap {1}} = {}
        BY <1>2, <3>1
      <4> HIDE DEF table
      <4>2. Len(table) = 0
        BY <4>1
      <4>3. table = <<>>
        BY <4>1, <4>2
      <4>4. QED
        BY <4>3 DEF table
    <3>3. Names(out) \o top.table = Names(out)
      BY <1>2, <3>2, NamesIs
    <3>4. QED
      BY <1>2, <3>1, <3>3 DEF ListFrame
  <2>3. QED
    BY <1>1, <2>1, <2>2
<1>4. QED
  BY <1>1, <1>2, <1>3 DEF ListLook

\* As long as the files and the command are the same, so is what is known.
LEMMA SameList ==
  ASSUME UNCHANGED <<fs, call>>, ListLook(stack', out')
  PROVE  ListLook(stack, out)'
<1>1. All' = All /\ call' = call
  BY DEF All, Entries
<1>2. \A r : Enough(r)' <=> Enough(r)
  BY <1>1 DEF Enough, Length
<1>3. QED
  BY <1>1, <1>2 DEF ListLook, ListFrame, Result, Reading, Room

-----------------------------------------------------------------------------
(***************************************************************************)
(* Commands nobody disturbs.                                               *)
(***************************************************************************)

\* A command that lists has begun only after the blocks that change files; a function
\* runs only for one; what is in a directory is there with it; and the options fit.
CallInv ==
  /\ call.fn # "none" => pc \notin {"create", "delete", "display"}
  /\ stack # <<>> => call.fn \notin {"none", "invalid"}
  /\ FilesInv
  /\ ListOptions

\* Until somebody changes something, or a stream is missing, the output is what it
\* has to be so far.
Quietly == quiet /\ ~Ended /\ open = Opened(stack)
Looks(s, o) ==
  /\ Recursive => Traversal(s, o)
  /\ Listing => ListLook(s, o)
  /\ call.fn = "invalid" => o = <<>>
LookInv == Quietly => Looks(stack, out)

\* What the blocks come after.
LEMMA AfterIs ==
  ASSUME NEW block \in Range(Blocks), block # "prompt"
  PROVE  /\ After(block) # "create"
         /\ After(block) \in {"delete", "display"} => block \in {"create", "delete"}
<1>1. /\ DOMAIN Blocks = 1 .. 7 /\ Blocks[1] = "create" /\ Blocks[2] = "delete"
      /\ Blocks[3] = "display" /\ Blocks[4] = "list" /\ Blocks[5] = "find" /\ Blocks[6] = "tree"
      /\ Blocks[7] = "prompt"
  BY DEF Blocks
<1> DEFINE k == CHOOSE i \in DOMAIN Blocks : Blocks[i] = block
<1>2. k \in DOMAIN Blocks /\ Blocks[k] = block
  <2>1. \E i \in DOMAIN Blocks : Blocks[i] = block
    BY DEF Range
  <2>2. QED
    BY <2>1, Zenon
<1>3. After(block) = Blocks[1 + k]
  BY DEF After
<1> HIDE DEF k
<1>4. k \in {1, 2, 3, 4, 5, 6}
  BY <1>1, <1>2
<1>5. QED
  BY <1>1, <1>2, <1>3, <1>4

\* Every step keeps the files and the options in order.
LEMMA CallStep ==
  ASSUME IInv, CallInv, [Next]_vars
  PROVE  CallInv'
<1> USE DEF CallInv
<1>1. FilesInv /\ fs \subseteq Paths
  BY DEF FilesInv
<1>2. ASSUME UNCHANGED <<fs, call>>,
             call.fn # "none" => pc' \notin {"create", "delete", "display"},
             stack' # <<>> => stack # <<>>
      PROVE  CallInv'
  BY <1>2 DEF FilesInv, ListOptions
<1>3. ASSUME pc \in Range(Blocks), pc # "prompt", pc' = After(pc)
      PROVE  call.fn # "none" => pc' \notin {"create", "delete", "display"}
  BY <1>3, AfterIs
<1>4. ASSUME pc \in Range(Blocks), stack # <<>>, Return
      PROVE  /\ call.fn # "none" => pc' \notin {"create", "delete", "display"}
             /\ stack' # <<>> => stack # <<>>
  <2>1. pc # "prompt"
    BY <1>4 DEF IInv, ControlInv
  <2>2. QED
    BY <1>3, <1>4, <2>1 DEF Return
<1>5. ASSUME NEW block \in {"list", "find", "tree"}, At(block), NEW c, NEW fn, Start(c, fn),
             c.fn # "none",
             /\ c.fn \in {"LIST_NORMAL", "LIST_PROPERTY"} => c.by = "time"
             /\ c.fn = "SORTED_LIST_NORMAL" => c.by = "name"
      PROVE  CallInv'
  <2>1. call' = c /\ fs' = fs
    BY <1>5 DEF Start
  <2>2. pc' \notin {"create", "delete", "display"}
    BY <1>5 DEF Start, At
  <2>3. stack' # <<>> => c.fn # "invalid"
    BY <1>5 DEF Start, At
  <2>4. QED
    BY <1>5, <2>1, <2>2, <2>3 DEF FilesInv, ListOptions
<1>6. CASE UNCHANGED vars
  BY <1>2, <1>6 DEF vars
<1>7. CASE NextLine
  <2>1. stack = <<>> /\ stack' = stack /\ call' = noCall /\ fs' = fs
    BY <1>7 DEF NextLine, IInv, ControlInv
  <2>2. QED
    BY <2>1 DEF noCall, FilesInv, ListOptions
<1>8. CASE Skip
  BY <1>2, <1>3, <1>8 DEF Skip
<1>9. CASE Create
  <2>1. pc = "create" /\ stack' = stack /\ call' = call /\ stack = <<>> /\ call.fn = "none"
    BY <1>9 DEF Create, At
  <2>2. fs' \subseteq Paths /\ \A p \in fs' : Parent[p] \in fs' \cup {Here}
    BY <1>1, <1>9 DEF Create, CanCreate, FilesInv
  <2>3. QED
    BY <2>1, <2>2 DEF FilesInv, ListOptions
<1>10. CASE Delete
  <2>1. pc = "delete" /\ stack' = stack /\ call' = call /\ stack = <<>> /\ call.fn = "none"
    BY <1>10 DEF Delete, At
  <2>2. fs' \subseteq Paths /\ \A p \in fs' : Parent[p] \in fs' \cup {Here}
    BY <1>1, <1>10 DEF Delete, Entries, FilesInv
  <2>3. QED
    BY <2>1, <2>2 DEF FilesInv, ListOptions
<1>11. CASE Display
  <2>1. pc = "display" /\ UNCHANGED <<stack, call, fs>> /\ call.fn = "none"
    BY <1>11 DEF Display, At
  <2>2. QED
    BY <1>2, <2>1
<1>12. CASE StartList
  <2>1. listCall \in ListCalls
    BY ListCallType DEF IInv, DataInv
  <2>2. At("list") /\ Start(listCall, "list")
    BY <1>12 DEF StartList
  <2>3. QED
    BY <1>5, <2>1, <2>2 DEF ListCalls, ListFunctions
<1>13. CASE StartFind
  BY <1>5, <1>13 DEF StartFind, noCall
<1>14. CASE StartTree
  <2>1. treeCall \in TreeCalls
    BY TreeCallType DEF IInv, DataInv
  <2>2. \E fn : At("tree") /\ Start(treeCall, fn)
    BY <1>14 DEF StartTree
  <2>3. QED
    BY <1>5, <2>1, <2>2 DEF TreeCalls
<1>15. CASE OpenDir
  BY <1>2, <1>15 DEF OpenDir, Running
<1>16. CASE OpenFails
  BY <1>2, <1>4, <1>16 DEF OpenFails, Running
<1>17. CASE StatFails
  <2>1. pc \in Range(Blocks) /\ stack # <<>>
    BY <1>17, NextPending DEF StatFails, IInv, StackInv
  <2>2. QED
    BY <1>2, <1>4, <1>17, <2>1 DEF StatFails
<1>18. CASE Overrun
  BY <1>2, <1>18 DEF Overrun
<1>19. CASE Collect
  BY <1>2, <1>19 DEF Collect, Collecting, Running
<1>20. CASE Sort
  BY <1>2, <1>20 DEF Sort, Collecting, Running
<1>21. CASE PrintEntry
  <2>1. stack # <<>>
    BY <1>21, NextPending DEF PrintEntry, IInv, StackInv
  <2>2. QED
    BY <1>2, <1>21, <2>1 DEF PrintEntry
<1>22. CASE EndDir
  BY <1>2, <1>4, <1>22 DEF EndDir, Running
<1>23. CASE OthersAdd
  <2>1. UNCHANGED <<pc, stack, call>>
    BY <1>23 DEF OthersAdd
  <2>2. fs' \subseteq Paths /\ \A p \in fs' : Parent[p] \in fs' \cup {Here}
    BY <1>1, <1>23 DEF OthersAdd, FilesInv
  <2>3. QED
    BY <2>1, <2>2 DEF FilesInv, ListOptions
<1>24. CASE OthersRemove
  <2>1. UNCHANGED <<pc, stack, call>>
    BY <1>24 DEF OthersRemove
  <2>2. fs' \subseteq Paths /\ \A p \in fs' : Parent[p] \in fs' \cup {Here}
    BY <1>1, <1>24 DEF OthersRemove, Entries, FilesInv
  <2>3. QED
    BY <2>1, <2>2 DEF FilesInv, ListOptions
<1>25. CASE Stopped
  BY <1>2, <1>25 DEF Stopped, vars
<1>26. QED
  BY <1>6, <1>7, <1>8, <1>9, <1>10, <1>11, <1>12, <1>13, <1>14, <1>15, <1>16, <1>17,
     <1>18, <1>19, <1>20, <1>21, <1>22, <1>23, <1>24, <1>25 DEF Next, Command

\* What is known of an output as long as the files and the command are the same.
LEMMA SameLooks ==
  ASSUME UNCHANGED <<fs, call>>, Looks(stack', out')
  PROVE  Looks(stack, out)'
<1>1. call' = call
  OBVIOUS
<1>2. Recursive' => Traversal(stack, out)'
  BY <1>1, SameLook DEF Looks, Recursive
<1>3. Listing' => ListLook(stack, out)'
  BY <1>1, SameList DEF Looks, Listing
<1>4. QED
  BY <1>1, <1>2, <1>3 DEF Looks

\* No more streams are missing, and so none was before.
LEMMA QuietBefore ==
  ASSUME IInv, pc \in Range(Blocks), UNCHANGED quiet,
         open \in Nat, Opened(stack) \in Nat, Opened(stack') \in Nat, open' \in Int,
         open + Opened(stack') <= open' + Opened(stack), Quietly'
  PROVE  Quietly
<1>1. open' = Opened(stack') /\ quiet
  BY DEF Quietly
<1>2. Opened(stack) <= open
  BY DEF IInv, StreamsInv
<1>3. open = Opened(stack)
  BY <1>1, <1>2
<1>4. ~Ended
  BY DEF Ended, Range, Blocks
<1>5. QED
  BY <1>1, <1>3, <1>4 DEF Quietly

\* The same, for a step that only changes the running function.
LEMMA QuietLoop ==
  ASSUME IInv, pc \in Range(Blocks), stack # <<>>, UNCHANGED quiet, NEW f, Become(f),
         open' = IF top.phase = "open" THEN open + 1 ELSE open, Quietly'
  PROVE  Quietly
<1>1. /\ Chain(stack) /\ top = stack[1] /\ Len(stack) \in Nat /\ Len(stack) >= 1
      /\ stack \in Seq(Frames)
  BY TopType DEF IInv, StackInv, Chain
<1>2. Len(stack') = Len(stack)
  <2> DEFINE T == Frames \cup {f}
             rest == Tail(stack)
  <2>1. rest \in Seq(Frames) /\ Len(rest) = Len(stack) - 1
    BY <1>1
  <2>2. stack' = <<f>> \o rest
    BY DEF Become
  <2> HIDE DEF rest
  <2>3. rest \in Seq(T) /\ f \in T
    BY <2>1
  <2> HIDE DEF T
  <2>4. Len(<<f>> \o rest) = 1 + Len(rest)
    BY <2>3
  <2>5. QED
    BY <1>1, <2>1, <2>2, <2>4
<1>3. /\ Opened(stack) = IF top.phase = "open" THEN Len(stack) - 1 ELSE Len(stack)
      /\ Opened(stack') <= Len(stack) /\ Opened(stack) \in Nat /\ Opened(stack') \in Nat
  BY <1>1, <1>2 DEF Opened
<1>4. open \in Nat
  BY LimitAssumption DEF IInv, StreamsInv
<1>5. QED
  BY <1>3, <1>4, QuietBefore

\* A command that is being carried out undisturbed.
Under == IInv /\ CallInv /\ Looks(stack, out)

\* What runs undisturbed is a traversal or a listing.
LEMMA UnderIs ==
  ASSUME Under
  PROVE  /\ Recursive => Travels
         /\ Listing => Lists
         /\ stack # <<>> => Recursive \/ Listing
         /\ Recursive => ~Listing
<1>1. call.fn \in Functions
  BY DEF Under, IInv, DataInv, Calls
<1>2. stack # <<>> => Recursive \/ Listing
  BY <1>1 DEF Under, CallInv, Functions, Recursive, Listing
<1>3. Recursive => ~Listing
  BY DEF Recursive, Listing, ListFunctions
<1>4. QED
  BY <1>2, <1>3 DEF Under, CallInv, Looks, Travels, Lists

\* A step of a function keeps what is known if it does for both kinds of commands.
LEMMA BothLooks ==
  ASSUME Under, stack # <<>>, UNCHANGED <<fs, call>>,
         Travels => Traversal(stack', out'), Lists => ListLook(stack', out')
  PROVE  Looks(stack, out)'
<1>1. call.fn # "invalid"
  BY DEF Under, CallInv
<1>2. Looks(stack', out')
  BY <1>1, UnderIs DEF Looks
<1>3. QED
  BY <1>2, SameLooks

\* Nothing happens to the command.
LEMMA KeepLook ==
  ASSUME LookInv, UNCHANGED <<fs, call, stack, out, open, quiet>>, ~Ended
  PROVE  LookInv'
<1>1. Quietly' => Quietly
  BY DEF Quietly
<1>2. Quietly => Looks(stack', out')
  BY DEF LookInv
<1>3. QED
  BY <1>1, <1>2, SameLooks DEF LookInv

\* The first function of a command has its directory to open, and has printed nothing.
Begun ==
  IInv /\ FilesInv /\ out = <<>> =>
    /\ Recursive /\ stack = <<Frame(FnOf(Here), Here, 0)>> => Traversal(stack, out)
    /\ Listing /\ stack = <<Frame("list", Here, 0)>> => ListLook(stack, out)

\* The first function of a command has printed what it has to.
LEMMA BegunIs == Begun
<1>1. SUFFICES ASSUME IInv, FilesInv, out = <<>>
               PROVE  /\ Recursive /\ stack = <<Frame(FnOf(Here), Here, 0)>> => Traversal(stack, out)
                      /\ Listing /\ stack = <<Frame("list", Here, 0)>> => ListLook(stack, out)
  BY DEF Begun
<1>2. Len(out) = 0
  BY <1>1
<1>3. ASSUME Recursive, stack = <<Frame(FnOf(Here), Here, 0)>>
      PROVE  Traversal(stack, out)
  <2> DEFINE f == Frame(FnOf(Here), Here, 0)
  <2>1. /\ f.fn = FnOf(Here) /\ f.dir = Here /\ f.pad = 0 /\ f.phase = "open"
        /\ f.left = {} /\ f.table = <<>>
    BY DEF Frame
  <2>2. Len(stack) = 1 /\ stack # <<>> /\ stack[1] = f
    BY <1>3
  <2> HIDE DEF f
  <2>3. Pending(f) = {} /\ Range(f.table) = {} /\ Injective(f.table)
    BY <2>1 DEF Pending, Range, Injective
  <2>4. Up(Here) = {} /\ Cardinality(Up(Here)) = 0
    BY AboveIs, FS_EmptySet
  <2>5. call.max \in Nat
    BY <1>1 DEF IInv, DataInv, Calls
  <2>6. FrameLook(f)
    BY <2>1, <2>3, <2>4, <2>5 DEF FrameLook, Level
  <2>7. SortedSoFar(f, out)
    BY <1>2 DEF SortedSoFar
  <2>8. Ahead(stack) = Below(Here)
    <3>1. \A i : i \in 1 .. Len(stack) <=> i = 1
      BY <2>2
    <3>2. Reads(f) = Below(Here)
      BY <2>1 DEF Reads
    <3>3. QED
      BY <2>2, <3>1, <3>2 DEF Ahead
  <2>9. Shown(out) = {} /\ Done(Ahead(stack)) = {}
    BY <1>1, <1>2, <2>8, ExploredEnds DEF Shown, Done
  <2>10. TopLook(stack, out)
    <3>1. Inside(Here, out)
      BY <1>2 DEF Inside
    <3>2. stack[1].dir = Here
      BY <2>1, <2>2
    <3>3. QED
      BY <2>2, <2>4, <3>1, <3>2 DEF TopLook
  <2>11. OrderOf(out) /\ SiblingsOf(out)
    BY <1>2 DEF OrderOf, SiblingsOf
  <2>12. \A i \in 1 .. Len(stack) : FrameLook(stack[i]) /\ SortedSoFar(stack[i], out)
    <3>1. \A i \in 1 .. Len(stack) : i = 1
      BY <2>2
    <3>2. QED
      BY <2>2, <2>6, <2>7, <3>1
  <2>13. QED
    BY <2>9, <2>10, <2>11, <2>12 DEF Traversal
<1>4. ASSUME Listing, stack = <<Frame("list", Here, 0)>>
      PROVE  ListLook(stack, out)
  <2>1. stack # <<>> /\ stack[1] = Frame("list", Here, 0)
    BY <1>4
  <2>2. ListFrame(Frame("list", Here, 0), out)
    BY <1>1 DEF ListFrame, Frame
  <2>3. QED
    BY <1>2, <2>1, <2>2 DEF ListLook
<1>5. QED
  BY <1>3, <1>4

\* The same in the next state.
LEMMA BegunNext == Begun'
BY BegunIs, PTL

\* A command is taken up.
LEMMA StartLook ==
  ASSUME IInv', CallInv', stack = <<>>, NEW c, c.fn \in Functions, NEW fn, Start(c, fn),
         c.fn \in ListFunctions => fn = "list",
         c.fn \in {"FIND", "TREE_NORMAL", "TREE_DEPTH", "TREE_SORT"} => fn = FnOf(Here)'
  PROVE  LookInv'
<1>1. out' = <<>> /\ call' = c
  BY DEF Start
<1>2. CASE c.fn = "invalid"
  BY <1>1, <1>2 DEF LookInv, Looks, Recursive, Listing, ListFunctions
<1>3. CASE c.fn # "invalid"
  <2>1. stack' = <<Frame(fn, Here, 0)>>
    BY <1>3 DEF Start
  <2>2. FilesInv'
    BY DEF CallInv
  <2>3. /\ Recursive' /\ stack' = <<Frame(FnOf(Here)', Here, 0)>> => Traversal(stack, out)'
        /\ Listing' /\ stack' = <<Frame("list", Here, 0)>> => ListLook(stack, out)'
    BY <1>1, <2>2, BegunNext DEF Begun, Frame, Here
  <2>4. Recursive' => fn = FnOf(Here)'
    BY <1>1 DEF Recursive
  <2>5. Listing' => fn = "list"
    BY <1>1 DEF Listing
  <2>6. call'.fn # "invalid"
    BY <1>1, <1>3
  <2>7. QED
    BY <2>1, <2>3, <2>4, <2>5, <2>6 DEF LookInv, Looks
<1>4. QED
  BY <1>2, <1>3

\* A loop that goes on keeps what is known.
LEMMA GoesOnLook ==
  ASSUME IInv, CallInv, LookInv, UNCHANGED <<fs, call, quiet>>, pc \in Range(Blocks), stack # <<>>,
         NEW f, Become(f), open' = IF top.phase = "open" THEN open + 1 ELSE open,
         Travels => Traversal(stack', out'), Lists => ListLook(stack', out')
  PROVE  LookInv'
<1>1. Quietly' => Quietly
  BY QuietLoop
<1>2. Quietly => Under
  BY DEF LookInv, Under
<1>3. Under => Looks(stack, out)'
  BY BothLooks
<1>4. QED
  BY <1>1, <1>2, <1>3 DEF LookInv

\* A directory is opened.
LEMMA OpenDirLook ==
  ASSUME IInv, CallInv, LookInv, OpenDir
  PROVE  LookInv'
<1>1. /\ UNCHANGED <<fs, call, quiet>> /\ pc \in Range(Blocks) /\ stack # <<>>
      /\ top.phase = "open" /\ open' = open + 1
  BY DEF OpenDir, Running, others
<1>2. PICK f : Become(f)
  BY DEF OpenDir
<1>3. QED
  BY <1>1, <1>2, OpenLook, ListOpens, GoesOnLook

\* A loop that collects an entry keeps what is known.
LEMMA CollectsLook ==
  ASSUME IInv, CallInv, LookInv, Collect
  PROVE  LookInv'
<1>1. /\ UNCHANGED <<fs, call, quiet>> /\ pc \in Range(Blocks) /\ stack # <<>>
      /\ top.phase # "open" /\ open' = open
  BY DEF Collect, Collecting, Running, others
<1>2. PICK f : Become(f)
  BY DEF Collect
<1>3. QED
  BY <1>1, <1>2, CollectLook, ListCollects, GoesOnLook

\* A loop that sorts what it has collected keeps what is known.
LEMMA SortsLook ==
  ASSUME IInv, CallInv, LookInv, Sort
  PROVE  LookInv'
<1>1. /\ UNCHANGED <<fs, call, quiet>> /\ pc \in Range(Blocks) /\ stack # <<>>
      /\ top.phase # "open" /\ open' = open
  BY DEF Sort, Collecting, Running, others
<1>2. PICK f : Become(f)
  BY DEF Sort
<1>3. QED
  BY <1>1, <1>2, SortLook, ListSorts, GoesOnLook

\* An entry is printed, and a function may be called for it.
LEMMA PrintsLook ==
  ASSUME IInv, CallInv, LookInv, PrintEntry
  PROVE  LookInv'
<1>1. PICK p \in NextEntries : stack' = Callee(p) \o <<Consume(p)>> \o Tail(stack)
  BY DEF PrintEntry
<1>2. /\ UNCHANGED <<fs, call, open, quiet>> /\ pc \in Range(Blocks) /\ stack # <<>>
      /\ top.phase # "open" /\ Chain(stack)
  BY <1>1, NextPending DEF PrintEntry, others, IInv, StackInv
<1>3. top = stack[1] /\ Len(stack) \in Nat /\ Len(stack) >= 1 /\ stack \in Seq(Frames)
  BY <1>2, TopType DEF Chain
<1> DEFINE f == Consume(p)
           u == <<f>> \o Tail(stack)
<1>4. FrameInv(f) /\ f \in Frames /\ f.dir = top.dir /\ f.phase = top.phase
  BY <1>2, ConsumeType DEF FrameInv
<1>5. Chain(u) /\ Len(u) = Len(stack) /\ u # <<>> /\ u[1] = f
  BY <1>2, <1>3, <1>4, ChainHead
<1>6. Tail(stack) \in Seq(Frames)
  BY <1>2, <1>3
<1>7. Opened(stack') = Len(stack)
  <2>1. CASE Callee(p) = <<>>
    <3>1. stack' = <<>> \o <<f>> \o Tail(stack)
      BY <1>1, <2>1
    <3> HIDE DEF f
    <3>2. stack' = u
      BY <1>4, <1>6, <3>1
    <3>3. QED
      BY <1>2, <1>4, <1>5, <3>2 DEF Opened
  <2>2. ASSUME NEW c, Callee(p) = <<c>>, FrameInv(c), c.phase = "open" PROVE Opened(stack') = Len(stack)
    <3> DEFINE rest == Tail(stack)
    <3>1. stack' = <<c>> \o <<f>> \o rest
      BY <1>1, <2>2
    <3>2. c \in Frames /\ rest \in Seq(Frames) /\ Len(rest) = Len(stack) - 1
      BY <1>2, <1>3, <2>2 DEF FrameInv
    <3> HIDE DEF f, rest, u
    <3> DEFINE t == stack'
    <3>3. t \in Seq(Frames) /\ Len(t) = Len(stack) + 1 /\ t # <<>> /\ t[1] = c
      BY <1>3, <1>4, <3>1, <3>2
    <3>4. QED
      BY <1>3, <2>2, <3>3 DEF Opened
  <2>3. QED
    BY <2>1, <2>2, CalleeType
<1>8. Opened(stack) = Len(stack) /\ open \in Nat /\ open' = open
  BY <1>2, <1>3, LimitAssumption DEF Opened, IInv, StreamsInv
<1>9. Quietly' => Quietly
  BY <1>2, <1>3, <1>7, <1>8, QuietBefore
<1>10. Quietly => Under
  BY DEF LookInv, Under
<1>11. Under => Looks(stack, out)'
  BY <1>2, EntryLook, ListPrints, BothLooks
<1>12. QED
  BY <1>9, <1>10, <1>11 DEF LookInv

\* A directory has been read to its end.
LEMMA EndsLook ==
  ASSUME IInv, CallInv, LookInv, EndDir
  PROVE  LookInv'
<1>1. /\ UNCHANGED <<fs, call, quiet>> /\ pc \in Range(Blocks) /\ stack # <<>>
      /\ top.phase # "open" /\ open' = open - 1 /\ stack' = Tail(stack)
  BY DEF EndDir, Running, others, Close, Return
<1>2. Chain(stack) /\ top = stack[1] /\ Len(stack) \in Nat /\ Len(stack) >= 1
  BY <1>1, TopType DEF IInv, StackInv
<1>3. Opened(stack') = Len(stack) - 1 /\ Opened(stack) = Len(stack)
  BY <1>1, <1>2, ChainTail DEF Opened
<1>4. open \in Nat
  BY LimitAssumption DEF IInv, StreamsInv
<1>5. Quietly' => Quietly
  BY <1>1, <1>2, <1>3, <1>4, QuietBefore
<1>6. Quietly => Under
  BY DEF LookInv, Under
<1>7. Under => Looks(stack, out)'
  BY <1>1, ReturnLook, ListReturns, BothLooks
<1>8. QED
  BY <1>5, <1>6, <1>7 DEF LookInv

\* A function of an undisturbed command can open its directory, which is there, ...
LEMMA CanOpenLook ==
  ASSUME StreamsSuffice, Travels, stack # <<>>, top.phase = "open", open = Opened(stack),
         top.dir \notin Locked
  PROVE  CanOpenDir
<1>1. /\ Chain(stack) /\ top = stack[1] /\ top \in Frames /\ FrameLook(top) /\ ~Scans
      /\ Len(stack) \in Nat
  BY TravelTop DEF Chain
<1> DEFINE d == top.dir
<1>2. open = Len(stack) - 1 /\ Len(stack) = 1 + Cardinality(Up(d))
  BY <1>1 DEF Opened, Travels, Traversal, TopLook
<1>3. d \in Visible \cup {Here} /\ d \in Dirs \cup {Here}
  BY <1>1 DEF FrameLook, Frames
<1>4. Exists(d)
  BY <1>3 DEF Exists, Dots, Visible
<1>5. Cardinality(Up(d)) \in Nat /\ Cardinality(Up(d)) < MaxOpen
  <2>1. CASE d = Here
    <3>1. Up(d) = {}
      BY <2>1, AboveIs
    <3>2. QED
      BY <3>1, FS_EmptySet DEF StreamsSuffice
  <2>2. CASE d # Here
    <3>1. d \in Dirs /\ d \in Paths
      BY <1>3, <2>2, PathsAssumption
    <3>2. Cardinality(Up(d)) = Depth(d) + 1 /\ Depth(d) \in Nat
      BY <3>1, UpCount
    <3>3. QED
      BY <3>1, <3>2 DEF StreamsSuffice
  <2>3. QED
    BY <2>1, <2>2
<1>6. open + 0 < MaxOpen
  BY <1>1, <1>2, <1>5
<1>7. QED
  BY <1>1, <1>4, <1>6 DEF CanOpenDir

\* ... unless it is locked, and then there is nothing to read in it.
LEMMA OpenFailsLook ==
  ASSUME StreamsSuffice, IInv, CallInv, LookInv, OpenFails
  PROVE  LookInv'
<1>1. CASE Listing
  BY <1>1 DEF OpenFails, LookInv, Quietly, Ended
<1>2. CASE ~Listing
  <2>1. /\ UNCHANGED <<fs, call, out, quiet, open>> /\ pc \in Range(Blocks) /\ stack # <<>>
        /\ top.phase = "open" /\ stack' = Tail(stack) /\ ~CanOpenDir
    BY <1>2 DEF OpenFails, Running, others, Return
  <2>2. Chain(stack) /\ top = stack[1] /\ Len(stack) \in Nat /\ Len(stack) >= 1
    BY <2>1, TopType DEF IInv, StackInv
  <2>3. Opened(stack') = Len(stack) - 1 /\ Opened(stack) = Len(stack) - 1
    BY <2>1, <2>2, ChainTail DEF Opened
  <2>4. open \in Nat
    BY LimitAssumption DEF IInv, StreamsInv
  <2>5. Quietly' => Quietly
    BY <2>1, <2>2, <2>3, <2>4, QuietBefore
  <2>6. Quietly => Under /\ open = Opened(stack)
    BY DEF LookInv, Under, Quietly
  <2>7. Under => Travels
    BY <1>2, <2>1, UnderIs
  <2>8. ASSUME Quietly PROVE Looks(stack, out)'
    <3>1. Under /\ Travels /\ open = Opened(stack)
      BY <2>6, <2>7, <2>8
    <3>2. top.dir \in Locked
      BY <2>1, <3>1, CanOpenLook
    <3>3. Reads(stack[1]) = {}
      BY <2>1, <2>2, <3>2 DEF Reads, Below
    <3>4. Traversal(stack', out')
      BY <2>1, <2>2, <3>1, <3>3, EndLook DEF Travels
    <3>5. QED
      BY <1>2, <2>1, <3>1, <3>4, BothLooks DEF Lists
  <2>9. QED
    BY <2>5, <2>8 DEF LookInv
<1>3. QED
  BY <1>1, <1>2

\* Where stat fails, a stream is missing from then on, or the shell has ended.
LEMMA StatFailsLook ==
  ASSUME IInv, StatFails
  PROVE  LookInv'
<1>1. CASE Listing
  BY <1>1 DEF StatFails, LookInv, Quietly, Ended
<1>2. CASE ~Listing
  <2>1. PICK p \in NextEntries : ~CanStat(p)
    BY DEF StatFails
  <2>2. UNCHANGED open /\ stack' = Tail(stack)
    BY <1>2 DEF StatFails, Return
  <2>3. stack # <<>> /\ top.phase # "open" /\ Chain(stack)
    BY <2>1, NextPending DEF IInv, StackInv
  <2>4. top = stack[1] /\ Len(stack) \in Nat /\ Len(stack) >= 1
    BY <2>3, TopType
  <2>5. Opened(stack') = Len(stack) - 1 /\ Opened(stack) = Len(stack)
    BY <2>2, <2>3, <2>4, ChainTail DEF Opened
  <2>6. open \in Nat /\ Opened(stack) <= open
    BY LimitAssumption DEF IInv, StreamsInv
  <2>7. ~Quietly'
    BY <2>2, <2>4, <2>5, <2>6 DEF Quietly
  <2>8. QED
    BY <2>7 DEF LookInv
<1>3. QED
  BY <1>1, <1>2

\* Every step keeps what is known of an undisturbed command.
LEMMA LookStep ==
  ASSUME StreamsSuffice, IInv, CallInv, LookInv, IInv', CallInv', [Next]_vars
  PROVE  LookInv'
<1>1. \A block : block \in Range(Blocks) => block \notin {"ended", "crashed", "undefined"}
  BY DEF Blocks, Range
<1>2. ASSUME pc \in Range(Blocks), UNCHANGED <<fs, call, stack, out, open, quiet>>
      PROVE  LookInv'
  BY <1>1, <1>2, KeepLook DEF Ended
<1>3. ASSUME call'.fn = "none"
      PROVE  LookInv'
  BY <1>3 DEF LookInv, Looks, Recursive, Listing, ListFunctions
<1>4. Up(Here)' = {}
  BY AboveIs DEF Up, Here
<1>5. CASE UNCHANGED vars
  <2>1. Quietly' => Quietly
    BY <1>5 DEF vars, Quietly, Ended
  <2>2. Quietly => Looks(stack', out')
    BY <1>5 DEF LookInv, vars
  <2>3. UNCHANGED <<fs, call>>
    BY <1>5 DEF vars
  <2>4. QED
    BY <2>1, <2>2, <2>3, SameLooks DEF LookInv
<1>6. CASE NextLine
  BY <1>3, <1>6 DEF NextLine, noCall
<1>7. CASE Skip
  BY <1>2, <1>7 DEF Skip, others
<1>8. CASE Create
  BY <1>3, <1>8 DEF Create, At, CallInv
<1>9. CASE Delete
  BY <1>3, <1>9 DEF Delete, At, CallInv
<1>10. CASE Display
  BY <1>3, <1>10 DEF Display, At, CallInv
<1>11. CASE StartList
  <2>1. listCall \in ListCalls /\ stack = <<>> /\ Start(listCall, "list")
    BY <1>11, ListCallType DEF StartList, At, IInv, DataInv
  <2>2. listCall.fn \in Functions
        /\ listCall.fn \notin {"FIND", "TREE_NORMAL", "TREE_DEPTH", "TREE_SORT"}
    BY <2>1 DEF ListCalls, ListFunctions, Functions
  <2>3. QED
    BY <2>1, <2>2, StartLook
<1>12. CASE StartFind
  <2> DEFINE c == [noCall EXCEPT !.fn = "FIND", !.word = Argument("find")]
  <2>1. stack = <<>> /\ Start(c, "findRecurseDirPrint")
    BY <1>12 DEF StartFind, At
  <2>2. c.fn = "FIND" /\ c.fn \in Functions /\ c.fn \notin ListFunctions
    BY DEF noCall, Functions, ListFunctions
  <2> HIDE DEF c
  <2>3. call' = c
    BY <2>1 DEF Start
  <2>4. FnOf(Here)' = "findRecurseDirPrint"
    BY <1>4, <2>2, <2>3 DEF FnOf
  <2>5. QED
    BY <2>1, <2>2, <2>4, StartLook
<1>13. CASE StartTree
  <2> DEFINE c == treeCall
             fn == IF c.fn = "TREE_SORT" THEN "treePrintSort" ELSE "treePrint"
  <2>1. c \in TreeCalls /\ stack = <<>> /\ Start(c, fn)
    BY <1>13, TreeCallType DEF StartTree, At, IInv, DataInv
  <2> HIDE DEF c
  <2>2. c.fn \in {"TREE_NORMAL", "TREE_DEPTH", "TREE_SORT", "invalid"} /\ c.fn \in Functions
        /\ c.fn \notin ListFunctions
    BY <2>1 DEF TreeCalls, Functions, ListFunctions
  <2>3. call' = c
    BY <2>1 DEF Start
  <2>4. c.fn # "invalid" => FnOf(Here)' = fn
    BY <2>2, <2>3 DEF FnOf
  <2> HIDE DEF fn
  <2>5. QED
    BY <2>1, <2>2, <2>4, StartLook
<1>14. CASE OpenDir
  BY <1>14, OpenDirLook
<1>15. CASE OpenFails
  BY <1>15, OpenFailsLook
<1>16. CASE StatFails
  BY <1>16, StatFailsLook
<1>17. CASE Overrun
  BY <1>17 DEF Overrun, LookInv, Quietly, Ended
<1>18. CASE Collect
  BY <1>18, CollectsLook
<1>19. CASE Sort
  BY <1>19, SortsLook
<1>20. CASE PrintEntry
  BY <1>20, PrintsLook
<1>21. CASE EndDir
  BY <1>21, EndsLook
<1>22. CASE OthersAdd \/ OthersRemove
  BY <1>22 DEF OthersAdd, OthersRemove, LookInv, Quietly
<1>23. CASE Stopped
  BY <1>5, <1>23 DEF Stopped
<1>24. QED
  BY <1>5, <1>6, <1>7, <1>8, <1>9, <1>10, <1>11, <1>12, <1>13, <1>14, <1>15, <1>16,
     <1>17, <1>18, <1>19, <1>20, <1>21, <1>22, <1>23 DEF Next, Command

\* What an undisturbed command has printed at its end is what it is asked for.
LEMMA LooksExact ==
  ASSUME IInv, CallInv, LookInv
  PROVE  ListingExact
<1>1. SUFFICES ASSUME Undisturbed, call.fn # "none"
               PROVE  /\ call.fn = "FIND" => Printed = {<<p, 0>> : p \in {q \in Visible :
                           ({q} \cup Above[q]) \cap Match[call.word] # {}}}
                      /\ call.fn \in {"TREE_NORMAL", "TREE_DEPTH", "TREE_SORT"} =>
                           Printed = {<<p, Depth(p)>> : p \in {q \in Visible : Depth(q) <= call.max}}
                      /\ Listing =>
                           /\ Printed \subseteq (Entries(Here) \cup Dots) \X {0}
                           /\ Len(out) = Length(Cardinality(Entries(Here)) + 2)
                           /\ call.fn = "SORTED_LIST_NORMAL" =>
                                \A e \in Entries(Here) \cup Dots : <<e, 0>> \notin Printed =>
                                  \A i \in DOMAIN out : Rank["name"][Name(i)] <= Rank["name"][e]
                      /\ PreOrder
                      /\ call.fn \in {"TREE_SORT", "SORTED_LIST_NORMAL", "SORTED_LIST_PROPERTY"} =>
                           SiblingsSorted
  BY DEF ListingExact
<1>2. stack = <<>> /\ Looks(stack, out) /\ FilesInv
  <2>1. stack = <<>> /\ ~Ended /\ quiet /\ open = 0
    BY <1>1 DEF Undisturbed
  <2>2. Opened(stack) = 0
    BY <2>1 DEF Opened
  <2>3. QED
    BY <2>1, <2>2 DEF LookInv, Quietly, CallInv
<1>3. /\ out \in Seq(Entry \X Nat) /\ DOMAIN out = 1 .. Len(out) /\ Len(out) \in Nat
      /\ call.fn \in Functions /\ DataInv
  <2>1. DataInv /\ out \in Seq(Entry \X Nat) /\ call \in Calls
    BY DEF IInv, DataInv
  <2> DEFINE T == Entry \X Nat
  <2>2. out \in Seq(T)
    BY <2>1
  <2> HIDE DEF T
  <2>3. DOMAIN out = 1 .. Len(out) /\ Len(out) \in Nat
    BY <2>2
  <2>4. QED
    BY <2>1, <2>3 DEF Calls
<1>4. Printed = Shown(out)
  BY <1>3 DEF Printed, Shown
<1>5. OrderOf(out) => PreOrder
  BY <1>3 DEF OrderOf, PreOrder, Name
<1>6. SiblingsOf(out) => SiblingsSorted
  BY <1>3 DEF SiblingsOf, SiblingsSorted, Name
<1>7. CASE Recursive
  <2>1. Traversal(stack, out) /\ call.fn \notin ListFunctions
    BY <1>2, <1>7 DEF Looks, Recursive, ListFunctions
  <2>2. Ahead(stack) = {}
    <3>1. Len(stack) = 0
      BY <1>2
    <3>2. QED
      BY <3>1 DEF Ahead
  <2>3. Shown(out) = {<<q, PadOf(q)>> : q \in Wanted}
    BY <1>2, <2>1, <2>2, ExploredEnds DEF Traversal, Done
  <2>4. \A q \in Visible : q \in Paths /\ Up(q) = {q} \cup Above[q]
    BY <1>2, VisibleUp DEF Up
  <2>5. CASE call.fn = "FIND"
    <3>1. Wanted = {q \in Visible : ({q} \cup Above[q]) \cap Match[call.word] # {}}
      BY <2>4, <2>5 DEF Wanted
    <3>2. Printed = {<<q, 0>> : q \in Wanted}
      BY <1>4, <2>3, <2>5 DEF PadOf
    <3>3. QED
      BY <1>5, <2>1, <2>5, <3>1, <3>2 DEF Traversal, Listing
  <2>6. CASE call.fn # "FIND"
    <3>1. Wanted = {q \in Visible : Depth(q) <= call.max}
      BY <2>6 DEF Wanted
    <3>2. Printed = {<<q, Depth(q)>> : q \in Wanted}
      BY <1>4, <2>3, <2>6 DEF PadOf
    <3>3. call.fn = "TREE_SORT" => SiblingsSorted
      BY <1>6, <2>1 DEF Traversal
    <3>4. QED
      BY <1>5, <2>1, <2>6, <3>1, <3>2, <3>3 DEF Traversal, Listing, ListFunctions
  <2>7. QED
    BY <2>5, <2>6
<1>8. CASE Listing
  <2>1. ListLook(stack, out) /\ call.fn \in ListFunctions
    BY <1>2, <1>8 DEF Looks, Listing
  <2> DEFINE r == Names(out)
  <2>2. Result(r) /\ \A i \in 1 .. Len(out) : out[i][2] = 0
    BY <1>2, <2>1 DEF ListLook
  <2>3. /\ r \in Seq(Entry) /\ Len(r) = Len(out) /\ DOMAIN r = 1 .. Len(out)
        /\ \A i \in 1 .. Len(out) : r[i] = out[i][1]
    <3>1. <<>> \in Seq(Entry)
      OBVIOUS
    <3>2. r \in Seq(Entry) /\ Len(r) = Len(out)
      BY <1>3, <3>1, NamesIs
    <3>3. QED
      BY <1>3, <3>2 DEF Names
  <2> HIDE DEF r
  <2>4. ASSUME NEW i \in 1 .. Len(out)
        PROVE  r[i] \in All /\ r[i] \in Range(r) /\ out[i] = <<r[i], 0>>
    <3>1. out[i] = <<out[i][1], out[i][2]>>
      <4> DEFINE T == Entry \X Nat
      <4>1. out[i] \in T
        <5>1. out \in Seq(T)
          BY <1>3
        <5> HIDE DEF T
        <5>2. QED
          BY <5>1
      <4>2. QED
        BY <4>1
    <3>2. r[i] \in Range(r)
      BY <2>3 DEF Range
    <3>3. QED
      BY <2>2, <2>3, <3>1, <3>2 DEF Result, Enough
  <2>5. Printed \subseteq (Entries(Here) \cup Dots) \X {0}
    BY <1>3, <2>4 DEF Printed, All
  <2>6. Len(out) = Length(Cardinality(Entries(Here)) + 2)
    BY <1>3, <2>2, <2>3, AllFinite DEF Result, Enough
  <2>7. ASSUME call.fn = "SORTED_LIST_NORMAL", NEW e \in Entries(Here) \cup Dots,
               <<e, 0>> \notin Printed, NEW i \in DOMAIN out
        PROVE  Rank["name"][Name(i)] <= Rank["name"][e]
    <3>1. e \in All /\ e \notin Range(r)
      <4>1. ASSUME NEW j \in 1 .. Len(out), e = r[j] PROVE FALSE
        BY <1>3, <2>4, <2>7, <4>1 DEF Printed
      <4>2. QED
        BY <2>3, <4>1 DEF Range, All
    <3>2. i \in 1 .. Len(r) /\ r[i] = Name(i)
      BY <1>3, <2>3 DEF Name
    <3>3. Rank["name"][r[i]] <= Rank["name"][e]
      BY <2>2, <2>7, <3>1, <3>2 DEF Result
    <3>4. QED
      BY <3>2, <3>3
  <2>8. ASSUME NEW i \in DOMAIN out PROVE Above[Name(i)] = {} /\ Name(i) = r[i]
    <3>1. Name(i) = r[i] /\ r[i] \in All
      BY <1>3, <2>3, <2>4 DEF Name
    <3>2. CASE r[i] \in Dots
      BY <3>1, <3>2, AboveIs
    <3>3. CASE r[i] \in Entries(Here)
      <4>1. r[i] \in Paths /\ Parent[r[i]] = Here
        BY <1>2, <3>3 DEF Entries, FilesInv
      <4>2. QED
        BY <3>1, <4>1, AboveIs
    <3>4. QED
      BY <3>1, <3>2, <3>3 DEF All
  <2>9. PreOrder
    <3>1. ASSUME NEW i \in DOMAIN out, NEW j \in DOMAIN out, i < j
          PROVE  Name(i) # Name(j) /\ Name(j) \notin Above[Name(i)] /\ Name(i) \notin Above[Name(j)]
      <4>1. r[i] # r[j]
        <5>1. Injective(r)
          BY <2>2 DEF Result, Enough
        <5>2. i \in 1 .. Len(r) /\ j \in 1 .. Len(r) /\ i # j
          BY <1>3, <2>3, <3>1
        <5>3. QED
          BY <5>1, <5>2, Zenon DEF Injective
      <4>2. QED
        BY <2>8, <4>1
    <3>2. QED
      BY <3>1 DEF PreOrder
  <2>10. call.fn \in {"SORTED_LIST_NORMAL", "SORTED_LIST_PROPERTY"} => SiblingsSorted
    <3>1. SUFFICES ASSUME call.fn \in Sorted PROVE SiblingsSorted
      BY DEF Sorted
    <3>2. Ordered(r, call.by)
      BY <2>2, <3>1 DEF Result
    <3>3. ASSUME NEW i \in DOMAIN out, NEW j \in DOMAIN out, i < j
          PROVE  Rank[call.by][Name(i)] <= Rank[call.by][Name(j)]
      <4>1. i \in DOMAIN r /\ j \in DOMAIN r
        BY <1>3, <2>3
      <4>2. Rank[call.by][r[i]] <= Rank[call.by][r[j]]
        BY <3>2, <3>3, <4>1, Zenon DEF Ordered
      <4>3. QED
        BY <2>8, <4>2
    <3>4. QED
      BY <3>3 DEF SiblingsSorted
  <2>11. call.fn \notin {"FIND", "TREE_NORMAL", "TREE_DEPTH", "TREE_SORT"}
    BY <2>1 DEF ListFunctions
  <2>12. QED
    BY <2>5, <2>6, <2>7, <2>9, <2>10, <2>11
<1>9. CASE call.fn = "invalid"
  <2>1. out = <<>>
    BY <1>2, <1>9 DEF Looks
  <2>2. PreOrder
    BY <2>1 DEF PreOrder
  <2>3. QED
    BY <1>9, <2>2 DEF Listing, ListFunctions
<1>10. QED
  BY <1>1, <1>3, <1>7, <1>8, <1>9 DEF Functions, Recursive, Listing

-----------------------------------------------------------------------------
(***************************************************************************)
(* The theorems.                                                           *)
(***************************************************************************)

\* The inductive invariant: the stack of recursive calls runs down the tree, and a
\* stream more than there are open frames has cost an entry that was removed, or one
\* that stat has refused.
THEOREM Invariance == Spec => []IInv
<1>1. Init => IInv
  BY InitInv
<1>2. IInv /\ [Next]_vars => IInv'
  <2>1. SUFFICES ASSUME IInv, [Next]_vars PROVE IInv'
    OBVIOUS
  <2>2. StackInv' /\ StreamsInv'
    BY <2>1, StackStep
  <2>3. ControlInv'
    BY <2>1, ControlStep
  <2>4. DataInv'
    BY <2>1, DataStep
  <2>5. QED
    BY <2>2, <2>3, <2>4 DEF IInv
<1>3. QED
  BY <1>1, <1>2, PTL DEF Spec

\* The variables keep their types in every command (fileOp.c:87-829), whatever the
\* others do: a table is collected only up to STAT_BUFFER_SIZE, and no more streams are
\* open than the shell has descriptors.
THEOREM TypeCorrect == Spec => []TypeOK
<1>1. IInv => TypeOK
  <2>1. SUFFICES ASSUME IInv PROVE TypeOK
    OBVIOUS
  <2>2. stack \in Seq(Frames) /\ \A i \in 1 .. Len(stack) : FrameInv(stack[i])
    BY <2>1 DEF IInv, StackInv, Chain
  <2>3. ASSUME NEW i \in DOMAIN stack
        PROVE  /\ stack[i].dir \in Dirs \cup {Here} /\ stack[i].pad \in Nat
               /\ stack[i].phase \in {"open", "read", "print"}
               /\ stack[i].left \subseteq Paths \cup Dots
               /\ stack[i].table \in Seq(Paths \cup Dots)
               /\ stack[i].phase = "read" => Len(stack[i].table) <= STAT_BUFFER_SIZE
    <3>1. FrameInv(stack[i])
      BY <2>2
    <3>2. QED
      BY <3>1 DEF FrameInv, Frames, Entry
  <2>4. \A i \in DOMAIN out : out[i] \in (Paths \cup Dots) \X Nat
    BY <2>1 DEF IInv, DataInv, Entry
  <2>5. QED
    BY <2>1, <2>3, <2>4 DEF TypeOK, IInv, ControlInv, DataInv, StreamsInv
<1>2. QED
  BY <1>1, Invariance, PTL

\* The streams that stay open are those of running functions, and at most one for each
\* entry that others have removed and each that stat has refused, in whatever order it
\* happens: a function that returns early as stat fails (fileOp.c:116, 176, 240, 324) is
\* the only one to leave one, whether the entry is gone, a link to nothing, or in a
\* directory that may not be searched.
THEOREM StreamsCorrect == Spec => []StreamsClosed
<1>1. IInv => StreamsClosed
  <2>1. SUFFICES ASSUME IInv PROVE StreamsClosed
    OBVIOUS
  <2>2. Chain(stack) /\ stack \in Seq(Frames) /\ Len(stack) \in Nat /\ DOMAIN stack = 1 .. Len(stack)
    BY <2>1 DEF IInv, StackInv, Chain
  <2> DEFINE opened == {i \in DOMAIN stack : stack[i].phase # "open"}
  <2>3. Cardinality(opened) = Opened(stack)
    <3>1. CASE stack # <<>> /\ stack[1].phase = "open"
      <4>1. Len(stack) >= 1
        BY <2>2, <3>1
      <4>2. opened = 2 .. Len(stack)
        BY <2>2, <3>1, <4>1 DEF Chain
      <4>3. Cardinality(2 .. Len(stack)) = Len(stack) - 1
        BY <2>2, <4>1, FS_Interval
      <4>4. QED
        BY <3>1, <4>2, <4>3 DEF Opened
    <3>2. CASE ~(stack # <<>> /\ stack[1].phase = "open")
      <4>1. opened = 1 .. Len(stack)
        BY <2>2, <3>2 DEF Chain
      <4>2. Cardinality(1 .. Len(stack)) = Len(stack)
        BY <2>2, FS_Interval
      <4>3. QED
        BY <3>2, <4>1, <4>2 DEF Opened
    <3>3. QED
      BY <3>1, <3>2
  <2>4. Cardinality(Stale(stack, fs)) \in Nat
    BY <2>2, StaleFinite
  <2>5. Opened(stack) \in Nat
    BY <2>2 DEF Opened
  <2>6. open >= Opened(stack) /\ open <= Opened(stack) + removed + refused
    BY <2>1, <2>4, <2>5 DEF IInv, StreamsInv
  <2>7. QED
    BY <2>3, <2>6 DEF StreamsClosed
<1>2. QED
  BY <1>1, Invariance, PTL

\* What a command prints that nobody disturbs, in every order in which readdir returns
\* entries and qsort leaves equal ones, in every tree of which each directory can be open
\* together with those it is in: find and tree exactly what they are asked for, without
\* what is in a directory that may not be read, and list exactly as many entries as its
\* loops count (fileOp.c:87-360, 540-829).
THEOREM ListingCorrect ==
  ASSUME StreamsSuffice
  PROVE  Spec => []ListingExact
<1>1. Init => IInv /\ CallInv /\ LookInv
  <2>1. SUFFICES ASSUME Init PROVE IInv /\ CallInv /\ LookInv
    OBVIOUS
  <2>2. IInv
    BY <2>1, InitInv
  <2>3. stack = <<>> /\ call = noCall /\ fs \in Files
    BY <2>1 DEF Init
  <2>4. FilesInv
    BY <2>3, PathsAssumption DEF FilesInv
  <2>5. CallInv
    BY <2>3, <2>4 DEF CallInv, ListOptions, noCall
  <2>6. LookInv
    BY <2>3 DEF LookInv, Looks, Recursive, Listing, ListFunctions, noCall
  <2>7. QED
    BY <2>2, <2>5, <2>6
<1>2. IInv /\ IInv' /\ CallInv /\ LookInv /\ [Next]_vars => CallInv' /\ LookInv'
  BY CallStep, LookStep
<1>3. IInv /\ CallInv /\ LookInv => ListingExact
  BY LooksExact
<1>4. QED
  BY <1>1, <1>2, <1>3, Invariance, PTL DEF Spec
=============================================================================
