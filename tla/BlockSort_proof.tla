------------------------------ MODULE BlockSort_proof ------------------------------
(***************************************************************************)
(* Theorems about BlockSort (lab6, lab6_1), for every number of blocks and *)
(* threads and every size of a record and of a block.                      *)
(***************************************************************************)
EXTENDS BlockSort, FiniteSetTheorems, WellFoundedInduction, TLAPS

\* Where the threads are in each phase of sortIndex; a pair is only held in the merge.
Phases ==
  /\ main = "sort" => \A t \in Threads : pc[t] \in {"start", "sort", "lock", "scan", "check", "out"}
  /\ main = "merge" => \A t \in Threads : pc[t] \in {"mlock", "mscan", "copy", "publish", "out"}
  /\ main \in {"sorted", "done"} => AllOut
  /\ main \in {"sort", "sorted"} => \A t \in Threads : num1[t] = Nobody /\ num2[t] = Nobody

MutexOwned == \A t \in Threads : pc[t] \in {"scan", "mscan"} <=> mutex = t

\* What a thread's local pointer says of its block.
OwnBlocks ==
  /\ \A t \in Threads : pc[t] \in {"sort", "lock", "scan", "check", "out"} => block[t] \in Blocks
  /\ \A t \in Threads : pc[t] \in {"lock", "scan"} => order[block[t]] # "input"
  /\ \A t \in Threads : order[t] = "input" => pc[t] = "start" \/ (pc[t] = "sort" /\ block[t] = t)

\* A block nobody has sorted is free, or its last claimer has it still.
InputClaimed ==
  \A b \in Blocks : order[b] = "input" =>
    free[b] \/ \E t \in Threads : block[t] = b /\ pc[t] \in {"sort", "check", "out"}

\* While "all" is raised its raiser still searches, or has found no block and keeps
\* pointing at the one it sorted before.
Sorted(t) == pc[t] \in {"check", "out"} /\ order[block[t]] # "input"
AllRaised ==
  all => \/ \E w \in Threads : pc[w] = "scan"
         \/ FreeBlocks = {} /\ \E w \in Threads : Sorted(w)

\* Not everyone leaves while a block is free, and not everyone drops a block.
SomeoneStays ==
  /\ FreeBlocks # {} => \E w \in Threads : pc[w] # "out"
  /\ \E w \in Threads : pc[w] # "out" \/ order[block[w]] # "input"

SortPhase ==
  main \in {"sort", "sorted"} => OwnBlocks /\ InputClaimed /\ AllRaised /\ SomeoneStays

\* A thread finds the first block of its pair before the second, and holds a whole
\* pair while it copies.
Pairs ==
  \A t \in Threads :
    /\ num2[t] # Nobody => num1[t] # Nobody /\ num1[t] < num2[t]
    /\ pc[t] = "mscan" /\ num1[t] # Nobody => num1[t] < cursor[t]
    /\ pc[t] = "mlock" => num1[t] = Nobody /\ num2[t] = Nobody
    /\ pc[t] \in {"copy", "publish"} => num2[t] # Nobody

\* The blocks whose records o leaves in block b.
Share(o, b) == {a \in Blocks : o[a] = b}

\* o says in which block each original block ended up: a block that no thread can
\* find and none holds has been absorbed, the others have grown by what they absorbed.
Owner(o) ==
  /\ o \in [Blocks -> Blocks]
  /\ \A a \in Blocks : o[a] <= a /\ o[o[a]] = o[a]
  /\ \A b \in Blocks : o[b] = b => size[b] = blockSize * Cardinality(Share(o, b))
  /\ main \in {"sort", "sorted"} => \A b \in Blocks : o[b] = b
  /\ main \in {"merge", "done"} =>
       \A b \in Blocks : o[b] = b <=> (~free[b] \/ \E t \in Threads : b \in Held(t))

Partition == \E o \in [Blocks -> Blocks] : Owner(o)

IInv ==
  /\ TypeOK
  /\ Phases
  /\ MutexOwned
  /\ SortPhase
  /\ Pairs
  /\ PairsDisjoint
  /\ Partition

-----------------------------------------------------------------------------
(* The constants, and lemmas about the sizes of blocks *)

LEMMA Basics ==
  /\ Granul \in Nat \ {0} /\ NThreads \in Nat \ {0} /\ NThreads <= Granul
  /\ RecordUnits \in Nat \ {0} /\ RecordsPerBlock \in Nat \ {0}
  /\ Threads \subseteq Blocks /\ Nobody \notin Blocks /\ Nobody \notin Threads
  /\ 0 \in Threads
<1>1. Granul \in Nat \ {0}
  <2>1. PICK n \in 0 .. 10 : Granul = 2 ^ n
    BY SortAssumption DEF SortAssumption
  <2>2. n \in {0, 1, 2, 3, 4, 5, 6, 7, 8, 9, 10}
    OBVIOUS
  <2> DEFINE power(i) == 2 ^ i
  <2>3. /\ power(0) = 1 /\ power(1) = 2 /\ power(2) = 4 /\ power(3) = 8 /\ power(4) = 16
        /\ power(5) = 32 /\ power(6) = 64 /\ power(7) = 128 /\ power(8) = 256
        /\ power(9) = 512 /\ power(10) = 1024
    OBVIOUS
  <2>4. Granul = power(n)
    BY <2>1
  <2> HIDE DEF power
  <2> QED
    BY <2>2, <2>3, <2>4
<1>2. /\ NThreads \in Nat \ {0} /\ NThreads <= Granul
      /\ RecordUnits \in Nat \ {0} /\ RecordsPerBlock \in Nat \ {0}
  BY <1>1, SortAssumption DEF SortAssumption
<1> QED
  BY <1>1, <1>2, SortAssumption DEF SortAssumption, Threads, Blocks

LEMMA ProductMonotone ==
  ASSUME NEW x \in Nat, NEW y \in Nat, NEW z \in Nat, y <= z
  PROVE  x * y \in Nat /\ x * z \in Nat /\ x * y <= x * z
OBVIOUS

LEMMA Floor ==
  ASSUME NEW x \in Nat, NEW r \in Nat \ {0}
  PROVE  x \div r \in Nat /\ r * (x \div r) <= x /\ x < r * (x \div r) + r
OBVIOUS

\* The blocks fill the mapped chunk but for what the division drops.
LEMMA BlockFacts ==
  /\ memsize \in Nat /\ blockSize \in Nat \ {0} /\ Granul * blockSize \in Nat
  /\ Granul * blockSize <= memsize /\ blockSize <= memsize
<1> DEFINE h == RecordUnits \div 2
           w == RecordsPerBlock * RecordUnits
<1>1. h \in Nat
  BY Basics, Floor
<1>2. w \in Nat /\ w >= 1
  BY Basics
<1>3. Granul \in Nat \ {0}
  BY Basics
<1>4. memsize = Granul * w + h
  BY Basics DEF memsize
<1> HIDE DEF h, w
<1>5. Granul * w \in Nat /\ Granul * w >= Granul
  BY <1>2, <1>3
<1>6. memsize \in Nat /\ memsize >= Granul
  BY <1>1, <1>3, <1>4, <1>5
<1>7. blockSize \in Nat /\ Granul * blockSize <= memsize /\ memsize < Granul * blockSize + Granul
  BY <1>3, <1>6, Floor DEF blockSize
<1>8. blockSize # 0
  BY <1>3, <1>6, <1>7
<1>9. Granul * blockSize \in Nat /\ blockSize <= Granul * blockSize
  BY <1>3, <1>7, <1>8
<1> QED
  BY <1>6, <1>7, <1>8, <1>9

\* A block that has absorbed others spans at most the rest of the chunk.
LEMMA ShareBound ==
  ASSUME NEW o \in [Blocks -> Blocks], \A a \in Blocks : o[a] <= a, NEW b \in Blocks, o[b] = b
  PROVE  /\ IsFiniteSet(Share(o, b)) /\ Cardinality(Share(o, b)) \in 1 .. Granul - b
         /\ blockSize * Cardinality(Share(o, b)) \in 1 .. memsize
         /\ b * blockSize + blockSize * Cardinality(Share(o, b)) <= Granul * blockSize
<1> DEFINE S == Share(o, b)
<1>1. Granul \in Nat \ {0} /\ b \in Nat /\ b < Granul
  BY Basics DEF Blocks
<1>2. IsFiniteSet(b .. Granul - 1) /\ Cardinality(b .. Granul - 1) = Granul - b
  BY <1>1, FS_Interval
<1>3. S \subseteq b .. Granul - 1
  BY <1>1 DEF Share, Blocks
<1>4. IsFiniteSet(S) /\ Cardinality(S) <= Granul - b
  BY <1>2, <1>3, FS_Subset
<1>5. b \in S
  BY DEF Share
<1>6. Cardinality(S) \in Nat /\ Cardinality(S) # 0
  BY <1>4, <1>5, FS_CardinalityType, FS_EmptySet
<1> HIDE DEF S
<1>7. PICK n \in Nat \ {0} : n = Cardinality(S) /\ n <= Granul - b
  BY <1>1, <1>4, <1>6
<1>8. PICK z \in Nat \ {0} : z = blockSize
  BY BlockFacts
<1>9. z * n \in Nat /\ z * n >= 1 /\ b * z + z * n <= Granul * z
  <2>1. z * n \in Nat /\ z * n >= 1
    BY <1>7, <1>8
  <2>2. z * (b + n) <= z * Granul
    BY <1>1, <1>7, <1>8, ProductMonotone
  <2>3. b * z + z * n = z * (b + n) /\ Granul * z = z * Granul
    BY <1>1, <1>7, <1>8
  <2> QED
    BY <2>1, <2>2, <2>3
<1>10. z * n <= memsize
  <2>1. b * z \in Nat /\ Granul * z \in Nat /\ Granul * z <= memsize /\ memsize \in Nat
    BY <1>1, <1>8, BlockFacts
  <2> QED
    BY <1>9, <2>1
<1> QED
  BY <1>1, <1>4, <1>7, <1>8, <1>9, <1>10, BlockFacts DEF S

\* The share of the block that absorbs another.
Absorb(o, x, y) == [a \in Blocks |-> IF o[a] = y THEN x ELSE o[a]]

LEMMA ShareAbsorb ==
  ASSUME NEW o \in [Blocks -> Blocks], \A a \in Blocks : o[a] <= a,
         NEW x \in Blocks, NEW y \in Blocks, x < y, o[x] = x, o[y] = y
  PROVE  /\ Absorb(o, x, y) \in [Blocks -> Blocks]
         /\ \A a \in Blocks : Absorb(o, x, y)[a] <= a
         /\ Cardinality(Share(Absorb(o, x, y), x)) = Cardinality(Share(o, x)) + Cardinality(Share(o, y))
         /\ \A b \in Blocks \ {x, y} : Share(Absorb(o, x, y), b) = Share(o, b)
<1> DEFINE p == Absorb(o, x, y)
           A == Share(o, x)
           B == Share(o, y)
<1>1. \A a \in Blocks : a \in Nat
  BY Basics DEF Blocks
<1>2. p \in [Blocks -> Blocks] /\ \A a \in Blocks : p[a] <= a
  <2>1. \A a \in Blocks : o[a] = y => x <= a
    BY <1>1
  <2> QED
    BY <2>1 DEF Absorb
<1>3. Share(p, x) = A \cup B /\ A \cap B = {}
  BY <1>1 DEF Share, Absorb
<1>4. \A b \in Blocks \ {x, y} : Share(p, b) = Share(o, b)
  BY DEF Share, Absorb
<1>5. IsFiniteSet(A) /\ IsFiniteSet(B) /\ Cardinality(A) \in Nat /\ Cardinality(B) \in Nat
  BY ShareBound, FS_CardinalityType
<1>6. Cardinality(A \cup B) = Cardinality(A) + Cardinality(B)
  <2> HIDE DEF A, B
  <2>1. Cardinality(A \cup B) = Cardinality(A) + Cardinality(B) - Cardinality(A \cap B)
    BY <1>5, FS_Union
  <2>2. Cardinality(A \cap B) = 0
    BY <1>3, FS_EmptySet
  <2> QED
    BY <1>5, <2>1, <2>2
<1> QED
  BY <1>2, <1>3, <1>4, <1>6

-----------------------------------------------------------------------------
(* The invariant and the first phase *)

LEMMA InvInit == Init => IInv
<1> SUFFICES ASSUME Init PROVE IInv
  OBVIOUS
<1>1. TypeOK
  <2>1. blockSize \in 1 .. memsize /\ 0 \in 0 .. Granul
    BY Basics, BlockFacts
  <2>2. /\ size \in [Blocks -> 1 .. memsize] /\ cursor \in [Threads -> 0 .. Granul]
    BY <2>1 DEF Init
  <2>3. /\ pc \in [Threads -> {"start"}] /\ free \in [Blocks -> {TRUE}]
        /\ order \in [Blocks -> {"input"}] /\ block \in [Threads -> {Nobody}]
        /\ num1 \in [Threads -> {Nobody}] /\ num2 \in [Threads -> {Nobody}]
    BY DEF Init
  <2>4. main = "sort" /\ mutex = Nobody /\ all = FALSE
    BY DEF Init
  <2> QED
    BY <2>2, <2>3, <2>4 DEF TypeOK
<1>2. Phases /\ MutexOwned /\ Pairs
  BY Basics DEF Init, Phases, MutexOwned, Pairs
<1>3. PairsDisjoint
  BY DEF Init, PairsDisjoint, Held
<1>4. SortPhase
  <2>1. 0 \in Threads
    BY Basics
  <2>2. OwnBlocks /\ InputClaimed /\ AllRaised
    BY DEF Init, OwnBlocks, InputClaimed, AllRaised
  <2>3. SomeoneStays
    BY <2>1 DEF Init, SomeoneStays
  <2> QED
    BY <2>2, <2>3 DEF SortPhase
<1>5. Partition
  <2> DEFINE o == [b \in Blocks |-> b]
  <2>1. o \in [Blocks -> Blocks] /\ \A b \in Blocks : o[b] = b
    OBVIOUS
  <2>2. \A b \in Blocks : Share(o, b) = {b}
    BY DEF Share
  <2>3. \A b \in Blocks : Cardinality(Share(o, b)) = 1
    BY <2>2, FS_Singleton
  <2>4. \A b \in Blocks : size[b] = blockSize * Cardinality(Share(o, b))
    BY <2>3, BlockFacts DEF Init
  <2>5. \A b \in Blocks : b \in Nat
    BY Basics DEF Blocks
  <2>6. main = "sort"
    BY DEF Init
  <2> HIDE DEF o
  <2>7. Owner(o)
    BY <2>1, <2>4, <2>5, <2>6 DEF Owner
  <2> QED
    BY <2>1, <2>7 DEF Partition
<1> QED
  BY <1>1, <1>2, <1>3, <1>4, <1>5 DEF IInv

\* What the steps of sortThread have in common.
LEMMA SortFrame ==
  ASSUME IInv, NEW t \in Threads, pc[t] \in {"start", "sort", "lock", "scan", "check"},
         NEW p \in {"sort", "lock", "scan", "check", "out"}, pc' = [pc EXCEPT ![t] = p],
         UNCHANGED <<main, merging>>
  PROVE  /\ main = "sort" /\ main' = "sort"
         /\ OwnBlocks /\ InputClaimed /\ AllRaised /\ SomeoneStays
         /\ pc \in [Threads -> {"start", "sort", "lock", "scan", "check", "out"}]
         /\ pc' \in [Threads -> {"start", "sort", "lock", "scan", "check", "out"}]
         /\ Phases' /\ Pairs' /\ PairsDisjoint' /\ Partition'
<1>1. main = "sort" /\ main' = "sort"
  BY DEF IInv, TypeOK, Phases, AllOut
<1>2. /\ pc \in [Threads -> {"start", "sort", "lock", "scan", "check", "out"}]
      /\ pc' \in [Threads -> {"start", "sort", "lock", "scan", "check", "out"}]
  BY <1>1 DEF IInv, TypeOK, Phases
<1>3. /\ UNCHANGED <<size, cursor, num1, num2>>
      /\ \A u \in Threads : num1[u] = Nobody /\ num2[u] = Nobody
  BY <1>1 DEF merging, IInv, Phases
<1>4. Phases' /\ Pairs'
  BY <1>1, <1>2, <1>3 DEF Phases, Pairs
<1>5. PairsDisjoint'
  BY <1>3 DEF PairsDisjoint, Held
<1>6. Partition'
  <2>1. PICK o \in [Blocks -> Blocks] : Owner(o)
    BY DEF IInv, Partition
  <2>2. Owner(o)'
    BY <1>1, <1>3, <2>1 DEF Owner
  <2> QED
    BY <2>2 DEF Partition
<1> QED
  BY <1>1, <1>2, <1>4, <1>5, <1>6 DEF IInv, SortPhase

LEMMA SortStartStep ==
  ASSUME IInv, NEW t \in Threads, SortStart(t)
  PROVE  IInv'
<1>1. /\ pc[t] = "start" /\ pc' = [pc EXCEPT ![t] = "sort"]
      /\ block' = [block EXCEPT ![t] = t] /\ free' = [free EXCEPT ![t] = FALSE]
      /\ UNCHANGED <<main, mutex, all, order, merging>>
  BY DEF SortStart, Goto
<1>2. /\ main = "sort" /\ main' = "sort" /\ OwnBlocks /\ InputClaimed /\ AllRaised /\ SomeoneStays
      /\ pc \in [Threads -> {"start", "sort", "lock", "scan", "check", "out"}]
      /\ Phases' /\ Pairs' /\ PairsDisjoint' /\ Partition'
  BY <1>1, SortFrame
<1>3. t \in Blocks /\ block \in [Threads -> Blocks \cup {Nobody}] /\ free \in [Blocks -> BOOLEAN]
  BY Basics DEF IInv, TypeOK
<1>4. /\ pc'[t] = "sort" /\ block'[t] = t
      /\ \A u \in Threads : u # t => pc'[u] = pc[u] /\ block'[u] = block[u]
  BY <1>1, <1>2, <1>3
<1>5. ~free'[t] /\ \A b \in Blocks : b # t => (free'[b] <=> free[b])
  BY <1>1, <1>3
<1>6. TypeOK'
  BY <1>1, <1>3 DEF IInv, TypeOK, merging
<1>7. MutexOwned'
  BY <1>1, <1>4 DEF IInv, MutexOwned
<1>8. OwnBlocks'
  BY <1>1, <1>3, <1>4, <1>2 DEF OwnBlocks
<1>9. InputClaimed'
  BY <1>1, <1>2, <1>4, <1>5 DEF InputClaimed
<1>10. FreeBlocks' \subseteq FreeBlocks
  BY <1>5 DEF FreeBlocks
<1>11. AllRaised'
  BY <1>1, <1>2, <1>4, <1>10 DEF AllRaised, Sorted
<1>12. SomeoneStays'
  BY <1>4 DEF SomeoneStays
<1> QED
  BY <1>2, <1>6, <1>7, <1>8, <1>9, <1>11, <1>12 DEF IInv, SortPhase

LEMMA QSortStep ==
  ASSUME IInv, NEW t \in Threads, QSort(t)
  PROVE  IInv'
<1>1. PICK outcome \in {"sorted", "torn"} :
        /\ pc[t] = "sort" /\ pc' = [pc EXCEPT ![t] = "lock"]
        /\ order' = [order EXCEPT ![block[t]] = outcome]
        /\ UNCHANGED <<main, mutex, free, all, block, merging>>
  BY DEF QSort, Goto
<1>2. /\ main = "sort" /\ main' = "sort" /\ OwnBlocks /\ InputClaimed /\ AllRaised /\ SomeoneStays
      /\ pc \in [Threads -> {"start", "sort", "lock", "scan", "check", "out"}]
      /\ Phases' /\ Pairs' /\ PairsDisjoint' /\ Partition'
  BY <1>1, SortFrame
<1>3. block[t] \in Blocks /\ order \in [Blocks -> {"input", "sorted", "torn"}]
  BY <1>1, <1>2 DEF OwnBlocks, IInv, TypeOK
<1>4. /\ order'[block[t]] # "input"
      /\ \A b \in Blocks : order'[b] = "input" => order[b] = "input" /\ b # block[t]
      /\ \A b : order[b] # "input" /\ b \in Blocks => order'[b] # "input"
  BY <1>1, <1>3
<1>5. pc'[t] = "lock" /\ \A u \in Threads : u # t => pc'[u] = pc[u]
  BY <1>1, <1>2
<1>6. TypeOK'
  BY <1>1, <1>3 DEF IInv, TypeOK, merging
<1>7. MutexOwned'
  BY <1>1, <1>5 DEF IInv, MutexOwned
<1>8. OwnBlocks'
  <2>1. \A u \in Threads : u \in Blocks
    BY Basics
  <2> QED
    BY <1>1, <1>2, <1>3, <1>4, <1>5, <2>1 DEF OwnBlocks
<1>9. InputClaimed'
  BY <1>1, <1>2, <1>4, <1>5 DEF InputClaimed
<1>10. AllRaised'
  <2>1. \A w \in Threads : Sorted(w) => w # t /\ Sorted(w)'
    BY <1>1, <1>2, <1>4, <1>5 DEF Sorted, OwnBlocks
  <2>2. \A w \in Threads : pc[w] = "scan" => pc'[w] = "scan"
    BY <1>1, <1>5
  <2>3. FreeBlocks' = FreeBlocks
    BY <1>1 DEF FreeBlocks
  <2> QED
    BY <1>1, <1>2, <2>1, <2>2, <2>3 DEF AllRaised
<1>11. SomeoneStays'
  BY <1>5 DEF SomeoneStays
<1> QED
  BY <1>2, <1>6, <1>7, <1>8, <1>9, <1>10, <1>11 DEF IInv, SortPhase

LEMMA SortLockStep ==
  ASSUME IInv, NEW t \in Threads, SortLock(t)
  PROVE  IInv'
<1>1. /\ pc[t] = "lock" /\ pc' = [pc EXCEPT ![t] = "scan"] /\ mutex = Nobody /\ mutex' = t
      /\ all' = TRUE /\ UNCHANGED <<main, free, block, order, merging>>
  BY DEF SortLock, Goto
<1>2. /\ main = "sort" /\ main' = "sort" /\ OwnBlocks /\ InputClaimed /\ AllRaised /\ SomeoneStays
      /\ pc \in [Threads -> {"start", "sort", "lock", "scan", "check", "out"}]
      /\ Phases' /\ Pairs' /\ PairsDisjoint' /\ Partition'
  BY <1>1, SortFrame
<1>3. pc'[t] = "scan" /\ \A u \in Threads : u # t => pc'[u] = pc[u]
  BY <1>1, <1>2
<1>4. TypeOK'
  BY <1>1 DEF IInv, TypeOK, merging
<1>5. MutexOwned'
  BY <1>1, <1>3, Basics DEF IInv, MutexOwned
<1>6. OwnBlocks'
  BY <1>1, <1>2, <1>3 DEF OwnBlocks
<1>7. InputClaimed'
  BY <1>1, <1>2, <1>3 DEF InputClaimed
<1>8. AllRaised' /\ SomeoneStays'
  BY <1>3 DEF AllRaised, SomeoneStays
<1> QED
  BY <1>2, <1>4, <1>5, <1>6, <1>7, <1>8 DEF IInv, SortPhase

LEMMA SortScanStep ==
  ASSUME IInv, NEW t \in Threads, SortScan(t)
  PROVE  IInv'
<1>1. /\ pc[t] = "scan" /\ pc' = [pc EXCEPT ![t] = "check"] /\ mutex' = Nobody
      /\ UNCHANGED <<main, order, merging>>
  BY DEF SortScan, Goto
<1>2. /\ main = "sort" /\ main' = "sort" /\ OwnBlocks /\ InputClaimed /\ AllRaised /\ SomeoneStays
      /\ pc \in [Threads -> {"start", "sort", "lock", "scan", "check", "out"}]
      /\ Phases' /\ Pairs' /\ PairsDisjoint' /\ Partition'
  BY <1>1, SortFrame
<1>3. pc'[t] = "check" /\ \A u \in Threads : u # t => pc'[u] = pc[u]
  BY <1>1, <1>2
<1>4. MutexOwned'
  BY <1>1, <1>3, Basics DEF IInv, MutexOwned
<1>5. SomeoneStays'
  BY <1>3 DEF SomeoneStays
<1>6. CASE FreeBlocks = {} /\ UNCHANGED <<all, block, free>>
  <2>1. TypeOK'
    BY <1>1, <1>6 DEF IInv, TypeOK, merging
  <2>2. OwnBlocks'
    BY <1>1, <1>2, <1>3, <1>6 DEF OwnBlocks
  <2>3. InputClaimed'
    BY <1>1, <1>2, <1>3, <1>6 DEF InputClaimed
  <2>4. AllRaised'
    <3>1. Sorted(t)' /\ FreeBlocks' = {}
      BY <1>1, <1>2, <1>3, <1>6 DEF Sorted, OwnBlocks, FreeBlocks
    <3> QED
      BY <3>1 DEF AllRaised
  <2> QED
    BY <1>2, <1>4, <1>5, <2>1, <2>2, <2>3, <2>4 DEF IInv, SortPhase
<1>7. ASSUME NEW b \in FreeBlocks, all' = FlagFound, block' = [block EXCEPT ![t] = b],
             free' = [free EXCEPT ![b] = FALSE]
      PROVE  IInv'
  <2>1. b \in Blocks /\ free[b] /\ all' = FALSE
    BY <1>7 DEF FreeBlocks, FlagFound
  <2>2. /\ block'[t] = b /\ \A u \in Threads : u # t => block'[u] = block[u]
        /\ \A c \in Blocks : c # b => (free'[c] <=> free[c])
    BY <1>7, <2>1 DEF IInv, TypeOK
  <2>3. TypeOK'
    BY <1>1, <1>7, <2>1 DEF IInv, TypeOK, merging
  <2>4. OwnBlocks'
    BY <1>1, <1>2, <1>3, <2>1, <2>2 DEF OwnBlocks
  <2>5. InputClaimed'
    BY <1>1, <1>2, <1>3, <2>1, <2>2 DEF InputClaimed, OwnBlocks
  <2>6. AllRaised'
    BY <2>1 DEF AllRaised
  <2> QED
    BY <1>2, <1>4, <1>5, <2>3, <2>4, <2>5, <2>6 DEF IInv, SortPhase
<1> QED
  BY <1>6, <1>7 DEF SortScan

LEMMA SortCheckStep ==
  ASSUME IInv, NEW t \in Threads, SortCheck(t)
  PROVE  IInv'
<1>1. PICK p \in {"sort", "out"} :
        /\ pc[t] = "check" /\ pc' = [pc EXCEPT ![t] = p] /\ (p = "out" <=> all)
        /\ UNCHANGED <<main, mutex, free, all, block, order, merging>>
  BY DEF SortCheck, Goto, sorting
<1>2. /\ main = "sort" /\ main' = "sort" /\ OwnBlocks /\ InputClaimed /\ AllRaised /\ SomeoneStays
      /\ pc \in [Threads -> {"start", "sort", "lock", "scan", "check", "out"}]
      /\ Phases' /\ Pairs' /\ PairsDisjoint' /\ Partition'
  BY <1>1, SortFrame
<1>3. pc'[t] = p /\ \A u \in Threads : u # t => pc'[u] = pc[u]
  BY <1>1, <1>2
<1>4. TypeOK'
  BY <1>1 DEF IInv, TypeOK, merging
<1>5. MutexOwned'
  BY <1>1, <1>3 DEF IInv, MutexOwned
<1>6. OwnBlocks'
  BY <1>1, <1>2, <1>3 DEF OwnBlocks
<1>7. InputClaimed'
  BY <1>1, <1>2, <1>3 DEF InputClaimed
<1>8. FreeBlocks' = FreeBlocks
  BY <1>1 DEF FreeBlocks
<1>9. AllRaised' /\ SomeoneStays'
  <2>1. CASE ~all
    BY <1>1, <1>3, <2>1 DEF AllRaised, SomeoneStays
  <2>2. CASE all /\ \E w \in Threads : pc[w] = "scan"
    BY <1>1, <1>3, <2>2 DEF AllRaised, SomeoneStays
  <2>3. CASE all /\ FreeBlocks = {} /\ \E w \in Threads : Sorted(w)
    <3>1. PICK w \in Threads : Sorted(w)
      BY <2>3
    <3>2. Sorted(w)'
      BY <1>1, <1>3, <2>3, <3>1 DEF Sorted
    <3> QED
      BY <1>8, <2>3, <3>2 DEF AllRaised, SomeoneStays, Sorted
  <2> QED
    BY <1>2, <2>1, <2>2, <2>3 DEF AllRaised
<1> QED
  BY <1>2, <1>4, <1>5, <1>6, <1>7, <1>9 DEF IInv, SortPhase

-----------------------------------------------------------------------------
(* The invariant and the second phase *)

\* What the steps of mergeBlocks have in common.
LEMMA MergeFrame ==
  ASSUME IInv, NEW t \in Threads, pc[t] \in {"mlock", "mscan", "copy", "publish"},
         NEW p \in {"mlock", "mscan", "copy", "publish", "out"}, pc' = [pc EXCEPT ![t] = p],
         UNCHANGED main
  PROVE  /\ main = "merge" /\ main' = "merge"
         /\ pc \in [Threads -> {"mlock", "mscan", "copy", "publish", "out"}]
         /\ pc' \in [Threads -> {"mlock", "mscan", "copy", "publish", "out"}]
         /\ Phases' /\ SortPhase'
         /\ pc'[t] = p /\ \A u \in Threads : u # t => pc'[u] = pc[u]
<1>1. main = "merge" /\ main' = "merge"
  BY DEF IInv, TypeOK, Phases, AllOut
<1>2. /\ pc \in [Threads -> {"mlock", "mscan", "copy", "publish", "out"}]
      /\ pc' \in [Threads -> {"mlock", "mscan", "copy", "publish", "out"}]
  BY <1>1 DEF IInv, TypeOK, Phases
<1> QED
  BY <1>1, <1>2 DEF Phases, SortPhase

\* Steps that keep the blocks and who holds them.
LEMMA HoldingSame ==
  ASSUME IInv, UNCHANGED <<main, free, size, num1, num2>>
  PROVE  PairsDisjoint' /\ Partition'
<1>1. \A t : Held(t)' = Held(t)
  BY DEF Held
<1>2. PairsDisjoint'
  BY <1>1 DEF IInv, PairsDisjoint
<1>3. PICK o \in [Blocks -> Blocks] : Owner(o)
  BY DEF IInv, Partition
<1>4. Owner(o)'
  BY <1>1, <1>3 DEF Owner
<1> QED
  BY <1>2, <1>4 DEF Partition

LEMMA MergeLockStep ==
  ASSUME IInv, NEW t \in Threads, MergeLock(t)
  PROVE  IInv'
<1>1. /\ pc[t] = "mlock" /\ pc' = [pc EXCEPT ![t] = "mscan"] /\ mutex = Nobody /\ mutex' = t
      /\ cursor' = [cursor EXCEPT ![t] = 0]
      /\ UNCHANGED <<main, free, all, block, order, size, num1, num2>>
  BY DEF MergeLock, Goto, sorting
<1>2. /\ main = "merge" /\ Phases' /\ SortPhase'
      /\ pc'[t] = "mscan" /\ \A u \in Threads : u # t => pc'[u] = pc[u]
  BY <1>1, MergeFrame
<1>3. cursor' \in [Threads -> 0 .. Granul]
  BY <1>1, Basics DEF IInv, TypeOK
<1>4. TypeOK'
  BY <1>1, <1>3 DEF IInv, TypeOK
<1>5. MutexOwned'
  BY <1>1, <1>2, Basics DEF IInv, MutexOwned
<1>6. Pairs'
  BY <1>1, <1>2 DEF IInv, Pairs, TypeOK
<1> QED
  BY <1>1, <1>2, <1>4, <1>5, <1>6, HoldingSame DEF IInv

LEMMA MergeUnlockStep ==
  ASSUME IInv, NEW t \in Threads, MergeUnlock(t)
  PROVE  IInv'
<1>1. PICK p \in {"out", "copy"} :
        /\ pc[t] = "mscan" /\ pc' = [pc EXCEPT ![t] = p] /\ mutex' = Nobody
        /\ p = "copy" => num2[t] # Nobody
        /\ UNCHANGED <<main, free, all, block, order, size, cursor, num1, num2>>
  BY DEF MergeUnlock, Goto, sorting, merging
<1>2. /\ main = "merge" /\ Phases' /\ SortPhase'
      /\ pc'[t] = p /\ \A u \in Threads : u # t => pc'[u] = pc[u]
  BY <1>1, MergeFrame
<1>3. TypeOK'
  BY <1>1 DEF IInv, TypeOK
<1>4. MutexOwned'
  BY <1>1, <1>2, Basics DEF IInv, MutexOwned
<1>5. Pairs'
  BY <1>1, <1>2 DEF IInv, Pairs
<1> QED
  BY <1>1, <1>2, <1>3, <1>4, <1>5, HoldingSame DEF IInv

\* A thread that claims a block finds it held by nobody.
LEMMA ClaimStep ==
  ASSUME IInv, NEW t \in Threads, pc[t] = "mscan", main = "merge", main' = main, size' = size,
         NEW i \in Blocks, ~free[i], free' = [free EXCEPT ![i] = TRUE], num2[t] = Nobody,
         \/ num1[t] = Nobody /\ num1' = [num1 EXCEPT ![t] = i] /\ UNCHANGED num2
         \/ num1[t] # Nobody /\ num2' = [num2 EXCEPT ![t] = i] /\ UNCHANGED num1
  PROVE  PairsDisjoint' /\ Partition'
<1>1. i # Nobody /\ num1 \in [Threads -> Blocks \cup {Nobody}]
      /\ num2 \in [Threads -> Blocks \cup {Nobody}] /\ free \in [Blocks -> BOOLEAN]
  BY Basics DEF IInv, TypeOK
<1>2. Held(t)' = Held(t) \cup {i} /\ \A u \in Threads : u # t => Held(u)' = Held(u)
  BY <1>1 DEF Held
<1>3. \A u \in Threads : i \notin Held(u)
  BY DEF IInv, PairsDisjoint
<1>4. free'[i] /\ \A b \in Blocks : b # i => (free'[b] <=> free[b])
  BY <1>1
<1>5. \A u \in Threads : Held(u) \subseteq Blocks
  BY <1>1 DEF Held
<1>6. PairsDisjoint'
  <2>1. \A u \in Threads : num2'[u] # Nobody => num1'[u] # num2'[u]
    <3>1. num1[t] # Nobody => num1[t] # i
      BY <1>3 DEF Held
    <3>2. \A u \in Threads : num2[u] # Nobody => num1[u] # num2[u]
      BY DEF IInv, PairsDisjoint
    <3> QED
      BY <1>1, <3>1, <3>2
  <2>2. \A u \in Threads : \A b \in Held(u)' : free'[b]
    BY <1>2, <1>4, <1>5 DEF IInv, PairsDisjoint
  <2>3. \A u, v \in Threads : u # v => Held(u)' \cap Held(v)' = {}
    <3>1. \A u, v \in Threads : u # v => Held(u) \cap Held(v) = {}
      BY DEF IInv, PairsDisjoint
    <3> QED
      BY <1>2, <1>3, <3>1
  <2> QED
    BY <2>1, <2>2, <2>3 DEF PairsDisjoint
<1>7. Partition'
  <2>1. PICK o \in [Blocks -> Blocks] : Owner(o)
    BY DEF IInv, Partition
  <2>2. \A b \in Blocks : (~free[b] \/ \E u \in Threads : b \in Held(u))
                            <=> (~free'[b] \/ \E u \in Threads : b \in Held(u)')
    <3> TAKE b \in Blocks
    <3>1. CASE b = i
      BY <1>2, <3>1
    <3>2. CASE b # i
      BY <1>2, <1>4, <3>2
    <3> QED
      BY <3>1, <3>2
  <2>3. Owner(o)'
    BY <2>1, <2>2 DEF Owner
  <2> QED
    BY <2>3 DEF Partition
<1> QED
  BY <1>6, <1>7

LEMMA MergeScanStep ==
  ASSUME IInv, NEW t \in Threads, MergeScan(t)
  PROVE  IInv'
<1> DEFINE i == cursor[t]
<1>1. /\ pc[t] = "mscan" /\ i < Granul /\ num2[t] = Nobody
      /\ cursor' = [cursor EXCEPT ![t] = i + 1]
      /\ UNCHANGED <<main, pc, mutex, all, block, order, size>>
      /\ \/ UNCHANGED <<free, num1, num2>>
         \/ /\ ~free[i] /\ free' = [free EXCEPT ![i] = TRUE]
            /\ \/ num1[t] = Nobody /\ num1' = [num1 EXCEPT ![t] = i] /\ UNCHANGED num2
               \/ num1[t] # Nobody /\ num2' = [num2 EXCEPT ![t] = i] /\ UNCHANGED num1
  BY DEF MergeScan, Claim, sorting
<1>2. i \in Nat /\ i \in Blocks /\ i + 1 \in 0 .. Granul /\ Granul \in Nat
  BY <1>1, Basics DEF IInv, TypeOK, Blocks
<1>3. main = "merge"
  BY <1>1 DEF IInv, TypeOK, Phases, AllOut
<1>4. cursor \in [Threads -> 0 .. Granul] /\ cursor' \in [Threads -> 0 .. Granul]
  BY <1>1, <1>2 DEF IInv, TypeOK
<1>5. TypeOK'
  <2>1. /\ free' \in [Blocks -> BOOLEAN]
        /\ num1' \in [Threads -> Blocks \cup {Nobody}] /\ num2' \in [Threads -> Blocks \cup {Nobody}]
    BY <1>1, <1>2 DEF IInv, TypeOK
  <2> QED
    BY <1>1, <1>4, <2>1 DEF IInv, TypeOK
<1>6. Phases' /\ SortPhase' /\ MutexOwned'
  BY <1>1, <1>3 DEF IInv, Phases, SortPhase, MutexOwned
<1>7. Pairs'
  <2>1. cursor'[t] = i + 1 /\ \A u \in Threads : u # t => cursor'[u] = cursor[u]
    BY <1>1, <1>4
  <2>2. num1[t] # Nobody => num1[t] < i /\ num1[t] \in Nat
    BY <1>1, Basics DEF IInv, Pairs, TypeOK, Blocks
  <2>3. i # Nobody
    BY <1>2, Basics
  <2>4. /\ \A u \in Threads : u # t => num1'[u] = num1[u] /\ num2'[u] = num2[u]
        /\ \/ num1'[t] = num1[t] /\ num2'[t] = num2[t]
           \/ num1'[t] = i /\ num2'[t] = Nobody
           \/ num1[t] # Nobody /\ num1'[t] = num1[t] /\ num2'[t] = i
    BY <1>1 DEF IInv, TypeOK
  <2>5. num1'[t] # Nobody => num1'[t] < i + 1
    BY <1>2, <2>2, <2>4
  <2>6. num2'[t] # Nobody => num1'[t] # Nobody /\ num1'[t] < num2'[t]
    BY <1>1, <2>2, <2>4
  <2> HIDE DEF i
  <2> QED
    BY <1>1, <2>1, <2>4, <2>5, <2>6 DEF IInv, Pairs
<1>8. PairsDisjoint' /\ Partition'
  <2> HIDE DEF i
  <2>1. CASE UNCHANGED <<free, num1, num2>>
    BY <1>1, <2>1, HoldingSame
  <2>2. CASE ~UNCHANGED <<free, num1, num2>>
    BY <1>1, <1>2, <1>3, <2>2, ClaimStep
  <2> QED
    BY <2>1, <2>2
<1> QED
  BY <1>5, <1>6, <1>7, <1>8 DEF IInv

\* The blocks of a pair are still whole and their shares are disjoint.
LEMMA PairFacts ==
  ASSUME IInv, NEW t \in Threads, pc[t] \in {"copy", "publish"}
  PROVE  /\ main = "merge" /\ num1[t] \in Blocks /\ num2[t] \in Blocks /\ num1[t] < num2[t]
         /\ \A o : Owner(o) => o[num1[t]] = num1[t] /\ o[num2[t]] = num2[t]
<1>1. main = "merge"
  BY DEF IInv, TypeOK, Phases, AllOut
<1>2. num1[t] \in Blocks /\ num2[t] \in Blocks /\ num1[t] < num2[t]
  BY DEF IInv, Pairs, TypeOK
<1>3. num1[t] \in Held(t) /\ num2[t] \in Held(t)
  BY <1>2, Basics DEF Held
<1> QED
  BY <1>1, <1>2, <1>3 DEF Owner

LEMMA MergeCopyStep ==
  ASSUME IInv, NEW t \in Threads, MergeCopy(t)
  PROVE  IInv'
<1>1. /\ pc[t] = "copy" /\ pc' = [pc EXCEPT ![t] = "publish"]
      /\ UNCHANGED <<main, mutex, free, all, block, order, size, cursor, num1, num2>>
  BY DEF MergeCopy, Goto, sorting, merging
<1>2. /\ main = "merge" /\ Phases' /\ SortPhase'
      /\ pc'[t] = "publish" /\ \A u \in Threads : u # t => pc'[u] = pc[u]
  BY <1>1, MergeFrame
<1>3. TypeOK'
  BY <1>1 DEF IInv, TypeOK
<1>4. MutexOwned'
  BY <1>1, <1>2 DEF IInv, MutexOwned
<1>5. Pairs'
  BY <1>1, <1>2 DEF IInv, Pairs
<1> QED
  BY <1>1, <1>2, <1>3, <1>4, <1>5, HoldingSame DEF IInv

LEMMA MergePublishStep ==
  ASSUME IInv, NEW t \in Threads, MergePublish(t)
  PROVE  IInv'
<1>1. PICK p \in {"out", "mlock"} :
        /\ pc[t] = "publish" /\ pc' = [pc EXCEPT ![t] = p]
        /\ size' = [size EXCEPT ![num1[t]] = size[num1[t]] + size[num2[t]]]
        /\ free' = [free EXCEPT ![num1[t]] = FALSE]
        /\ num1' = [num1 EXCEPT ![t] = Nobody] /\ num2' = [num2 EXCEPT ![t] = Nobody]
        /\ UNCHANGED <<main, mutex, all, block, order, cursor>>
  BY DEF MergePublish, GrownSize, HandBack, Goto, sorting
<1>2. /\ main = "merge" /\ main' = "merge" /\ Phases' /\ SortPhase'
      /\ pc'[t] = p /\ \A u \in Threads : u # t => pc'[u] = pc[u]
  BY <1>1, MergeFrame
<1>3. PICK x, y : x = num1[t] /\ y = num2[t]
  OBVIOUS
<1>4. x \in Blocks /\ y \in Blocks /\ x < y /\ x # y /\ x \in Held(t) /\ y \in Held(t)
  <2>1. x \in Blocks /\ y \in Blocks /\ x < y
    BY <1>1, <1>3, PairFacts
  <2>2. x # y
    BY <2>1, Basics DEF Blocks
  <2> QED
    BY <1>3, <2>1, <2>2, Basics DEF Held
<1>5. PICK o \in [Blocks -> Blocks] : Owner(o)
  BY DEF IInv, Partition
<1>6. o[x] = x /\ o[y] = y /\ \A a \in Blocks : o[a] <= a
  BY <1>1, <1>3, <1>5, PairFacts DEF Owner
<1>7. PICK q \in [Blocks -> Blocks] : q = Absorb(o, x, y)
  BY <1>4, <1>6, ShareAbsorb
<1>8. /\ \A a \in Blocks : q[a] <= a
      /\ Cardinality(Share(q, x)) = Cardinality(Share(o, x)) + Cardinality(Share(o, y))
      /\ \A b \in Blocks \ {x, y} : Share(q, b) = Share(o, b)
  BY <1>4, <1>6, <1>7, ShareAbsorb
<1>9. \A a \in Blocks : q[a] = IF o[a] = y THEN x ELSE o[a]
  BY <1>7 DEF Absorb
<1>10. q[x] = x /\ q[y] = x /\ \A b \in Blocks \ {x, y} : q[b] = b <=> o[b] = b
  BY <1>4, <1>6, <1>9
<1>11. size'[x] = blockSize * Cardinality(Share(q, x)) /\ size'[x] \in 1 .. memsize
       /\ \A b \in Blocks \ {x} : size'[b] = size[b]
  <2>1. size'[x] = size[x] + size[y] /\ \A b \in Blocks \ {x} : size'[b] = size[b]
    BY <1>1, <1>3, <1>4 DEF IInv, TypeOK
  <2>2. /\ size[x] = blockSize * Cardinality(Share(o, x))
        /\ size[y] = blockSize * Cardinality(Share(o, y))
    BY <1>4, <1>5, <1>6 DEF Owner
  <2>3. Cardinality(Share(o, x)) \in Nat /\ Cardinality(Share(o, y)) \in Nat /\ blockSize \in Nat
    BY <1>4, <1>6, ShareBound, BlockFacts, FS_CardinalityType
  <2>4. \A k, m, n \in Nat : k * (m + n) = k * m + k * n
    OBVIOUS
  <2>5. blockSize * Cardinality(Share(q, x)) = size[x] + size[y]
    BY <1>8, <2>2, <2>3, <2>4
  <2>6. blockSize * Cardinality(Share(q, x)) \in 1 .. memsize
    BY <1>4, <1>8, <1>10, ShareBound
  <2> QED
    BY <2>1, <2>5, <2>6
<1>12. TypeOK'
  <2>1. size' \in [Blocks -> 1 .. memsize]
    BY <1>1, <1>3, <1>4, <1>11 DEF IInv, TypeOK
  <2>2. /\ free' \in [Blocks -> BOOLEAN]
        /\ num1' \in [Threads -> Blocks \cup {Nobody}] /\ num2' \in [Threads -> Blocks \cup {Nobody}]
    BY <1>1 DEF IInv, TypeOK
  <2> QED
    BY <1>1, <2>1, <2>2 DEF IInv, TypeOK
<1>13. MutexOwned'
  BY <1>1, <1>2 DEF IInv, MutexOwned
<1>14. /\ num1'[t] = Nobody /\ num2'[t] = Nobody
       /\ \A u \in Threads : u # t => num1'[u] = num1[u] /\ num2'[u] = num2[u]
  BY <1>1 DEF IInv, TypeOK
<1>15. Pairs'
  BY <1>1, <1>2, <1>14 DEF IInv, Pairs
<1>16. Held(t)' = {} /\ \A u \in Threads : u # t => Held(u)' = Held(u)
  BY <1>14 DEF Held
<1>17. ~free'[x] /\ \A b \in Blocks : b # x => (free'[b] <=> free[b])
  BY <1>1, <1>3, <1>4 DEF IInv, TypeOK
<1>18. \A u \in Threads : u # t => x \notin Held(u) /\ y \notin Held(u)
  BY <1>4 DEF IInv, PairsDisjoint
<1>19. PairsDisjoint'
  <2>1. \A u \in Threads : Held(u) \subseteq Blocks
    BY DEF Held, IInv, TypeOK
  <2> QED
    BY <1>14, <1>16, <1>17, <1>18, <2>1 DEF IInv, PairsDisjoint
<1>20. Partition'
  <2>1. \A b \in Blocks : q[b] = b => size'[b] = blockSize * Cardinality(Share(q, b))
    BY <1>4, <1>5, <1>8, <1>10, <1>11 DEF Owner
  <2>2. \A a \in Blocks : q[q[a]] = q[a]
    BY <1>4, <1>5, <1>9, <1>10 DEF Owner
  <2>3. \A b \in Blocks : q[b] = b <=> (~free'[b] \/ \E u \in Threads : b \in Held(u)')
    <3> TAKE b \in Blocks
    <3>1. CASE b = x
      BY <1>10, <1>17, <3>1
    <3>2. CASE b = y
      BY <1>4, <1>10, <1>16, <1>17, <1>18, <3>2 DEF IInv, PairsDisjoint
    <3>3. CASE b # x /\ b # y
      <4>1. b \in Held(t) => b = x \/ b = y
        BY <1>3 DEF Held
      <4>2. (\E u \in Threads : b \in Held(u)') <=> (\E u \in Threads : b \in Held(u))
        BY <1>16, <3>3, <4>1
      <4>3. o[b] = b <=> (~free[b] \/ \E u \in Threads : b \in Held(u))
        BY <1>2, <1>5 DEF Owner
      <4> QED
        BY <1>10, <1>17, <3>3, <4>2, <4>3
    <3> QED
      BY <3>1, <3>2, <3>3
  <2>4. Owner(q)'
    BY <1>2, <1>8, <2>1, <2>2, <2>3 DEF Owner
  <2> QED
    BY <2>4 DEF Partition
<1> QED
  BY <1>2, <1>12, <1>13, <1>15, <1>19, <1>20 DEF IInv

-----------------------------------------------------------------------------
(* The invariant and the main thread *)

LEMMA JoinStep ==
  ASSUME IInv, JoinSorters \/ JoinMergers
  PROVE  IInv'
<1>1. /\ AllOut
      /\ \/ main = "sort" /\ main' = "sorted"
         \/ main = "merge" /\ main' = "done"
      /\ UNCHANGED <<pc, mutex, free, all, block, order, size, cursor, num1, num2>>
  BY DEF JoinSorters, JoinMergers, sorting, merging
<1>2. TypeOK' /\ MutexOwned' /\ Pairs'
  BY <1>1 DEF IInv, TypeOK, MutexOwned, Pairs
<1>3. Phases'
  BY <1>1 DEF IInv, Phases, AllOut
<1>4. SortPhase'
  BY <1>1 DEF IInv, SortPhase, OwnBlocks, InputClaimed, AllRaised, Sorted, SomeoneStays, FreeBlocks
<1>5. \A t : Held(t)' = Held(t)
  BY <1>1 DEF Held
<1>6. PairsDisjoint'
  BY <1>1, <1>5 DEF IInv, PairsDisjoint
<1>7. Partition'
  <2>1. PICK o \in [Blocks -> Blocks] : Owner(o)
    BY DEF IInv, Partition
  <2>2. Owner(o)'
    BY <1>1, <1>5, <2>1 DEF Owner
  <2> QED
    BY <2>2 DEF Partition
<1> QED
  BY <1>2, <1>3, <1>4, <1>6, <1>7 DEF IInv

\* Every block is taken when the merge begins, so every block can be found.
LEMMA CreateMergersStep ==
  ASSUME IInv, CreateMergers
  PROVE  IInv'
<1>1. /\ main = "sorted" /\ main' = "merge" /\ pc' = [t \in Threads |-> "mlock"]
      /\ block' = [t \in Threads |-> Nobody] /\ order' = [b \in Blocks |-> "input"]
      /\ UNCHANGED <<mutex, free, all, size, cursor, num1, num2>>
  BY DEF CreateMergers, merging
<1>2. AllOut /\ \A t \in Threads : num1[t] = Nobody /\ num2[t] = Nobody
  BY <1>1 DEF IInv, Phases
<1>3. TypeOK'
  BY <1>1 DEF IInv, TypeOK
<1>4. Phases' /\ SortPhase'
  BY <1>1 DEF Phases, SortPhase
<1>5. MutexOwned' /\ Pairs'
  BY <1>1, <1>2 DEF IInv, MutexOwned, Pairs, AllOut
<1>6. PairsDisjoint'
  BY <1>1, <1>2 DEF PairsDisjoint, Held
<1>7. \A b \in Blocks : ~free[b]
  BY <1>1, <1>2 DEF IInv, SortPhase, SomeoneStays, FreeBlocks, AllOut
<1>8. PICK o \in [Blocks -> Blocks] : Owner(o)
  BY DEF IInv, Partition
<1>9. Owner(o)'
  BY <1>1, <1>7, <1>8 DEF Owner
<1> QED
  BY <1>3, <1>4, <1>5, <1>6, <1>9 DEF IInv, Partition

LEMMA InvStep == IInv /\ [Next]_vars => IInv'
<1> SUFFICES ASSUME IInv, [Next]_vars PROVE IInv'
  OBVIOUS
<1>1. CASE UNCHANGED vars
  <2>1. UNCHANGED <<main, pc, mutex, free, all, block, order, size, cursor, num1, num2>>
    BY <1>1 DEF vars, sorting, merging
  <2>2. TypeOK' /\ MutexOwned' /\ Pairs' /\ Phases'
    BY <2>1 DEF IInv, TypeOK, MutexOwned, Pairs, Phases, AllOut
  <2>3. SortPhase'
    BY <2>1 DEF IInv, SortPhase, OwnBlocks, InputClaimed, AllRaised, Sorted, SomeoneStays, FreeBlocks
  <2> QED
    BY <2>1, <2>2, <2>3, HoldingSame DEF IInv
<1>2. CASE \E t \in Threads : SortThread(t)
  BY <1>2, SortStartStep, QSortStep, SortLockStep, SortScanStep, SortCheckStep DEF SortThread
<1>3. CASE \E t \in Threads : MergeBlocks(t)
  BY <1>3, MergeLockStep, MergeScanStep, MergeUnlockStep, MergeCopyStep, MergePublishStep
  DEF MergeBlocks
<1> QED
  BY <1>1, <1>2, <1>3, JoinStep, CreateMergersStep DEF Next, SortIndex, Finished

LEMMA Invariance == Spec => []IInv
BY InvInit, InvStep, PTL DEF Spec

-----------------------------------------------------------------------------
(* Theorems *)

\* Every variable keeps its type: no search leaves the array of blocks, and no grown
\* block is larger than the chunk.
THEOREM TypeCorrect == Spec => []TypeOK
<1>1. IInv => TypeOK
  BY DEF IInv
<1> QED
  BY <1>1, Invariance, PTL

\* However the threads share the flag "all", no block is left that nobody took when
\* the sorters are joined.
THEOREM EveryBlockClaimed == Spec => []AllClaimed
<1>1. IInv => AllClaimed
  BY DEF IInv, Phases, SortPhase, SomeoneStays, FreeBlocks, AllOut, AllClaimed
<1> QED
  BY <1>1, Invariance, PTL

\* mergeBlocks threads never hold the same block, nor can one be found that is held.
THEOREM PairsStayDisjoint == Spec => []PairsDisjoint
<1>1. IInv => PairsDisjoint
  BY DEF IInv
<1> QED
  BY <1>1, Invariance, PTL

\* A set of blocks that threads point at, not counting one of them, is smaller than
\* the number of threads.
LEMMA PointedAt ==
  ASSUME IInv, NEW D, NEW w \in Threads, \A b \in D : \E t \in Threads \ {w} : block[t] = b
  PROVE  Cardinality(D) < NThreads
<1> DEFINE U == Threads \ {w}
           E == {block[t] : t \in U}
           f == [t \in U |-> block[t]]
<1>1. IsFiniteSet(Threads) /\ Cardinality(Threads) = NThreads /\ NThreads \in Nat \ {0}
  BY Basics, FS_Interval DEF Threads
<1>2. IsFiniteSet(U) /\ Cardinality(U) = NThreads - 1
  BY <1>1, FS_RemoveElement
<1>3. f \in Surjection(U, E)
  BY DEF Surjection
<1>4. IsFiniteSet(E) /\ Cardinality(E) <= Cardinality(U)
  BY <1>2, <1>3, FS_Surjection
<1>5. D \subseteq E
  OBVIOUS
<1>6. IsFiniteSet(D) /\ Cardinality(D) <= Cardinality(E)
  BY <1>4, <1>5, FS_Subset
<1>7. Cardinality(D) \in Nat /\ Cardinality(E) \in Nat
  BY <1>4, <1>6, FS_CardinalityType
<1> QED
  BY <1>1, <1>2, <1>4, <1>6, <1>7

\* Of the blocks that nobody sorted each has been dropped by a thread of its own,
\* one thread has dropped none, and the blocks with a thread's number are sorted.
THEOREM FewBlocksDropped == Spec => []FewDropped
<1>1. IInv => FewDropped
  <2> SUFFICES ASSUME IInv, main = "sorted"
               PROVE  LET D == {b \in Blocks : order[b] = "input"}
                      IN  /\ Cardinality(D) < NThreads
                          /\ D \cap Threads = {}
                          /\ \A b \in D : \E t \in Threads : block[t] = b
    BY DEF FewDropped
  <2> DEFINE D == {b \in Blocks : order[b] = "input"}
  <2>1. /\ OwnBlocks /\ InputClaimed /\ SomeoneStays
        /\ \A t \in Threads : pc[t] = "out"
    BY DEF IInv, SortPhase, Phases, AllOut
  <2>2. \A b \in Blocks : ~free[b]
    BY <2>1, Basics DEF SomeoneStays, FreeBlocks
  <2>3. D \cap Threads = {}
    BY <2>1 DEF OwnBlocks
  <2>4. \A b \in D : \E t \in Threads : block[t] = b
    BY <2>1, <2>2 DEF InputClaimed
  <2>5. PICK w \in Threads : order[block[w]] # "input"
    BY <2>1 DEF SomeoneStays
  <2>6. \A b \in D : \E t \in Threads \ {w} : block[t] = b
    BY <2>4, <2>5
  <2>7. Cardinality(D) < NThreads
    BY <2>6, PointedAt
  <2> QED
    BY <2>3, <2>4, <2>7
<1> QED
  BY <1>1, Invariance, PTL

-----------------------------------------------------------------------------
(* The ranges of a memcpy *)

\* The start of a block is rounded down, never up.
LEMMA StartBound ==
  ASSUME NEW b \in Blocks
  PROVE  /\ b \in Nat /\ b * blockSize \in Nat
         /\ Start(b) \in Nat /\ Start(b) <= b * blockSize
<1>1. b \in Nat /\ b * blockSize \in Nat
  BY Basics, BlockFacts DEF Blocks
<1>2. PICK q \in Nat : q = (b * blockSize) \div RecordUnits /\ RecordUnits * q <= b * blockSize
  BY <1>1, Basics, Floor
<1>3. Start(b) = RecordUnits * q /\ RecordUnits * q \in Nat
  BY <1>2, Basics DEF Start
<1> QED
  BY <1>1, <1>2, <1>3

\* In every interleaving of mergeBlocks no memcpy reads or writes past the end of the
\* last block: the pair's sizes are those of all the blocks it has absorbed, and these
\* all lie behind the first of the pair.
THEOREM CopiesStayInside == Spec => []CopiesInsideBlocks
<1>1. IInv => CopiesInsideBlocks
  <2> SUFFICES ASSUME IInv, NEW t \in Threads, pc[t] = "copy"
               PROVE  /\ CopyTarget(t)[2] <= Granul * blockSize
                      /\ CopySource(t)[2] <= Granul * blockSize
    BY DEF CopiesInsideBlocks
  <2>1. PICK o \in [Blocks -> Blocks] : Owner(o)
    BY DEF IInv, Partition
  <2>2. PICK x, y : x = num1[t] /\ y = num2[t]
    OBVIOUS
  <2>3. /\ x \in Blocks /\ y \in Blocks /\ x < y /\ o[x] = x /\ o[y] = y
        /\ \A a \in Blocks : o[a] <= a
    BY <2>1, <2>2, PairFacts DEF Owner
  <2>4. PICK q \in [Blocks -> Blocks] : q = Absorb(o, x, y)
    BY <2>3, ShareAbsorb
  <2>5. /\ \A a \in Blocks : q[a] <= a
        /\ Cardinality(Share(q, x)) = Cardinality(Share(o, x)) + Cardinality(Share(o, y))
    BY <2>3, <2>4, ShareAbsorb
  <2>6. q[x] = x
    BY <2>3, <2>4, Basics DEF Absorb, Blocks
  <2>7. PICK m \in Nat, n \in Nat : m = Cardinality(Share(o, x)) /\ n = Cardinality(Share(o, y))
    BY <2>3, ShareBound, FS_CardinalityType
  <2>8. PICK z \in Nat : z = blockSize /\ size[x] = z * m /\ size[y] = z * n
    BY <2>1, <2>3, <2>7, BlockFacts DEF Owner
  <2>9. x * z + z * (m + n) <= Granul * z /\ y * z + z * n <= Granul * z
    BY <2>3, <2>5, <2>6, <2>7, <2>8, ShareBound
  <2>10. z * (m + n) = z * m + z * n /\ z * m \in Nat /\ z * n \in Nat
    BY <2>7, <2>8
  <2>11. /\ Start(x) \in Nat /\ Start(x) <= x * z /\ x * z \in Nat
         /\ Start(y) \in Nat /\ Start(y) <= y * z /\ y * z \in Nat
    BY <2>3, <2>8, StartBound
  <2>12. Granul * z \in Nat
    BY <2>8, BlockFacts
  <2>13. CopyTarget(t)[2] = Start(x) + size[x] + size[y] /\ CopySource(t)[2] = Start(y) + size[y]
    BY <2>2 DEF CopyTarget, CopySource
  <2> QED
    BY <2>8, <2>9, <2>10, <2>11, <2>12, <2>13
<1> QED
  BY <1>1, Invariance, PTL

-----------------------------------------------------------------------------
(* The sum of the sizes *)

\* What MapThenSumSet of FiniteSetsExt says of the sizes: a sum that is taken block by
\* block, each time the block that CHOOSE picks.
First(s) == CHOOSE x \in s : TRUE
SumStep(h, L) ==
  h = [s \in SUBSET L |-> IF s = {} THEN 0 ELSE size[First(s)] + h[s \ {First(s)}]]

LEMMA SumUnfolded ==
  ASSUME NEW L
  PROVE  MapThenSumSet(LAMBDA b : size[b], L) = (CHOOSE h : SumStep(h, L))[L]
BY DEF MapThenSumSet, MapThenFoldSet, SumStep, First

\* A set of numbers that is not empty has a least one.
LEMMA LeastNumber ==
  ASSUME NEW N \in SUBSET Nat, N # {}
  PROVE  \E n \in N : \A m \in N : n <= m
<1> DEFINE R == OpToRel(<, Nat)
<1>1. IsWellFoundedOn(R, Nat)
  BY NatLessThanWellFounded, Zenon
<1>2. \A m, n \in Nat : <<m, n>> \in R <=> m < n
  BY DEF OpToRel
<1> HIDE DEF R
<1>3. PICK n \in N : \A m \in N : <<m, n>> \notin R
  BY <1>1, WFMin
<1>4. \A m \in N : m \in Nat /\ n \in Nat /\ ~ (m < n)
  BY <1>2, <1>3
<1> QED
  BY <1>4

\* Two functions that satisfy the equation of the sum agree.
LEMMA SumUnique ==
  ASSUME NEW L, IsFiniteSet(L), NEW g, NEW h, SumStep(g, L), SumStep(h, L)
  PROVE  g[L] = h[L]
<1> DEFINE N == {n \in Nat : \E s \in SUBSET L : g[s] # h[s] /\ Cardinality(s) = n}
<1>1. SUFFICES ASSUME N # {} PROVE FALSE
  BY FS_CardinalityType
<1>2. PICK n \in N : \A m \in N : n <= m
  BY <1>1, LeastNumber
<1>3. PICK s \in SUBSET L : g[s] # h[s] /\ Cardinality(s) = n
  BY <1>2
<1>4. s # {}
  BY <1>3 DEF SumStep
<1>5. First(s) \in s
  BY <1>4 DEF First
<1>6. /\ g[s] = size[First(s)] + g[s \ {First(s)}]
      /\ h[s] = size[First(s)] + h[s \ {First(s)}]
  BY <1>4 DEF SumStep
<1>7. PICK r \in SUBSET L : r = s \ {First(s)}
  OBVIOUS
<1>8. IsFiniteSet(s) /\ Cardinality(s) \in Nat
  BY FS_Subset, FS_CardinalityType
<1>9. Cardinality(r) \in Nat /\ Cardinality(r) < n
  <2>1. IsFiniteSet(r) /\ Cardinality(r) = Cardinality(s) - 1
    BY <1>5, <1>7, <1>8, FS_RemoveElement
  <2> QED
    BY <1>3, <1>8, <2>1, FS_CardinalityType
<1>10. g[r] # h[r]
  BY <1>3, <1>6, <1>7
<1>11. Cardinality(r) \in N
  BY <1>9, <1>10
<1> QED
  BY <1>2, <1>9, <1>11

\* A function that satisfies the equation is the sum.
LEMMA SumIs ==
  ASSUME NEW L, IsFiniteSet(L), NEW h, SumStep(h, L)
  PROVE  MapThenSumSet(LAMBDA b : size[b], L) = h[L]
<1> DEFINE g == CHOOSE g : SumStep(g, L)
<1>1. SumStep(g, L)
  OBVIOUS
<1>2. g[L] = h[L]
  <2> HIDE DEF g
  <2> QED
    BY <1>1, SumUnique
<1> QED
  BY <1>2, SumUnfolded

\* The blocks whose records are in the blocks of s.
Inside(o, s) == {a \in Blocks : o[a] \in s}

\* The sum of the sizes of blocks that are in use is that of the blocks inside them.
LEMMA SumOfShares ==
  ASSUME IInv, NEW o, Owner(o), NEW L \in SUBSET Blocks, \A b \in L : o[b] = b
  PROVE  MapThenSumSet(LAMBDA b : size[b], L) = blockSize * Cardinality(Inside(o, L))
<1> DEFINE h == [s \in SUBSET L |-> blockSize * Cardinality(Inside(o, s))]
<1>1. IsFiniteSet(Blocks) /\ IsFiniteSet(L)
  <2>1. IsFiniteSet(Blocks)
    BY FS_Interval, Basics DEF Blocks
  <2> QED
    BY <2>1, FS_Subset
<1>2. \A s : IsFiniteSet(Inside(o, s)) /\ Cardinality(Inside(o, s)) \in Nat
  <2> TAKE s
  <2>1. Inside(o, s) \in SUBSET Blocks
    BY DEF Inside
  <2> QED
    BY <1>1, <2>1, FS_Subset, FS_CardinalityType
<1>3. h[{}] = 0
  <2>1. Inside(o, {}) = {}
    BY DEF Inside
  <2> QED
    BY <2>1, FS_EmptySet, BlockFacts
<1>4. ASSUME NEW s \in SUBSET L, NEW x \in s
      PROVE  h[s] = size[x] + h[s \ {x}]
  <2>1. Inside(o, s) = Share(o, x) \cup Inside(o, s \ {x}) /\ Share(o, x) \cap Inside(o, s \ {x}) = {}
    BY <1>4 DEF Inside, Share
  <2>2. Share(o, x) = Inside(o, {x})
    BY DEF Inside, Share
  <2>3. PICK A, B : A = Share(o, x) /\ B = Inside(o, s \ {x})
    OBVIOUS
  <2>4. IsFiniteSet(A) /\ IsFiniteSet(B) /\ Cardinality(A) \in Nat /\ Cardinality(B) \in Nat
    BY <1>2, <2>2, <2>3
  <2>5. Cardinality(A \cup B) = Cardinality(A) + Cardinality(B) - Cardinality(A \cap B)
    BY <2>4, FS_Union
  <2>6. Cardinality(Inside(o, s)) = Cardinality(A) + Cardinality(B)
    <3>1. A \cup B = Inside(o, s) /\ A \cap B = {}
      BY <2>1, <2>3
    <3>2. Cardinality(A \cap B) = 0
      BY <3>1, FS_EmptySet
    <3>3. PICK c : c = Cardinality(A \cup B)
      OBVIOUS
    <3>4. c = Cardinality(A) + Cardinality(B)
      BY <2>4, <2>5, <3>2, <3>3
    <3>5. c = Cardinality(Inside(o, s))
      BY <3>1, <3>3
    <3> QED
      BY <3>4, <3>5
  <2>7. size[x] = blockSize * Cardinality(A)
    BY <1>4, <2>3 DEF Owner
  <2>8. h[s] = blockSize * Cardinality(Inside(o, s)) /\ h[s \ {x}] = blockSize * Cardinality(B)
    BY <2>3
  <2>9. PICK i \in Nat, j \in Nat : i = Cardinality(A) /\ j = Cardinality(B)
    BY <2>4
  <2>10. blockSize * (i + j) = blockSize * i + blockSize * j
    BY <2>9, BlockFacts
  <2> QED
    BY <2>6, <2>7, <2>8, <2>9, <2>10
<1>5. SumStep(h, L)
  <2>1. ASSUME NEW s \in SUBSET L
        PROVE  h[s] = IF s = {} THEN 0 ELSE size[First(s)] + h[s \ {First(s)}]
    <3>1. CASE s = {}
      BY <1>3, <3>1
    <3>2. CASE s # {}
      <4>1. First(s) \in s
        BY <3>2 DEF First
      <4> QED
        BY <1>4, <3>2, <4>1
    <3> QED
      BY <3>1, <3>2
  <2>2. h = [s \in SUBSET L |-> h[s]]
    OBVIOUS
  <2> HIDE DEF h
  <2> QED
    BY <2>1, <2>2 DEF SumStep
<1>6. h[L] = blockSize * Cardinality(Inside(o, L))
  OBVIOUS
<1> HIDE DEF h
<1> QED
  BY <1>1, <1>5, <1>6, SumIs

\* The sizes of the blocks in use add up to the chunk at every moment of the merge: what
\* a thread has taken and not yet handed back is counted once.
THEOREM SizesAlwaysAddUp == Spec => []SizesAddUp
<1>1. IInv => SizesAddUp
  <2> DEFINE Absorbed == {b \in Blocks : free[b] /\ \A t \in Threads : b \notin Held(t)}
             L == Blocks \ Absorbed
  <2> SUFFICES ASSUME IInv, main \in {"merge", "done"}
               PROVE  MapThenSumSet(LAMBDA b : size[b], L) = Granul * blockSize
    BY DEF SizesAddUp
  <2>1. PICK o \in [Blocks -> Blocks] : Owner(o)
    BY DEF IInv, Partition
  <2>2. \A b \in Blocks : b \in L <=> o[b] = b
    BY <2>1 DEF Owner
  <2>3. L \in SUBSET Blocks /\ \A b \in L : o[b] = b
    BY <2>2
  <2>4. Inside(o, L) = Blocks
    BY <2>1, <2>2 DEF Inside, Owner
  <2>5. Cardinality(Blocks) = Granul
    BY FS_Interval, Basics DEF Blocks
  <2> HIDE DEF L
  <2>6. MapThenSumSet(LAMBDA b : size[b], L) = blockSize * Cardinality(Inside(o, L))
    BY <2>1, <2>3, SumOfShares
  <2>7. blockSize * Granul = Granul * blockSize
    BY Basics, BlockFacts
  <2> QED
    BY <2>4, <2>5, <2>6, <2>7
<1> QED
  BY <1>1, Invariance, PTL
=============================================================================
