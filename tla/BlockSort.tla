----------------------------- MODULE BlockSort -----------------------------
(***************************************************************************)
(* The index sorter of lab6/sortIndex.c (lab6_1/sortIndex.c is the same    *)
(* program with another MAX_THREADS).  A mapped chunk of the index file is *)
(* cut into "granul" blocks.  In the first phase the threads sort one      *)
(* block after the other; in the second phase they glue blocks together    *)
(* until one block spans the chunk.  The struct field "free" says in the   *)
(* first phase that nobody has taken the block yet; in the second phase    *)
(* the same field says the opposite, that a thread holds the block or has  *)
(* absorbed it.                                                            *)
(*                                                                         *)
(* Memory is counted in units: a record is RecordUnits of them, the header *)
(* of the file half a record (16 and 8 bytes in the code).  Places are     *)
(* counted from "data", the first unit behind the header.  What qsort does *)
(* to a block is one flag per block; of a memcpy there is the range it     *)
(* reads and the range it overwrites, not the bytes.                       *)
(***************************************************************************)
EXTENDS Integers, FiniteSets, FiniteSetsExt

CONSTANTS Granul,          \* number of blocks, argv[2]
          NThreads,        \* argv[3]
          RecordUnits,     \* units in one struct index_s
          RecordsPerBlock, \* whole records that fit a block
          Nobody

SortAssumption ==
    /\ Granul \in {2^n : n \in 0..10}  \* isPowerOfTwo
    /\ NThreads \in 1..Granul
    /\ RecordUnits \in {2 * n : n \in 1..8}
    /\ RecordsPerBlock \in Nat \ {0}
    /\ Nobody \notin 0..Granul - 1
ASSUME SortAssumption

Blocks == 0..Granul - 1
Threads == 0..NThreads - 1

\* checkMemorySize: whole megabytes of records and the 8 bytes of the header.
memsize == Granul * RecordsPerBlock * RecordUnits + RecordUnits \div 2

\* init: an integer division, so part of the header's size may end up in
\* every block and the rest is dropped.
blockSize == memsize \div Granul

\* sortIndex: the start of a block is rounded down to a whole record.
Start(b) == ((b * blockSize) \div RecordUnits) * RecordUnits

VARIABLES main,    \* phase of sortIndex: sort, sorted, merge, done
          pc,      \* place of every worker
          mutex,
          free,    \* blocks[i].free
          size,    \* blocks[i].size
          all,     \* the global flag "no block was free"
          block,   \* local pointer of sortThread
          order,   \* what qsort has done to the block: input, sorted, torn;
                  \* kept until the merge
          cursor,  \* i of the search in mergeBlocks
          num1, num2

sorting == <<all, block, order>>
merging == <<size, cursor, num1, num2>>
vars == <<main, pc, mutex, free, sorting, merging>>

Init ==
    /\ main = "sort"
    /\ pc = [t \in Threads |-> "start"]
    /\ mutex = Nobody
    /\ free = [b \in Blocks |-> TRUE]
    /\ size = [b \in Blocks |-> blockSize]
    /\ all = FALSE
    /\ block = [t \in Threads |-> Nobody]
    /\ order = [b \in Blocks |-> "input"]
    /\ cursor = [t \in Threads |-> 0]
    /\ num1 = [t \in Threads |-> Nobody]
    /\ num2 = [t \in Threads |-> Nobody]

Goto(t, place) == pc' = [pc EXCEPT ![t] = place]

Sorters(b) == {t \in Threads : pc[t] = "sort" /\ block[t] = b}

----------------------------------------------------------------------------
(* sortThread *)

\* A thread takes the block of its own number, without the mutex and without
\* a look at the flag.
SortStart(t) ==
    /\ pc[t] = "start"
    /\ block' = [block EXCEPT ![t] = t]
    /\ free' = [free EXCEPT ![t] = FALSE]
    /\ Goto(t, "sort")
    /\ UNCHANGED <<main, mutex, all, order, merging>>

\* qsort returns.  While another thread sorts the same block the two calls
\* move the same records and what they leave can be anything.
QSort(t) ==
    /\ pc[t] = "sort"
    /\ \E outcome \in IF Sorters(block[t]) = {t} /\ order[block[t]] # "torn"
                      THEN {"sorted"} ELSE {"sorted", "torn"} :
           order' = [order EXCEPT ![block[t]] = outcome]
    /\ Goto(t, "lock")
    /\ UNCHANGED <<main, mutex, free, all, block, merging>>

\* The flag is raised before the search, where other threads already see it.
SortLock(t) ==
    /\ pc[t] = "lock"
    /\ mutex = Nobody
    /\ mutex' = t
    /\ all' = TRUE
    /\ Goto(t, "scan")
    /\ UNCHANGED <<main, free, block, order, merging>>

\* Fault: the search stops one block short.
FreeBlocksShort == {b \in Blocks : free[b] /\ b < Granul - 1}

FreeBlocks == {b \in Blocks : free[b]}

\* Fault: the flag is not lowered when a block was found.
FlagStays == all

FlagFound == FALSE

\* The first free block; flags only fall in this phase, so the search is as
\* good as atomic at its last read.
SortScan(t) ==
    /\ pc[t] = "scan"
    /\ \/ FreeBlocks = {} /\ UNCHANGED <<all, block, free>>
       \/ \E b \in FreeBlocks :
              /\ \A c \in FreeBlocks : b <= c
              /\ all' = FlagFound
              /\ block' = [block EXCEPT ![t] = b]
              /\ free' = [free EXCEPT ![b] = FALSE]
    /\ mutex' = Nobody
    /\ Goto(t, "check")
    /\ UNCHANGED <<main, order, merging>>

\* The flag is read after the mutex was released: it may be another's.
SortCheck(t) ==
    /\ pc[t] = "check"
    /\ Goto(t, IF all THEN "out" ELSE "sort")
    /\ UNCHANGED <<main, mutex, free, sorting, merging>>

----------------------------------------------------------------------------
(* mergeBlocks *)

MergeLock(t) ==
    /\ pc[t] = "mlock"
    /\ mutex = Nobody
    /\ mutex' = t
    /\ cursor' = [cursor EXCEPT ![t] = 0]
    /\ Goto(t, "mscan")
    /\ UNCHANGED <<main, free, sorting, size, num1, num2>>

\* Fault: the claim of the first, or of the second, block is not recorded.
ClaimSecond(t, i) ==
    IF num1[t] = Nobody THEN UNCHANGED free
    ELSE free' = [free EXCEPT ![i] = TRUE]
ClaimFirst(t, i) ==
    IF num1[t] # Nobody THEN UNCHANGED free
    ELSE free' = [free EXCEPT ![i] = TRUE]

Claim(t, i) == free' = [free EXCEPT ![i] = TRUE]

\* One look at one block: other threads hand blocks back without the mutex,
\* so the search is not atomic.
MergeScan(t) ==
    /\ pc[t] = "mscan"
    /\ cursor[t] < Granul
    /\ num2[t] = Nobody
    /\ LET i == cursor[t]
       IN  \/ free[i] /\ UNCHANGED <<free, num1, num2>>
           \/ /\ ~free[i] /\ Claim(t, i)
              /\ \/ /\ num1[t] = Nobody
                    /\ num1' = [num1 EXCEPT ![t] = i] /\ UNCHANGED num2
                 \/ /\ num1[t] # Nobody
                    /\ num2' = [num2 EXCEPT ![t] = i] /\ UNCHANGED num1
    /\ cursor' = [cursor EXCEPT ![t] = @ + 1]
    /\ UNCHANGED <<main, pc, mutex, sorting, size>>

\* Fault: a thread that found nothing searches again instead of leaving.
MergeUnlockRetry(t) ==
    /\ pc[t] = "mscan"
    /\ cursor[t] = Granul \/ num2[t] # Nobody
    /\ mutex' = Nobody
    /\ Goto(t, IF num2[t] = Nobody THEN "mlock" ELSE "copy")
    /\ UNCHANGED <<main, free, sorting, merging>>

\* A thread that found no pair leaves, with the one block it may hold.
MergeUnlock(t) ==
    /\ pc[t] = "mscan"
    /\ cursor[t] = Granul \/ num2[t] # Nobody
    /\ mutex' = Nobody
    /\ Goto(t, IF num2[t] = Nobody THEN "out" ELSE "copy")
    /\ UNCHANGED <<main, free, sorting, merging>>

\* Where the second block is copied to, behind the first and whatever lies there,
\* and where it is copied from: the first unit and the first one past the end.
CopyTarget(t) ==
    LET to == Start(num1[t]) + size[num1[t]] IN <<to, to + size[num2[t]]>>
CopySource(t) == <<Start(num2[t]), Start(num2[t]) + size[num2[t]]>>

\* memcpy from CopySource(t) to CopyTarget(t); the sizes are those of two blocks
\* that only t can change.
MergeCopy(t) ==
    /\ pc[t] = "copy"
    /\ Goto(t, "publish")
    /\ UNCHANGED <<main, mutex, free, sorting, merging>>

\* Fault: the grown size is not written back.
NotGrown(t, both) == size

GrownSize(t, both) == [size EXCEPT ![num1[t]] = both]

\* Fault: the absorbed block can be found again as well.
HandBackBoth(t) == free' = [free EXCEPT ![num1[t]] = FALSE, ![num2[t]] = FALSE]

HandBack(t) == free' = [free EXCEPT ![num1[t]] = FALSE]

\* The grown block is handed back without the mutex; the thread whose block
\* spans the whole chunk is the last.
MergePublish(t) ==
    /\ pc[t] = "publish"
    /\ LET both == size[num1[t]] + size[num2[t]]
       IN  /\ size' = GrownSize(t, both)
           /\ Goto(t, IF both = memsize THEN "out" ELSE "mlock")
    /\ HandBack(t)
    /\ num1' = [num1 EXCEPT ![t] = Nobody]
    /\ num2' = [num2 EXCEPT ![t] = Nobody]
    /\ UNCHANGED <<main, mutex, sorting, cursor>>

----------------------------------------------------------------------------
(* sortIndex *)

AllOut == \A t \in Threads : pc[t] = "out"

JoinSorters ==
    /\ main = "sort" /\ AllOut
    /\ main' = "sorted"
    /\ UNCHANGED <<pc, mutex, free, sorting, merging>>

\* The locals of sortThread are gone, and what qsort did to a block is of no
\* interest once the blocks' records are moved about.
CreateMergers ==
    /\ main = "sorted"
    /\ main' = "merge"
    /\ pc' = [t \in Threads |-> "mlock"]
    /\ block' = [t \in Threads |-> Nobody]
    /\ order' = [b \in Blocks |-> "input"]
    /\ UNCHANGED <<mutex, free, all, merging>>

\* The joins, and then main prints "Success".
JoinMergers ==
    /\ main = "merge" /\ AllOut
    /\ main' = "done"
    /\ UNCHANGED <<pc, mutex, free, sorting, merging>>

Finished == main = "done" /\ UNCHANGED vars

SortThread(t) ==
    SortStart(t) \/ QSort(t) \/ SortLock(t) \/ SortScan(t) \/ SortCheck(t)

MergeBlocks(t) ==
    \/ MergeLock(t) \/ MergeScan(t) \/ MergeUnlock(t)
    \/ MergeCopy(t) \/ MergePublish(t)

SortIndex == JoinSorters \/ CreateMergers \/ JoinMergers

Next ==
    \/ \E t \in Threads : SortThread(t) \/ MergeBlocks(t)
    \/ SortIndex
    \/ Finished

Spec == Init /\ [][Next]_vars

\* A runnable thread is run.  Weak fairness is enough for the mutex too: no
\* thread takes it for ever, each takes it once per block it claims.
Fairness ==
    /\ \A t \in Threads : WF_vars(SortThread(t) \/ MergeBlocks(t))
    /\ WF_vars(SortIndex)

FairSpec == Spec /\ Fairness

----------------------------------------------------------------------------
(* Properties *)

\* Every variable keeps its type (the globals and locals of sortIndex.c).
TypeOK ==
    /\ main \in {"sort", "sorted", "merge", "done"}
    /\ pc \in [Threads -> {"start", "sort", "lock", "scan", "check", "mlock",
                           "mscan", "copy", "publish", "out"}]
    /\ mutex \in Threads \cup {Nobody}
    /\ free \in [Blocks -> BOOLEAN]
    /\ size \in [Blocks -> 1..memsize]
    /\ all \in BOOLEAN
    /\ block \in [Threads -> Blocks \cup {Nobody}]
    /\ order \in [Blocks -> {"input", "sorted", "torn"}]
    /\ cursor \in [Threads -> 0..Granul]
    /\ num1 \in [Threads -> Blocks \cup {Nobody}]
    /\ num2 \in [Threads -> Blocks \cup {Nobody}]

\* When sortThread's threads are joined no block is left that nobody took:
\* the merge, which reads the same flag the other way round, starts with
\* every block available.
AllClaimed == main = "sorted" => \A b \in Blocks : ~free[b]

\* A block that leaves the first phase as it came was dropped by a thread
\* that had claimed it and then read the flag "all" of another thread.  Each
\* thread drops at most one, the last to leave drops none, and the blocks that
\* bear the number of a thread are never dropped.
FewDropped ==
    main = "sorted" =>
        LET Dropped == {b \in Blocks : order[b] = "input"}
        IN  /\ Cardinality(Dropped) < NThreads
            /\ Dropped \cap Threads = {}
            /\ \A b \in Dropped : \E t \in Threads : block[t] = b

\* Two mergeBlocks threads never hold the same block, and no thread can find
\* a block that another holds, although blocks are handed back without the
\* mutex.
Held(t) == {num1[t], num2[t]} \ {Nobody}
PairsDisjoint ==
    /\ \A t \in Threads : num2[t] # Nobody => num1[t] # num2[t]
    /\ \A t \in Threads : \A b \in Held(t) : free[b]
    /\ \A t, u \in Threads : t # u => Held(t) \cap Held(u) = {}

\* No part of the chunk is forgotten or counted twice: the blocks that a
\* thread may still find, and those some thread holds, add up to the whole
\* at every moment of the merge, those included that a thread kept when it
\* left without a pair.
SizesAddUp ==
    main \in {"merge", "done"} =>
        LET Absorbed == {b \in Blocks :
                            free[b] /\ \A t \in Threads : b \notin Held(t)}
        IN  MapThenSumSet(LAMBDA b : size[b], Blocks \ Absorbed)
                = Granul * blockSize

\* Although pairs need not be neighbours, sizes grow and blocks are handed back
\* without the mutex, no memcpy reads or writes past the end of the last block.
\* (The blocks themselves reach past the mapping by a header's size when the
\* division leaves each of them a share of it, so that much past it is written.)
CopiesInsideBlocks ==
    \A t \in Threads : pc[t] = "copy" =>
        /\ CopyTarget(t)[2] <= Granul * blockSize
        /\ CopySource(t)[2] <= Granul * blockSize

\* Both phases end and main reaches its "Success" (sortIndex).
SortIndexEnds == <>(main = "done")

=============================================================================
