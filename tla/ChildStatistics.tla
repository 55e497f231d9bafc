----------------------------- MODULE ChildStatistics -----------------------------
(***************************************************************************)
(* lab3/newchi.c and lab3_1/chi/main.c: a child that assigns a pair of     *)
(* variables again and again while a timer of 10 ms interrupts it.  The    *)
(* handler counts which halves of the pair it has seen; after a hundred    *)
(* ticks main prints the statistic, unless SIGUSR1 forbade it, and clears  *)
(* it.  Handler and main share every variable and mask no signal.          *)
(*                                                                         *)
(* main's pc is the statement it executes next:                            *)
(*   first0, second0, first1, second1   the assignments to the pair        *)
(*   test    count == 100               allowed  if (allow_output)         *)
(*   load    the arguments of sprintf   write    fputc, until all is out   *)
(*   clear   the store number i of the clearing                            *)
(*   dead    killed by a signal without a handler                          *)
(***************************************************************************)
EXTENDS Integers, Sequences

CONSTANTS
  Period,     \* ticks between two reports (100)
  MaxTicks,   \* timing assumption: ticks between two tests of count
  MaxCount    \* bound: the timer does not go off at this count

ASSUME StatisticsAssumption ==
  /\ Period \in Nat \ {0}
  /\ MaxTicks \in 0 .. 1  \* of two ticks the test for equality may miss the first
  /\ MaxCount \in Nat /\ Period + MaxTicks <= MaxCount

VARIABLES
  program,     \* "lab3" (newchi.c) or "lab3_1" (chi/main.c)
  resetHand,   \* whether sa_flags of the timer's action holds SA_RESETHAND
  handled,     \* whether SIGALRM still has its handler
  pc,
  i,           \* position in ClearOrder
  first, second,
  count, stat,
  allowed,     \* allow_output, is_print_allowed
  shown,       \* what main has loaded for the report
  ticks        \* ticks since the last test of count

vars == <<program, resetHand, handled, pc, i, first, second, count, stat, allowed, shown, ticks>>
setup == <<program, resetHand>>

Cells == 0 .. 3
NotLoaded == -1
Count == 4  \* stands for count among the stores of the clearing
Total(f) == f[0] + f[1] + f[2] + f[3]

\* lab3_1 leaves sa_flags uninitialised, so the handler may be good for one tick.
Init ==
  /\ \/ program = "lab3" /\ resetHand = FALSE /\ allowed = FALSE
     \/ program = "lab3_1" /\ resetHand \in BOOLEAN /\ allowed = TRUE
  /\ handled = TRUE
  /\ pc = "first0"
  /\ i = 1
  /\ first = 0 /\ second = 0
  /\ count = 0
  /\ stat = [c \in Cells |-> 0]
  /\ shown = [c \in Cells |-> NotLoaded]
  /\ ticks = 0

-----------------------------------------------------------------------------
(* The signals' handlers: each runs between two statements of main. *)

\* The timer goes off; without a handler it ends the process.
Tick ==
  /\ pc # "dead"
  /\ ticks < MaxTicks \/ pc = "write"
  /\ count < MaxCount
  /\ IF handled
     THEN /\ stat' = [stat EXCEPT ![2 * first + second] = @ + 1]
          /\ count' = count + 1
          /\ handled' = ~resetHand
          /\ ticks' = IF pc = "write" THEN ticks ELSE ticks + 1
          /\ UNCHANGED pc
     ELSE /\ pc' = "dead"
          /\ UNCHANGED <<stat, count, handled, ticks>>
  /\ UNCHANGED <<setup, i, first, second, allowed, shown>>

\* SIGUSR1 forbids the output, SIGUSR2 allows it.
PrintHandler ==
  /\ pc # "dead"
  /\ allowed' \in BOOLEAN
  /\ UNCHANGED <<setup, handled, pc, i, first, second, count, stat, shown, ticks>>

-----------------------------------------------------------------------------
(* main *)

Goto(from, to) == pc = from /\ pc' = to

Assign ==
  /\ \/ Goto("first0", "second0") /\ first' = 0 /\ UNCHANGED second
     \/ Goto("second0", "first1") /\ second' = 0 /\ UNCHANGED first
     \/ Goto("first1", "second1") /\ first' = 1 /\ UNCHANGED second
     \/ Goto("second1", "test") /\ second' = 1 /\ UNCHANGED first
  /\ UNCHANGED <<setup, handled, i, count, stat, allowed, shown, ticks>>

\* The loop starts again before the count is complete.
Test ==
  /\ Goto("test", IF count = Period THEN "allowed" ELSE "first0")
  /\ ticks' = 0
  /\ UNCHANGED <<setup, handled, i, first, second, count, stat, allowed, shown>>

TestAllowed ==
  /\ Goto("allowed", IF allowed THEN "load" ELSE "clear")
  /\ shown' = [c \in Cells |-> NotLoaded]
  /\ i' = 1
  /\ UNCHANGED <<setup, handled, first, second, count, stat, allowed, ticks>>

\* The arguments of sprintf are evaluated in no particular order.
Load ==
  /\ pc = "load"
  /\ \E c \in Cells :
       /\ shown[c] = NotLoaded
       /\ shown' = [shown EXCEPT ![c] = stat[c]]
       /\ pc' = IF \A d \in Cells \ {c} : shown[d] # NotLoaded THEN "write" ELSE "load"
  /\ UNCHANGED <<setup, handled, i, first, second, count, stat, allowed, ticks>>

Write ==
  /\ Goto("write", "clear")
  /\ UNCHANGED <<setup, handled, i, first, second, count, stat, allowed, shown, ticks>>

\* Fault: the loop over the statistic ends one cell early.
ClearOrderShort ==
  IF program = "lab3" THEN <<Count, 0, 1, 2>> ELSE <<2, 1, 0, Count>>

\* Fault: the loop runs one cell too far, into the variable behind the array.
ClearOrderLong ==
  IF program = "lab3" THEN <<Count, 0, 1, 2, 3, Count>> ELSE <<3, 2, 1, 0, Count>>

\* Fault: the count is left alone.
ClearOrderStats == IF program = "lab3" THEN <<0, 1, 2, 3>> ELSE <<3, 2, 1, 0>>

\* The stores of the clearing; lab3_1's chain of assignments runs from the right.
ClearOrder == IF program = "lab3" THEN <<Count, 0, 1, 2, 3>> ELSE <<3, 2, 1, 0, Count>>

Clear ==
  /\ pc = "clear"
  /\ IF ClearOrder[i] = Count
     THEN count' = 0 /\ UNCHANGED stat
     ELSE stat' = [stat EXCEPT ![ClearOrder[i]] = 0] /\ UNCHANGED count
  /\ i' = IF i = Len(ClearOrder) THEN 1 ELSE i + 1
  /\ pc' = IF i = Len(ClearOrder) THEN "first0" ELSE "clear"
  /\ UNCHANGED <<setup, handled, first, second, allowed, shown, ticks>>

Main == Assign \/ Test \/ TestAllowed \/ Load \/ Write \/ Clear

Next == Main \/ Tick \/ PrintHandler

Spec == Init /\ [][Next]_vars

\* The timer's interval repeats and the kernel lets main run; nobody has to send
\* SIGUSR1 or SIGUSR2.
FairSpec == Spec /\ WF_vars(Main) /\ WF_vars(Tick)

-----------------------------------------------------------------------------
(* Properties *)

\* Every variable has the type its declaration gives it.
TypeOK ==
  /\ program \in {"lab3", "lab3_1"}
  /\ resetHand \in BOOLEAN /\ handled \in BOOLEAN /\ allowed \in BOOLEAN
  /\ pc \in {"first0", "second0", "first1", "second1", "test", "allowed", "load", "write",
             "clear", "dead"}
  /\ i \in 1 .. 5
  /\ first \in 0 .. 1 /\ second \in 0 .. 1
  /\ count \in 0 .. MaxCount
  /\ stat \in [Cells -> Nat]
  /\ shown \in [Cells -> Nat \cup {NotLoaded}]
  /\ ticks \in 0 .. MaxTicks

\* count == 100 tests for equality: with one tick between two tests the counter
\* never jumps over the period, wherever in the loop or in the clearing the tick
\* comes, so the statistic is always reported in the end.
NeverMissed == count > Period => pc \in {"allowed", "load", "write", "clear", "dead"}

\* A report shows a full period although main clears the counters one by one
\* between ticks: newchi clears count first and may lose a tick's half of the
\* pair, lab3_1 clears it last and may keep one too many, and a tick may come
\* while main loads the numbers.
ReportedTotal ==
  pc = "write" =>
    LET excess == Total(shown) - Period IN
    IF program = "lab3" THEN excess \in -MaxTicks .. MaxTicks ELSE excess \in 0 .. 2 * MaxTicks

\* The child clears its statistic again and again, as long as the flags lab3_1
\* leaves to chance let the handler survive its first tick.
ReportsForever == ~resetHand => []<>(pc = "clear")

=================================================================================
