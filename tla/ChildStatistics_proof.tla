------------------------- MODULE ChildStatistics_proof -------------------------
(***************************************************************************)
(* Theorems about ChildStatistics (the children of lab3 and lab3_1), for   *)
(* every period and every bound of the count.                              *)
(***************************************************************************)
EXTENDS ChildStatistics, TLAPS

-----------------------------------------------------------------------------
(* The inductive invariant *)

\* The statements of the endless loop up to its test of count.
LoopPcs == {"first0", "second0", "first1", "second1", "test"}

\* What the report will add up to: a cell counts as it was loaded, or as it is.
View == [c \in Cells |-> IF shown[c] = NotLoaded THEN stat[c] ELSE shown[c]]

\* The ticks in the cells that the clearing has been through.
Cleared(c) == IF program = "lab3" THEN c <= i - 3 ELSE c >= 5 - i
Late == Total([c \in Cells |-> IF Cleared(c) THEN stat[c] ELSE 0])

\* Only the clearing moves through ClearOrder.
ClearsFromStart == pc \notin {"clear", "dead"} => i = 1

\* count reaches the test at the period at most, and the report above it by the
\* ticks that came since.
CountKept ==
  /\ pc \in LoopPcs => count + MaxTicks <= Period + ticks
  /\ pc \in {"allowed", "load"} => count = Period + ticks
  /\ program = "lab3" /\ pc = "clear" /\ i > 1 => count <= ticks

\* Outside the clearing the statistic and count differ by the ticks of one round at
\* most: lab3 may lose them, lab3_1 may keep them.
Drift ==
  LET drift == Total(stat) - count IN
  pc \in LoopPcs \cup {"allowed", "load"} =>
    IF program = "lab3" THEN drift \in -MaxTicks .. 0 ELSE drift \in 0 .. MaxTicks

\* In the clearing the cells that are done hold no more than the ticks since the test.
LateTicks ==
  pc = "clear" => Late \in 0 .. (IF program = "lab3" /\ i > 1 THEN count ELSE ticks)

\* While the report is loaded, what it will add up to is bounded.
ReportKept ==
  /\ pc \in {"load", "write"} =>
       LET excess == Total(View) - Period IN
       IF program = "lab3" THEN excess \in -MaxTicks .. ticks ELSE excess \in 0 .. MaxTicks + ticks
  /\ pc = "write" => \A c \in Cells : shown[c] # NotLoaded

IInv ==
  /\ TypeOK
  /\ ClearsFromStart
  /\ CountKept
  /\ Drift
  /\ LateTicks
  /\ ReportKept


-----------------------------------------------------------------------------
(* Lemmas *)

\* One more in a cell is one more in the total.
LEMMA TotalOfTick ==
  ASSUME NEW f \in [Cells -> Int], NEW k \in Cells
  PROVE  Total([f EXCEPT ![k] = @ + 1]) = Total(f) + 1
<1>1. k = 0 \/ k = 1 \/ k = 2 \/ k = 3
  BY DEF Cells
<1> QED
  BY <1>1 DEF Total, Cells

\* The statistic is a function to the integers, and a total of naturals is one.
LEMMA TotalType ==
  ASSUME NEW f \in [Cells -> Nat]
  PROVE  f \in [Cells -> Int] /\ Total(f) \in Nat
BY DEF Total, Cells

\* The order of the stores of the clearing.
LEMMA ClearOrderAt ==
  ASSUME TypeOK
  PROVE  /\ Len(ClearOrder) = 5
         /\ program = "lab3" => ClearOrder[i] = IF i = 1 THEN Count ELSE i - 2
         /\ program # "lab3" => ClearOrder[i] = IF i = 5 THEN Count ELSE 4 - i
<1>1. i = 1 \/ i = 2 \/ i = 3 \/ i = 4 \/ i = 5
  BY DEF TypeOK
<1> QED
  BY <1>1 DEF ClearOrder, Count

\* What Late adds up, cell by cell.
Part(c) == IF Cleared(c) THEN stat[c] ELSE 0

LEMMA LateAt == Late = Part(0) + Part(1) + Part(2) + Part(3)
BY DEF Late, Part, Total, Cells

-----------------------------------------------------------------------------
(* Every step preserves the invariant *)

LEMMA InvInit ==
  ASSUME Init
  PROVE  IInv
<1> USE StatisticsAssumption
<1>1. TypeOK
  <2>1. program \in {"lab3", "lab3_1"} /\ resetHand \in BOOLEAN /\ allowed \in BOOLEAN
    BY DEF Init
  <2>2. stat \in [Cells -> Nat] /\ shown \in [Cells -> Nat \cup {NotLoaded}]
    BY DEF Init
  <2>3. i \in 1 .. 5 /\ first \in 0 .. 1 /\ second \in 0 .. 1 /\ count \in 0 .. MaxCount /\ ticks \in 0 .. MaxTicks
    BY DEF Init
  <2>4. handled \in BOOLEAN /\ pc = "first0"
    BY DEF Init
  <2> QED
    BY <2>1, <2>2, <2>3, <2>4 DEF TypeOK
<1>2. ClearsFromStart /\ CountKept /\ LateTicks /\ ReportKept
  BY DEF Init, ClearsFromStart, CountKept, LateTicks, ReportKept
<1>3. Total(stat) = 0
  BY DEF Init, Total, Cells
<1>4. Drift
  BY <1>3 DEF Init, Drift
<1> QED
  BY <1>1, <1>2, <1>4 DEF IInv

LEMMA InvTick ==
  ASSUME IInv, Tick
  PROVE  IInv'
<1> USE StatisticsAssumption
<1>1. CASE ~handled
  BY <1>1 DEF IInv, TypeOK, Tick, setup, ClearsFromStart, CountKept, Drift, LateTicks, ReportKept, LoopPcs
<1>2. CASE handled
  <2> DEFINE k == 2 * first + second
  <2>1. /\ k \in Cells
        /\ stat \in [Cells -> Int]
        /\ stat' = [stat EXCEPT ![k] = @ + 1]
        /\ count' = count + 1
        /\ ticks' = IF pc = "write" THEN ticks ELSE ticks + 1
        /\ UNCHANGED <<program, resetHand, pc, i, first, second, allowed, shown>>
    BY <1>2 DEF IInv, TypeOK, Tick, setup, Cells
  <2>2. TypeOK'
    BY <1>2, <2>1 DEF IInv, TypeOK, Tick
  <2>3. ClearsFromStart' /\ CountKept'
    BY <2>1 DEF IInv, TypeOK, ClearsFromStart, CountKept, LoopPcs
  <2>4. Total(stat') = Total(stat) + 1
    BY <2>1, TotalOfTick
  <2>5. Drift'
    BY <2>1, <2>4, TotalType DEF IInv, TypeOK, Drift, LoopPcs
  <2>6. pc = "clear" => LateTicks'
    <3> SUFFICES ASSUME pc = "clear" PROVE LateTicks'
      OBVIOUS
    <3>1. \A c \in Cells : Cleared(c)' <=> Cleared(c)
      BY <2>1 DEF Cleared
    <3>2. Late' \in Late .. Late + 1
      <4>1. \A c \in Cells : stat[c] \in Int /\ stat'[c] = IF c = k THEN stat[c] + 1 ELSE stat[c]
        BY <2>1
      <4>2. k = 0 \/ k = 1 \/ k = 2 \/ k = 3
        BY <2>1 DEF Cells
      <4>3. Late' = Part(0)' + Part(1)' + Part(2)' + Part(3)'
        BY DEF Late, Part, Total, Cells
      <4> HIDE DEF k
      <4> QED
        BY <3>1, <4>1, <4>2, <4>3, LateAt DEF Part, Cells
    <3> QED
      BY <2>1, <3>2 DEF IInv, TypeOK, LateTicks
  <2>7. pc = "load" => Total(View') \in Total(View) .. Total(View) + 1
    <3>1. k = 0 \/ k = 1 \/ k = 2 \/ k = 3
      BY <2>1 DEF Cells
    <3> QED
      BY <2>1, <3>1 DEF IInv, TypeOK, View, Total, Cells, NotLoaded
  <2>8. pc = "write" => Total(View') = Total(View)
    BY <2>1 DEF IInv, ReportKept, View, Total, Cells
  <2>9. View \in [Cells -> Int] /\ Total(View) \in Int
    BY DEF IInv, TypeOK, View, Total, Cells, NotLoaded
  <2>10. ReportKept'
    BY <2>1, <2>7, <2>8, <2>9 DEF IInv, TypeOK, ReportKept
  <2> QED
    BY <2>2, <2>3, <2>5, <2>6, <2>10, <2>1 DEF IInv, LateTicks
<1> QED
  BY <1>1, <1>2

\* SIGUSR1 and SIGUSR2 change nothing the invariant is about.
LEMMA InvPrint ==
  ASSUME IInv, PrintHandler
  PROVE  IInv'
BY DEF IInv, TypeOK, PrintHandler, setup, ClearsFromStart, CountKept, Drift, LateTicks, Late, Cleared,
       ReportKept, View

LEMMA InvAssign ==
  ASSUME IInv, Assign
  PROVE  IInv'
<1>1. /\ pc \in {"first0", "second0", "first1", "second1"}
      /\ pc' \in LoopPcs
      /\ first' \in 0 .. 1 /\ second' \in 0 .. 1
      /\ UNCHANGED <<program, resetHand, handled, i, count, stat, allowed, shown, ticks>>
  BY DEF IInv, TypeOK, Assign, Goto, setup, LoopPcs
<1> QED
  BY <1>1 DEF IInv, TypeOK, ClearsFromStart, CountKept, Drift, LateTicks, ReportKept, LoopPcs

\* A count the test lets pass is below the period.
LEMMA InvTest ==
  ASSUME IInv, Test
  PROVE  IInv'
<1> USE StatisticsAssumption
<1>1. /\ pc = "test" /\ pc' = IF count = Period THEN "allowed" ELSE "first0"
      /\ ticks' = 0
      /\ UNCHANGED <<program, resetHand, handled, i, first, second, count, stat, allowed, shown>>
  BY DEF Test, Goto, setup
<1>2. TypeOK'
  BY <1>1 DEF IInv, TypeOK
<1>3. ClearsFromStart' /\ LateTicks' /\ ReportKept'
  BY <1>1 DEF IInv, ClearsFromStart, LateTicks, ReportKept
<1>4. CountKept'
  BY <1>1 DEF IInv, TypeOK, CountKept, LoopPcs
<1>5. Drift'
  BY <1>1 DEF IInv, Drift, LoopPcs
<1> QED
  BY <1>2, <1>3, <1>4, <1>5 DEF IInv

\* Nothing is loaded and nothing cleared yet.
LEMMA InvTestAllowed ==
  ASSUME IInv, TestAllowed
  PROVE  IInv'
<1> USE StatisticsAssumption
<1>1. /\ pc = "allowed" /\ pc' \in {"load", "clear"}
      /\ shown' = [c \in Cells |-> NotLoaded]
      /\ i' = 1
      /\ UNCHANGED <<program, resetHand, handled, first, second, count, stat, allowed, ticks>>
  BY DEF TestAllowed, Goto, setup
<1>2. TypeOK'
  BY <1>1 DEF IInv, TypeOK
<1>3. ClearsFromStart' /\ CountKept' /\ Drift'
  BY <1>1 DEF IInv, ClearsFromStart, CountKept, Drift, LoopPcs
<1>4. LateTicks'
  <2>1. Late' = 0
    BY <1>1 DEF Late, Cleared, Total, Cells, IInv, TypeOK
  <2> QED
    BY <1>1, <2>1 DEF LateTicks, IInv, TypeOK
<1>5. ReportKept'
  <2>1. Total(View') = Total(stat)
    BY <1>1 DEF View, Total, Cells
  <2>2. Total(stat) \in Nat
    BY TotalType DEF IInv, TypeOK
  <2>3. count = Period + ticks
    BY <1>1 DEF IInv, CountKept
  <2>4. IF program = "lab3" THEN Total(stat) - count \in -MaxTicks .. 0
                            ELSE Total(stat) - count \in 0 .. MaxTicks
    BY <1>1 DEF IInv, Drift
  <2> QED
    BY <1>1, <2>1, <2>2, <2>3, <2>4 DEF ReportKept, IInv, TypeOK
<1> QED
  BY <1>2, <1>3, <1>4, <1>5 DEF IInv

\* A cell counts in View as it is loaded.
LEMMA InvLoad ==
  ASSUME IInv, Load
  PROVE  IInv'
<1> USE StatisticsAssumption
<1>1. PICK c \in Cells :
        /\ shown[c] = NotLoaded
        /\ shown' = [shown EXCEPT ![c] = stat[c]]
        /\ pc' = IF \A d \in Cells \ {c} : shown[d] # NotLoaded THEN "write" ELSE "load"
  BY DEF Load
<1>2. /\ pc = "load"
      /\ UNCHANGED <<program, resetHand, handled, i, first, second, count, stat, allowed, ticks>>
  BY DEF Load, setup
<1>3. TypeOK'
  BY <1>1, <1>2 DEF IInv, TypeOK
<1>4. ClearsFromStart' /\ CountKept' /\ Drift' /\ LateTicks'
  BY <1>1, <1>2 DEF IInv, ClearsFromStart, CountKept, Drift, LateTicks, LoopPcs
<1>5. View' = View
  <2>1. stat[c] # NotLoaded
    BY DEF IInv, TypeOK, NotLoaded
  <2> QED
    BY <1>1, <1>2, <2>1 DEF IInv, TypeOK, View
<1>6. pc' = "write" => \A d \in Cells : shown'[d] # NotLoaded
  BY <1>1 DEF IInv, TypeOK, NotLoaded
<1>7. ReportKept'
  BY <1>1, <1>2, <1>5, <1>6 DEF IInv, ReportKept
<1> QED
  BY <1>3, <1>4, <1>7 DEF IInv

LEMMA InvWrite ==
  ASSUME IInv, Write
  PROVE  IInv'
<1>1. /\ pc = "write" /\ pc' = "clear"
      /\ UNCHANGED <<program, resetHand, handled, i, first, second, count, stat, allowed, shown, ticks>>
  BY DEF Write, Goto, setup
<1>2. i = 1
  BY <1>1 DEF IInv, ClearsFromStart
<1>3. Late' = 0
  BY <1>1, <1>2 DEF Late, Cleared, Total, Cells
<1> QED
  BY <1>1, <1>2, <1>3 DEF IInv, TypeOK, ClearsFromStart, CountKept, Drift, LateTicks, ReportKept, LoopPcs

\* The clearing: lab3 clears count first and then the cells upwards, lab3_1 the
\* cells downwards and then count.
LEMMA InvClear ==
  ASSUME IInv, Clear
  PROVE  IInv'
<1> USE StatisticsAssumption
<1>1. /\ pc = "clear"
      /\ pc' = IF i = 5 THEN "first0" ELSE "clear"
      /\ i' = IF i = 5 THEN 1 ELSE i + 1
      /\ UNCHANGED <<program, resetHand, handled, first, second, allowed, shown, ticks>>
  BY ClearOrderAt DEF IInv, Clear, setup
<1>2. i \in 1 .. 5 /\ ticks \in 0 .. MaxTicks /\ count \in Nat /\ stat \in [Cells -> Nat]
  BY DEF IInv, TypeOK
<1>3. Late \in 0 .. (IF program = "lab3" /\ i > 1 THEN count ELSE ticks)
  BY <1>1 DEF IInv, LateTicks
<1>4. CASE ClearOrder[i] = Count
  <2>1. count' = 0 /\ stat' = stat
    BY <1>1, <1>4 DEF Clear
  <2>2. TypeOK'
    BY <1>1, <2>1 DEF IInv, TypeOK
  <2>3. CASE program = "lab3"
    <3>1. i = 1
      BY <1>2, <1>4, <2>3, ClearOrderAt DEF IInv, Count
    <3>2. Late' = 0
      BY <1>1, <1>2, <2>1, <2>3, <3>1 DEF Late, Cleared, Total, Cells
    <3> QED
      BY <1>1, <1>2, <2>1, <2>2, <2>3, <3>1, <3>2
      DEF IInv, ClearsFromStart, CountKept, Drift, LateTicks, ReportKept, LoopPcs
  <2>4. CASE program # "lab3"
    <3>1. i = 5
      BY <1>2, <1>4, <2>4, ClearOrderAt DEF IInv, Count
    <3>2. Total(stat) = Late
      BY <1>2, <2>4, <3>1 DEF Late, Cleared, Total, Cells
    <3> QED
      BY <1>1, <1>2, <1>3, <2>1, <2>2, <2>4, <3>1, <3>2
      DEF IInv, ClearsFromStart, CountKept, Drift, LateTicks, ReportKept, LoopPcs
  <2> QED
    BY <2>3, <2>4
<1>5. CASE ClearOrder[i] # Count
  <2>1. count' = count /\ stat' = [stat EXCEPT ![ClearOrder[i]] = 0]
    BY <1>1, <1>5 DEF Clear
  <2>2. TypeOK'
    <3>1. stat' \in [Cells -> Nat]
      BY <1>2, <2>1
    <3> QED
      BY <1>1, <2>1, <3>1 DEF IInv, TypeOK
  <2>3. CASE program = "lab3"
    <3>1. i \in 2 .. 5 /\ stat' = [stat EXCEPT ![i - 2] = 0]
      <4>1. i # 1 /\ ClearOrder[i] = i - 2
        BY <1>2, <1>5, <2>3, ClearOrderAt DEF IInv
      <4> QED
        BY <1>2, <2>1, <4>1
    <3>2. count <= ticks
      BY <1>1, <2>3, <3>1 DEF IInv, CountKept
    <3>3. i # 5 => Late' = Late
      <4>1. i = 2 \/ i = 3 \/ i = 4 \/ i = 5
        BY <3>1
      <4> QED
        BY <1>1, <1>2, <2>3, <3>1, <4>1 DEF Late, Cleared, Total, Cells
    <3>4. i = 5 => Total(stat') = Late
      BY <1>1, <1>2, <2>3, <3>1 DEF Late, Cleared, Total, Cells
    <3> QED
      BY <1>1, <1>2, <1>3, <2>1, <2>2, <2>3, <3>1, <3>2, <3>3, <3>4
      DEF IInv, ClearsFromStart, CountKept, Drift, LateTicks, ReportKept, LoopPcs
  <2>4. CASE program # "lab3"
    <3>1. i \in 1 .. 4 /\ stat' = [stat EXCEPT ![4 - i] = 0]
      <4>1. i # 5 /\ ClearOrder[i] = 4 - i
        BY <1>2, <1>5, <2>4, ClearOrderAt DEF IInv
      <4> QED
        BY <1>2, <2>1, <4>1
    <3>2. Late' = Late
      <4>1. i = 1 \/ i = 2 \/ i = 3 \/ i = 4
        BY <3>1
      <4> QED
        BY <1>1, <1>2, <2>4, <3>1, <4>1 DEF Late, Cleared, Total, Cells
    <3> QED
      BY <1>1, <1>2, <1>3, <2>1, <2>2, <2>4, <3>1, <3>2
      DEF IInv, ClearsFromStart, CountKept, Drift, LateTicks, ReportKept, LoopPcs
  <2> QED
    BY <2>3, <2>4
<1> QED
  BY <1>4, <1>5

LEMMA Invariance == Spec => []IInv
<1>1. Init => IInv
  BY InvInit
<1>2. IInv /\ [Next]_vars => IInv'
  <2>1. ASSUME IInv, UNCHANGED vars PROVE IInv'
    BY <2>1 DEF vars, setup, IInv, TypeOK, ClearsFromStart, CountKept, Drift, LateTicks, Late, Cleared,
                ReportKept, View
  <2> QED
    BY <2>1, InvTick, InvPrint, InvAssign, InvTest, InvTestAllowed, InvLoad, InvWrite, InvClear
    DEF Next, Main
<1> QED
  BY <1>1, <1>2, PTL DEF Spec

-----------------------------------------------------------------------------
(* The theorems *)

\* Every variable keeps its type; in particular first and second select a cell.
THEOREM TypeCorrect == Spec => []TypeOK
<1>1. IInv => TypeOK
  BY DEF IInv
<1> QED
  BY <1>1, Invariance, PTL

\* The test for equality never lets count past the period, whatever the period,
\* wherever a tick falls in the loop or in the clearing.
THEOREM PeriodNeverMissed == Spec => []NeverMissed
<1>1. IInv => NeverMissed
  BY StatisticsAssumption DEF IInv, TypeOK, CountKept, LoopPcs, NeverMissed
<1> QED
  BY <1>1, Invariance, PTL

\* The numbers of a report add up to the period but for the ticks of one round of
\* the loop, for both orders of clearing and any order of loading.
THEOREM ReportAddsUp == Spec => []ReportedTotal
<1>1. IInv => ReportedTotal
  <2> SUFFICES ASSUME IInv, pc = "write" PROVE ReportedTotal
    BY DEF ReportedTotal
  <2>1. Total(View) = Total(shown)
    BY DEF IInv, ReportKept, View, Total, Cells
  <2>2. Total(shown) \in Int
    BY DEF IInv, TypeOK, Total, Cells, NotLoaded
  <2> QED
    BY <2>1, <2>2, StatisticsAssumption DEF IInv, TypeOK, ReportKept, ReportedTotal
<1> QED
  BY <1>1, Invariance, PTL

===============================================================================
