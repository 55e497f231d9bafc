-------------------------- MODULE MonitorQueue_proof --------------------------
(***************************************************************************)
(* Theorems about MonitorQueue (lab7/part_1), for every number of threads, *)
(* buffer size and set of messages.                                        *)
(***************************************************************************)
EXTENDS MonitorQueue, FiniteSetTheorems, SequenceTheorems, TLAPS

\* The two kinds of thread are disjoint finite sets.
LEMMA ThreadSets ==
  /\ IsFiniteSet(Producers) /\ IsFiniteSet(Consumers)
  /\ Producers \cap Consumers = {}
  /\ Producers \subseteq Threads /\ Consumers \subseteq Threads
<1>1. IsFiniteSet(0 .. PROD_MAX - 1) /\ IsFiniteSet(0 .. CONS_MAX - 1)
  BY FS_Interval, MonitorAssumption
<1>2. IsFiniteSet({"P"}) /\ IsFiniteSet({"C"})
  BY FS_Singleton
<1>3. IsFiniteSet(Producers) /\ IsFiniteSet(Consumers)
  BY <1>1, <1>2, FS_Product DEF Producers, Consumers
<1>4. Producers \cap Consumers = {}
  BY DEF Producers, Consumers
<1> QED
  BY <1>3, <1>4 DEF Threads

\* A slot below the bound of its kind is a thread.
LEMMA SlotIsThread ==
  ASSUME NEW k \in Kinds, NEW i \in Nat, i < MaxAmount(k)
  PROVE  /\ <<k, i>> \in Threads
         /\ <<k, i>> \in Producers <=> k = "P"
BY MonitorAssumption DEF Kinds, MaxAmount, Producers, Consumers, Threads

-----------------------------------------------------------------------------

\* The steps of a worker, one disjunct per statement of its handler.
WorkerStep(t) ==
  \/ Lock(t) \/ Wait(t) \/ Proceed(t) \/ Signal(t) \/ Unlock(t) \/ Repeat(t)
  \/ CancelledAsleep(t) \/ Die(t) \/ SpuriousWakeup(t)
  \/ t \in Producers /\ (MakeMessage(t) \/ PutMessage(t))

\* Every step is a step of the main thread or of one worker.
LEMMA NextCases ==
  ASSUME Next
  PROVE  \/ Main
         \/ \E t \in Threads : /\ WorkerStep(t) /\ Running
                               /\ UNCHANGED <<mainPc, amount, cancelled>>
         \/ \E c \in Consumers : /\ GetMessage(c) /\ Running
                                 /\ UNCHANGED <<amount, cancelled>>
BY DEF Next, Producer, Consumer, Spurious, Handler, WorkerStep, Threads

-----------------------------------------------------------------------------
(* Counting threads *)

\* f after thread t has moved to statement s.
Moved(f, t, s) == [f EXCEPT ![t] = s]

\* Moving one thread changes the number of threads at some statements by at
\* most one, in the direction of the move.
LEMMA CountMove ==
  ASSUME NEW S, S \subseteq Threads, IsFiniteSet(S), NEW Q,
         NEW f \in [Threads -> States], NEW t \in Threads, NEW s \in States
  PROVE  /\ Cardinality(At(f, S, Q)) \in Nat
         /\ Cardinality(At(Moved(f, t, s), S, Q)) =
              Cardinality(At(f, S, Q))
                + (IF t \in S /\ s \in Q THEN 1 ELSE 0)
                - (IF t \in S /\ f[t] \in Q THEN 1 ELSE 0)
<1> DEFINE g == Moved(f, t, s)
           A == At(f, S, Q)
           B == At(g, S, Q)
<1>1. IsFiniteSet(A) /\ IsFiniteSet(B) /\ Cardinality(A) \in Nat /\ Cardinality(B) \in Nat
  <2>1. A \subseteq S /\ B \subseteq S
    BY DEF At
  <2> QED
    BY <2>1, FS_Subset, FS_CardinalityType
<1>2. g \in [Threads -> States] /\ g[t] = s /\ \A u \in S : u # t => g[u] = f[u]
  BY DEF Moved
<1>3. t \notin S \/ (f[t] \in Q <=> s \in Q) => A = B
  BY <1>2 DEF At
<1>4. t \in S /\ f[t] \in Q /\ s \notin Q => t \in A /\ B = A \ {t}
  BY <1>2 DEF At
<1>5. t \in S /\ f[t] \notin Q /\ s \in Q => t \notin A /\ B = A \cup {t}
  BY <1>2 DEF At
<1>6. t \in A => Cardinality(A \ {t}) = Cardinality(A) - 1
  BY <1>1, FS_RemoveElement
<1>7. t \notin A => Cardinality(A \cup {t}) = Cardinality(A) + 1
  BY <1>1, FS_AddElement
<1>8. Cardinality(B) = Cardinality(A) + (IF t \in S /\ s \in Q THEN 1 ELSE 0)
                                      - (IF t \in S /\ f[t] \in Q THEN 1 ELSE 0)
  <2> HIDE DEF A, B
  <2>1. CASE t \in S /\ f[t] \in Q /\ s \notin Q
    BY <1>1, <1>4, <1>6, <2>1
  <2>2. CASE t \in S /\ f[t] \notin Q /\ s \in Q
    BY <1>1, <1>5, <1>7, <2>2
  <2>3. CASE t \notin S \/ (f[t] \in Q <=> s \in Q)
    BY <1>1, <1>3, <2>3
  <2> QED
    BY <2>1, <2>2, <2>3
<1> QED
  BY <1>1, <1>8

\* What a thread at statement s adds to the right-hand side of WakeupsCover.
Weight(S, t, s) ==
  IF t \in S THEN IF s \in AwakeStates THEN 1 ELSE 0
             ELSE IF s = "signal" THEN 1 ELSE 0

\* WakeupsCover survives the move of one thread that does not fall asleep and
\* whose weight changes at least as much as the things available.
LEMMA SideMove ==
  ASSUME NEW S, NEW T, <<S, T>> \in {<<Producers, Consumers>>, <<Consumers, Producers>>},
         NEW f \in [Threads -> States], NEW t \in Threads, NEW s \in States,
         NEW avail \in Int, NEW avail2 \in Int,
         WakeupsCover(f, S, T, avail),
         t \in S => s # "wait",
         avail2 + Weight(S, t, f[t]) <= avail + Weight(S, t, s)
  PROVE  WakeupsCover(Moved(f, t, s), S, T, avail2)
<1> DEFINE g == Moved(f, t, s)
<1>1. /\ IsFiniteSet(S) /\ IsFiniteSet(T) /\ S \subseteq Threads /\ T \subseteq Threads
      /\ t \in S <=> t \notin T
  BY ThreadSets DEF Threads
<1>2. At(g, S, {"wait"}) # {} => At(f, S, {"wait"}) # {}
  BY DEF At, Moved
<1>3. SUFFICES ASSUME At(g, S, {"wait"}) # {}
               PROVE  avail2 <= Cardinality(At(g, S, AwakeStates)) + Cardinality(At(g, T, {"signal"}))
  BY DEF WakeupsCover
<1>4. avail <= Cardinality(At(f, S, AwakeStates)) + Cardinality(At(f, T, {"signal"}))
  BY <1>2, <1>3 DEF WakeupsCover
<1>5. /\ Cardinality(At(f, S, AwakeStates)) \in Nat
      /\ Cardinality(At(g, S, AwakeStates)) =
           Cardinality(At(f, S, AwakeStates))
             + (IF t \in S /\ s \in AwakeStates THEN 1 ELSE 0)
             - (IF t \in S /\ f[t] \in AwakeStates THEN 1 ELSE 0)
  BY <1>1, CountMove
<1>6. /\ Cardinality(At(f, T, {"signal"})) \in Nat
      /\ Cardinality(At(g, T, {"signal"})) =
           Cardinality(At(f, T, {"signal"}))
             + (IF t \in T /\ s \in {"signal"} THEN 1 ELSE 0)
             - (IF t \in T /\ f[t] \in {"signal"} THEN 1 ELSE 0)
  BY <1>1, CountMove
<1> HIDE DEF g
<1> QED
  BY <1>1, <1>4, <1>5, <1>6 DEF Weight

-----------------------------------------------------------------------------
(* The inductive invariant *)

\* A thread about to touch the queue has found it not full, or not empty.
AccessReady == \A t \in Threads : pc[t] = "access" => ~Blocked(t)

\* The main thread is waiting for the youngest thread of kind k to end.
Leaving(k) == mainPc \in IF k = "P" THEN {"joinP", "exitJoinP"} ELSE {"joinC", "exitJoinC"}

\* A slot past the end of its array holds no thread, so creating a thread there
\* cannot overwrite one that runs.
SlotsFree ==
  \A k \in Kinds : \A i \in 0 .. MaxAmount(k) - 1 :
    i >= amount[k] /\ ~(Leaving(k) /\ i = amount[k]) => pc[<<k, i>>] = "none"

\* Each part needs the others: a counter keeps its bounds because the thread that
\* changes it holds the mutex and has just tested it, and the wakeups add up
\* because the tested condition still holds when the thread acts on it.
IInv ==
  /\ TypeOK
  /\ MutexDiscipline
  /\ AccessReady
  /\ RingConsistent
  /\ NeverUnderflows
  /\ SlotsFree
  /\ NoLostWakeup

LEMMA InvInit == Init => IInv
<1> SUFFICES ASSUME Init PROVE IInv
  OBVIOUS
<1>1. TypeOK
  BY MonitorAssumption DEF Init, TypeOK, Kinds, MaxAmount, States, MainStates, Slots
<1>2. \A t \in Threads : pc[t] = "none"
  BY DEF Init
<1>3. MutexDiscipline /\ AccessReady
  BY <1>2, MonitorAssumption DEF Init, MutexDiscipline, AccessReady, InCritical
<1>4. RingConsistent /\ NeverUnderflows
  BY DEF Init, RingConsistent, NeverUnderflows
<1>5. SlotsFree
  BY <1>2, SlotIsThread, MonitorAssumption DEF SlotsFree, MaxAmount, Kinds
<1>6. At(pc, Consumers, {"wait"}) = {} /\ At(pc, Producers, {"wait"}) = {}
  BY <1>2, ThreadSets DEF At
<1>7. NoLostWakeup
  BY <1>6 DEF NoLostWakeup, WakeupsCover
<1> QED
  BY <1>1, <1>3, <1>4, <1>5, <1>7 DEF IInv

\* A thread that neither falls asleep nor stops caring for a message or a slot
\* leaves no wakeup behind.
LEMMA QuietMove ==
  ASSUME TypeOK, NoLostWakeup, NEW t \in Threads, NEW s \in States \ {"wait"},
         pc' = Moved(pc, t, s), message_count' = message_count,
         pc[t] \in AwakeStates => s \in AwakeStates,
         pc[t] = "signal" => s = "signal"
  PROVE  NoLostWakeup'
<1>1. message_count \in Int /\ bufferSize - message_count \in Int /\ pc \in [Threads -> States]
  BY MonitorAssumption DEF TypeOK
<1>2. \A S \in {Producers, Consumers} : Weight(S, t, pc[t]) <= Weight(S, t, s)
  BY DEF Weight
<1>3. \A S \in {Producers, Consumers} : Weight(S, t, pc[t]) \in Int /\ Weight(S, t, s) \in Int
  BY DEF Weight
<1>4. WakeupsCover(pc, Consumers, Producers, message_count)
      /\ WakeupsCover(pc, Producers, Consumers, bufferSize - message_count)
  BY DEF NoLostWakeup
<1>5. WakeupsCover(Moved(pc, t, s), Consumers, Producers, message_count)
  <2>1. message_count + Weight(Consumers, t, pc[t]) <= message_count + Weight(Consumers, t, s)
    BY <1>1, <1>2, <1>3
  <2> QED
    BY <1>1, <1>4, <2>1, SideMove
<1>6. WakeupsCover(Moved(pc, t, s), Producers, Consumers, bufferSize - message_count)
  <2>1. bufferSize - message_count + Weight(Producers, t, pc[t])
          <= bufferSize - message_count + Weight(Producers, t, s)
    BY <1>1, <1>2, <1>3
  <2> QED
    BY <1>1, <1>4, <2>1, SideMove
<1> QED
  BY <1>5, <1>6 DEF NoLostWakeup

\* A worker that moves does not change which slots are in use.
LEMMA SlotsKept ==
  ASSUME TypeOK, SlotsFree, NEW t \in Threads, NEW s \in States, pc[t] # "none",
         pc' = Moved(pc, t, s), UNCHANGED <<mainPc, amount>>
  PROVE  SlotsFree'
<1> SUFFICES ASSUME NEW k \in Kinds, NEW i \in 0 .. MaxAmount(k) - 1,
                    i >= amount[k], ~(Leaving(k) /\ i = amount[k])
             PROVE  pc'[<<k, i>>] = "none"
  BY DEF SlotsFree, Leaving
<1>1. pc[<<k, i>>] = "none"
  BY DEF SlotsFree
<1>2. <<k, i>> \in Threads
  BY SlotIsThread, MonitorAssumption DEF MaxAmount
<1> QED
  BY <1>1, <1>2 DEF Moved, TypeOK

\* The statements that touch neither the mutex nor the queue.
LEMMA LocalStep ==
  ASSUME IInv, NEW t \in Threads, UNCHANGED <<mainPc, amount, cancelled>>,
         \/ t \in Producers /\ MakeMessage(t)
         \/ Proceed(t) \/ Repeat(t) \/ CancelledAsleep(t) \/ SpuriousWakeup(t)
  PROVE  IInv'
<1>1. PICK s \in States \ {"wait"} :
        /\ pc' = Moved(pc, t, s) /\ pc[t] # "none"
        /\ pc[t] \in AwakeStates => s \in AwakeStates
        /\ pc[t] # "signal"
        /\ pc[t] \in {"check", "access", "signal", "unlock"}
             <=> s \in {"check", "access", "signal", "unlock"}
        /\ s = "access" => ~Blocked(t)
  BY DEF MakeMessage, Proceed, Repeat, CancelledAsleep, SpuriousWakeup, Goto, Moved, States,
         AwakeStates
<1>2. UNCHANGED <<mutex, queueVars>> /\ msg' \in [Threads -> Message \cup {NoMessage}]
  BY DEF IInv, TypeOK, MakeMessage, Proceed, Repeat, CancelledAsleep, SpuriousWakeup
<1>3. TypeOK'
  BY <1>1, <1>2 DEF IInv, TypeOK, queueVars, Moved
<1>4. MutexDiscipline'
  BY <1>1, <1>2 DEF IInv, TypeOK, MutexDiscipline, InCritical, Moved
<1>5. AccessReady'
  BY <1>1, <1>2 DEF IInv, TypeOK, AccessReady, Blocked, queueVars, Moved
<1>6. RingConsistent' /\ NeverUnderflows'
  BY <1>2 DEF IInv, RingConsistent, NeverUnderflows, queueVars
<1>7. SlotsFree'
  BY <1>1, SlotsKept DEF IInv
<1>8. NoLostWakeup'
  BY <1>1, <1>2, QuietMove DEF IInv, queueVars
<1> QED
  BY <1>3, <1>4, <1>5, <1>6, <1>7, <1>8 DEF IInv

\* The statements that take or release the mutex, except pthread_cond_wait.
LEMMA MutexStep ==
  ASSUME IInv, NEW t \in Threads, UNCHANGED <<mainPc, amount, cancelled>>,
         Lock(t) \/ Unlock(t) \/ Die(t)
  PROVE  IInv'
<1>1. PICK s \in States \ {"wait"} :
        /\ pc' = Moved(pc, t, s) /\ pc[t] # "none"
        /\ pc[t] \in AwakeStates => s \in AwakeStates
        /\ pc[t] # "signal" /\ s # "access"
        /\ \/ mutex = Nobody /\ mutex' = t /\ s = "check"
           \/ pc[t] = "unlock" /\ mutex' = Nobody /\ s = "sleep"
           \/ mutex = Nobody /\ mutex' = Ended /\ s = "dead"
  BY DEF Lock, Unlock, Die, Goto, Moved, States, AwakeStates
<1>2. UNCHANGED <<msg, queueVars>>
  BY DEF Lock, Unlock, Die
<1>3. TypeOK'
  BY <1>1, <1>2 DEF IInv, TypeOK, queueVars, Moved
<1>4. MutexDiscipline'
  BY <1>1, MonitorAssumption DEF IInv, TypeOK, MutexDiscipline, InCritical, Moved
<1>5. AccessReady'
  BY <1>1, <1>2 DEF IInv, TypeOK, AccessReady, Blocked, queueVars, Moved
<1>6. RingConsistent' /\ NeverUnderflows'
  BY <1>2 DEF IInv, RingConsistent, NeverUnderflows, queueVars
<1>7. SlotsFree'
  BY <1>1, SlotsKept DEF IInv
<1>8. NoLostWakeup'
  BY <1>1, <1>2, QuietMove DEF IInv, queueVars
<1> QED
  BY <1>3, <1>4, <1>5, <1>6, <1>7, <1>8 DEF IInv

\* A thread falls asleep only when nothing is available to threads of its kind.
LEMMA WaitStep ==
  ASSUME IInv, NEW t \in Threads, UNCHANGED <<mainPc, amount, cancelled>>, Wait(t)
  PROVE  IInv'
<1>1. PICK s \in {"wait", "dying"} : pc' = Moved(pc, t, s)
  BY DEF Wait, Goto, Moved
<1>2. /\ pc[t] = "check" /\ mutex = t /\ mutex' = Nobody /\ Blocked(t)
      /\ UNCHANGED <<msg, queueVars>> /\ s \in States
  BY DEF Wait, Goto, IInv, MutexDiscipline, InCritical, States
<1>3. TypeOK'
  BY <1>1, <1>2 DEF IInv, TypeOK, queueVars, Moved
<1>4. MutexDiscipline'
  BY <1>1, <1>2, MonitorAssumption DEF IInv, TypeOK, MutexDiscipline, InCritical, Moved
<1>5. AccessReady'
  BY <1>1, <1>2 DEF IInv, TypeOK, AccessReady, Blocked, queueVars, Moved
<1>6. RingConsistent' /\ NeverUnderflows'
  BY <1>2 DEF IInv, RingConsistent, NeverUnderflows, queueVars
<1>7. SlotsFree'
  BY <1>1, <1>2, SlotsKept DEF IInv
<1>8. NoLostWakeup'
  <2>1. /\ pc \in [Threads -> States]
        /\ message_count \in Int /\ bufferSize - message_count \in Int
        /\ message_count' = message_count
    BY <1>2, MonitorAssumption DEF IInv, TypeOK, queueVars
  <2>2. /\ WakeupsCover(pc, Consumers, Producers, message_count)
        /\ WakeupsCover(pc, Producers, Consumers, bufferSize - message_count)
    BY DEF IInv, NoLostWakeup
  <2>3. \A Q : \A S \in SUBSET Threads :
          IsFiniteSet(S) => Cardinality(At(Moved(pc, t, s), S, Q)) \in Nat
    <3> TAKE Q
    <3> TAKE S \in SUBSET Threads
    <3> QED
      BY FS_Subset, FS_CardinalityType DEF At
  <2>4. \A S \in {Producers, Consumers}, T \in {Producers, Consumers} :
          WakeupsCover(Moved(pc, t, s), S, T, 0)
    BY <2>3, ThreadSets DEF WakeupsCover
  <2>5. CASE t \in Producers
    <3>1. bufferSize - message_count = 0 /\ t \notin Consumers
      BY <1>2, <2>1, <2>5, ThreadSets, MonitorAssumption DEF Blocked
    <3>2. WakeupsCover(pc', Consumers, Producers, message_count)
      <4>1. Weight(Consumers, t, pc[t]) = 0 /\ Weight(Consumers, t, s) = 0
        BY <1>2, <3>1 DEF Weight
      <4> QED
        BY <1>1, <1>2, <2>1, <2>2, <3>1, <4>1, SideMove
    <3> QED
      BY <1>1, <2>1, <2>4, <3>1, <3>2 DEF NoLostWakeup
  <2>6. CASE t \in Consumers
    <3>1. message_count = 0 /\ t \notin Producers
      BY <1>2, <2>1, <2>6, ThreadSets, MonitorAssumption DEF Blocked
    <3>2. WakeupsCover(pc', Producers, Consumers, bufferSize - message_count)
      <4>1. Weight(Producers, t, pc[t]) = 0 /\ Weight(Producers, t, s) = 0
        BY <1>2, <3>1 DEF Weight
      <4> QED
        BY <1>1, <1>2, <2>1, <2>2, <3>1, <4>1, SideMove
    <3> QED
      BY <1>1, <2>1, <2>4, <3>1, <3>2 DEF NoLostWakeup
  <2> QED
    BY <2>5, <2>6 DEF Threads
<1> QED
  BY <1>3, <1>4, <1>5, <1>6, <1>7, <1>8 DEF IInv

\* A thread that has put or got a message owes a signal for the slot or message
\* it has made available.
LEMMA AccessMove ==
  ASSUME IInv, NEW t \in Threads, pc[t] = "access", pc' = Moved(pc, t, "signal"),
         message_count' = message_count + (IF t \in Producers THEN 1 ELSE -1)
  PROVE  NoLostWakeup'
<1>1. /\ message_count \in Int /\ message_count' \in Int /\ pc \in [Threads -> States]
      /\ bufferSize \in Int /\ "signal" \in States
  BY MonitorAssumption DEF IInv, TypeOK, States
<1>2. /\ WakeupsCover(pc, Consumers, Producers, message_count)
      /\ WakeupsCover(pc, Producers, Consumers, bufferSize - message_count)
  BY DEF IInv, NoLostWakeup
<1>3. message_count' + Weight(Consumers, t, pc[t]) <= message_count + Weight(Consumers, t, "signal")
  BY <1>1, ThreadSets DEF Weight, AwakeStates, Threads
<1>4. bufferSize - message_count' + Weight(Producers, t, pc[t])
        <= bufferSize - message_count + Weight(Producers, t, "signal")
  BY <1>1, ThreadSets DEF Weight, AwakeStates, Threads
<1>5. WakeupsCover(pc', Consumers, Producers, message_count')
  BY <1>1, <1>2, <1>3, SideMove
<1>6. WakeupsCover(pc', Producers, Consumers, bufferSize - message_count')
  <2>1. bufferSize - message_count \in Int /\ bufferSize - message_count' \in Int
    BY <1>1
  <2> QED
    BY <1>1, <1>2, <1>4, <2>1, SideMove
<1> QED
  BY <1>5, <1>6 DEF NoLostWakeup

LEMMA PutStep ==
  ASSUME IInv, NEW t \in Producers, UNCHANGED <<mainPc, amount, cancelled>>, PutMessage(t)
  PROVE  IInv'
<1>1. /\ t \in Threads /\ pc[t] = "access" /\ pc' = Moved(pc, t, "signal") /\ mutex = t
      /\ mutex' = mutex /\ msg' = msg
  BY DEF PutMessage, Goto, Moved, IInv, MutexDiscipline, InCritical, Threads
<1>2. message_count # bufferSize /\ message_count' = message_count + 1
  BY <1>1 DEF IInv, AccessReady, Blocked, PutMessage
<1>3. TypeOK'
  <2>1. /\ tail' \in 0 .. bufferSize /\ message_count' \in 0 .. bufferSize
        /\ add_count' \in 0 .. CountMod - 1 /\ UNCHANGED <<head, extract_count>>
    BY <1>2, MonitorAssumption DEF IInv, TypeOK, PutMessage, Wrap, Inc
  <2>2. buffer' \in [Slots -> Message \cup {NoMessage}]
    BY <1>1 DEF IInv, TypeOK, PutMessage
  <2>3. pc' \in [Threads -> States]
    BY <1>1 DEF IInv, TypeOK, Moved, States
  <2> QED
    BY <1>1, <2>1, <2>2, <2>3 DEF IInv, TypeOK
<1>4. MutexDiscipline'
  BY <1>1 DEF IInv, TypeOK, MutexDiscipline, InCritical, Moved
<1>5. AccessReady'
  BY <1>1 DEF IInv, TypeOK, MutexDiscipline, InCritical, AccessReady, Moved
<1>6. RingConsistent' /\ NeverUnderflows'
  BY <1>2, MonitorAssumption
  DEF IInv, TypeOK, RingConsistent, NeverUnderflows, PutMessage, Wrap, Inc
<1>7. SlotsFree'
  BY <1>1, SlotsKept DEF IInv, States
<1>8. NoLostWakeup'
  BY <1>1, <1>2, AccessMove
<1> QED
  BY <1>3, <1>4, <1>5, <1>6, <1>7, <1>8 DEF IInv

LEMMA GetStep ==
  ASSUME IInv, NEW t \in Consumers, UNCHANGED <<amount, cancelled>>, GetMessage(t)
  PROVE  IInv'
<1>1. t \in Threads /\ pc[t] = "access" /\ mutex = t /\ t \notin Producers
  BY ThreadSets DEF GetMessage, Goto, IInv, MutexDiscipline, InCritical, Threads
<1>2. message_count # 0
  BY <1>1 DEF IInv, AccessReady, Blocked
<1>3. /\ pc' = Moved(pc, t, "signal") /\ mutex' = mutex /\ mainPc' = mainPc
      /\ message_count' = message_count - 1
  BY <1>2 DEF GetMessage, Goto, Moved
<1>4. TypeOK'
  <2>1. /\ head' \in 0 .. bufferSize /\ message_count' \in 0 .. bufferSize
        /\ extract_count' \in 0 .. CountMod - 1 /\ UNCHANGED <<buffer, tail, add_count>>
    BY <1>2, MonitorAssumption DEF IInv, TypeOK, GetMessage, Wrap, Inc
  <2>2. msg' \in [Threads -> Message \cup {NoMessage}]
    <3>1. Wrap(head) \in Slots
      BY MonitorAssumption DEF IInv, TypeOK, Wrap, Slots
    <3>2. msg' = [msg EXCEPT ![t] = buffer[Wrap(head)]]
      BY <1>2 DEF GetMessage
    <3> QED
      BY <3>1, <3>2 DEF IInv, TypeOK
  <2>3. pc' \in [Threads -> States]
    BY <1>3 DEF IInv, TypeOK, Moved, States
  <2> QED
    BY <1>3, <2>1, <2>2, <2>3 DEF IInv, TypeOK
<1>5. MutexDiscipline'
  BY <1>1, <1>3 DEF IInv, TypeOK, MutexDiscipline, InCritical, Moved
<1>6. AccessReady'
  BY <1>1, <1>3 DEF IInv, TypeOK, MutexDiscipline, InCritical, AccessReady, Moved
<1>7. RingConsistent' /\ NeverUnderflows'
  BY <1>2, <1>3, MonitorAssumption
  DEF IInv, TypeOK, RingConsistent, NeverUnderflows, GetMessage, Wrap, Inc
<1>8. SlotsFree'
  BY <1>1, <1>3, SlotsKept DEF IInv, States
<1>9. NoLostWakeup'
  <2>1. message_count' = message_count + (-1)
    BY <1>3 DEF IInv, TypeOK
  <2> QED
    BY <1>1, <1>3, <2>1, AccessMove
<1> QED
  BY <1>4, <1>5, <1>6, <1>7, <1>8, <1>9 DEF IInv

\* A signal hands what it announces to the thread it wakes; if nobody waits,
\* nothing is owed.  T is the kind of the signalling thread, S the other kind.
LEMMA SignalMove ==
  ASSUME NEW S, NEW T, <<S, T>> \in {<<Producers, Consumers>>, <<Consumers, Producers>>},
         pc \in [Threads -> States], NEW t \in T, pc[t] = "signal",
         NEW forS \in Int, NEW forT \in Int,
         WakeupsCover(pc, S, T, forS), WakeupsCover(pc, T, S, forT),
         \/ Waiting(S) = {} /\ pc' = Moved(pc, t, "unlock")
         \/ \E w \in Waiting(S) : pc' = Moved(Moved(pc, w, "relock"), t, "unlock")
  PROVE  WakeupsCover(pc', S, T, forS) /\ WakeupsCover(pc', T, S, forT)
<1>1. t \in Threads /\ t \notin S /\ {"unlock", "relock"} \subseteq States
  BY ThreadSets DEF Threads, States
<1>2. \A u, R : Weight(R, u, "unlock") = 0
  BY DEF Weight, AwakeStates
<1>3. Weight(T, t, "signal") = 0 /\ Weight(S, t, "signal") = 1
  BY <1>1 DEF Weight, AwakeStates
<1>4. CASE Waiting(S) = {} /\ pc' = Moved(pc, t, "unlock")
  <2>1. At(pc', S, {"wait"}) = {}
    BY <1>1, <1>4 DEF At, Waiting, Moved
  <2>2. WakeupsCover(pc', T, S, forT)
    BY <1>1, <1>2, <1>3, <1>4, SideMove
  <2> QED
    BY <2>1, <2>2 DEF WakeupsCover
<1>5. ASSUME NEW w \in Waiting(S), pc' = Moved(Moved(pc, w, "relock"), t, "unlock")
      PROVE  WakeupsCover(pc', S, T, forS) /\ WakeupsCover(pc', T, S, forT)
  <2> DEFINE f == Moved(pc, w, "relock")
  <2>1. /\ w \in Threads /\ w \in S /\ w \notin T /\ w # t /\ pc[w] = "wait"
        /\ f \in [Threads -> States] /\ f[t] = "signal"
    BY <1>1, ThreadSets DEF Waiting, At, Threads, Moved
  <2>2. /\ Weight(S, w, "wait") = 0 /\ Weight(S, w, "relock") = 1
        /\ Weight(T, w, "wait") = 0 /\ Weight(T, w, "relock") = 0
    BY <2>1 DEF Weight, AwakeStates
  <2>3. WakeupsCover(f, S, T, forS + 1)
    <3>1. forS + 1 \in Int /\ forS + 1 + Weight(S, w, pc[w]) <= forS + Weight(S, w, "relock")
      BY <2>1, <2>2
    <3> QED
      BY <1>1, <2>1, <3>1, SideMove
  <2>4. WakeupsCover(f, T, S, forT)
    BY <1>1, <2>1, <2>2, SideMove
  <2> HIDE DEF f
  <2>5. WakeupsCover(pc', S, T, forS)
    <3>1. forS + Weight(S, t, f[t]) <= forS + 1 + Weight(S, t, "unlock")
      BY <1>2, <1>3, <2>1
    <3>2. WakeupsCover(Moved(f, t, "unlock"), S, T, forS)
      BY <1>1, <2>1, <2>3, <3>1, SideMove
    <3> QED
      BY <1>5, <3>2 DEF f
  <2>6. WakeupsCover(pc', T, S, forT)
    <3>1. forT + Weight(T, t, f[t]) <= forT + Weight(T, t, "unlock")
      BY <1>2, <1>3, <2>1
    <3>2. WakeupsCover(Moved(f, t, "unlock"), T, S, forT)
      BY <1>1, <2>1, <2>4, <3>1, SideMove
    <3> QED
      BY <1>5, <3>2 DEF f
  <2> QED
    BY <2>5, <2>6
<1> QED
  BY <1>4, <1>5

LEMMA SignalStep ==
  ASSUME IInv, NEW t \in Threads, UNCHANGED <<mainPc, amount, cancelled>>, Signal(t)
  PROVE  IInv'
<1> DEFINE S == IF t \in Producers THEN Consumers ELSE Producers
           T == IF t \in Producers THEN Producers ELSE Consumers
<1>1. /\ pc[t] = "signal" /\ mutex = t /\ UNCHANGED <<msg, mutex, queueVars>>
      /\ pc \in [Threads -> States]
      /\ <<S, T>> \in {<<Producers, Consumers>>, <<Consumers, Producers>>} /\ t \in T
      /\ t \notin S /\ S \subseteq Threads
  BY ThreadSets
  DEF Signal, WakeOneOf, IInv, TypeOK, MutexDiscipline, InCritical, Threads
<1>2. \/ Waiting(S) = {} /\ pc' = Moved(pc, t, "unlock")
      \/ \E w \in Waiting(S) : pc' = Moved(Moved(pc, w, "relock"), t, "unlock")
  <2>1. CASE Waiting(S) = {}
    BY <2>1 DEF Signal, WakeOneOf, Moved
  <2>2. ASSUME NEW w \in Waiting(S), pc' = [pc EXCEPT ![t] = "unlock", ![w] = "relock"]
        PROVE  pc' = Moved(Moved(pc, w, "relock"), t, "unlock")
    <3>1. w # t /\ w \in Threads
      BY <1>1 DEF Waiting, At
    <3> QED
      BY <1>1, <2>2, <3>1 DEF Moved
  <2> QED
    BY <2>1, <2>2 DEF Signal, WakeOneOf
<1> HIDE DEF S, T
<1>3. /\ pc' \in [Threads -> States]
      /\ pc'[t] = "unlock"
      /\ \A u \in Threads \ {t} : pc'[u] = pc[u] \/ (pc[u] = "wait" /\ pc'[u] = "relock")
  <2>1. CASE pc' = Moved(pc, t, "unlock")
    BY <1>1, <2>1 DEF Moved, States
  <2>2. ASSUME NEW w \in Waiting(S), pc' = Moved(Moved(pc, w, "relock"), t, "unlock")
        PROVE  <1>3!1 /\ <1>3!2 /\ <1>3!3
    <3>1. w # t /\ w \in Threads /\ pc[w] = "wait"
      BY <1>1 DEF Waiting, At
    <3> QED
      BY <1>1, <2>2, <3>1 DEF Moved, States
  <2> QED
    BY <1>2, <2>1, <2>2
<1>4. TypeOK'
  BY <1>1, <1>3 DEF IInv, TypeOK, queueVars
<1>5. MutexDiscipline'
  <2>1. InCritical(t) /\ InCritical(t)'
    BY <1>1, <1>3 DEF InCritical
  <2>2. \A u \in Threads \ {t} : InCritical(u)' <=> InCritical(u)
    BY <1>3 DEF InCritical
  <2> QED
    BY <1>1, <2>1, <2>2 DEF IInv, MutexDiscipline
<1>6. AccessReady'
  BY <1>1, <1>3 DEF IInv, AccessReady, Blocked, queueVars
<1>7. RingConsistent' /\ NeverUnderflows'
  BY <1>1 DEF IInv, RingConsistent, NeverUnderflows, queueVars
<1>8. SlotsFree'
  <2> SUFFICES ASSUME NEW k \in Kinds, NEW i \in 0 .. MaxAmount(k) - 1,
                      i >= amount[k], ~(Leaving(k) /\ i = amount[k])
               PROVE  pc'[<<k, i>>] = "none"
    BY DEF SlotsFree, Leaving
  <2>1. pc[<<k, i>>] = "none"
    BY DEF IInv, SlotsFree
  <2>2. <<k, i>> \in Threads
    BY SlotIsThread, MonitorAssumption DEF MaxAmount
  <2> QED
    BY <1>1, <1>3, <2>1, <2>2
<1>9. NoLostWakeup'
  <2>1. /\ message_count \in Int /\ bufferSize - message_count \in Int
        /\ message_count' = message_count
    BY <1>1, MonitorAssumption DEF IInv, TypeOK, queueVars
  <2>2. /\ WakeupsCover(pc, Consumers, Producers, message_count)
        /\ WakeupsCover(pc, Producers, Consumers, bufferSize - message_count)
    BY DEF IInv, NoLostWakeup
  <2>3. CASE t \in Producers
    <3>1. S = Consumers /\ T = Producers
      BY <2>3 DEF S, T
    <3> QED
      BY <1>1, <1>2, <2>1, <2>2, <3>1, SignalMove DEF NoLostWakeup
  <2>4. CASE t \notin Producers
    <3>1. S = Producers /\ T = Consumers
      BY <2>4 DEF S, T
    <3> QED
      BY <1>1, <1>2, <2>1, <2>2, <3>1, SignalMove DEF NoLostWakeup
  <2> QED
    BY <2>3, <2>4
<1> QED
  BY <1>4, <1>5, <1>6, <1>7, <1>8, <1>9 DEF IInv

\* Creating a thread fills a slot that is free.
LEMMA CreateStep ==
  ASSUME IInv, NEW k \in Kinds, NEW start \in {"make", "lock"}, Create(k, start)
  PROVE  IInv'
<1> DEFINE t == <<k, amount[k]>>
<1>1. amount[k] \in 0 .. MaxAmount(k) - 1 /\ t \in Threads /\ start \in States \ {"wait"}
  BY SlotIsThread, MonitorAssumption DEF Create, IInv, TypeOK, MaxAmount, States
<1>2. pc[t] = "none"
  BY <1>1 DEF IInv, SlotsFree, Create, Leaving
<1>3. /\ pc' = Moved(pc, t, start) /\ UNCHANGED <<mainPc, cancelled, mutex, queueVars>>
      /\ msg' = [msg EXCEPT ![t] = NoMessage] /\ amount' = [amount EXCEPT ![k] = @ + 1]
  BY DEF Create, Moved
<1> HIDE DEF t
<1>4. TypeOK'
  <2>1. amount' \in [Kinds -> Nat] /\ \A j \in Kinds : amount'[j] <= MaxAmount(j)
    BY <1>1, <1>3, MonitorAssumption DEF IInv, TypeOK, MaxAmount
  <2> QED
    BY <1>1, <1>3, <2>1 DEF IInv, TypeOK, queueVars, Moved
<1>5. MutexDiscipline'
  BY <1>1, <1>2, <1>3 DEF IInv, TypeOK, MutexDiscipline, InCritical, Moved
<1>6. AccessReady'
  BY <1>1, <1>3 DEF IInv, TypeOK, AccessReady, Blocked, queueVars, Moved
<1>7. RingConsistent' /\ NeverUnderflows'
  BY <1>3 DEF IInv, RingConsistent, NeverUnderflows, queueVars
<1>8. SlotsFree'
  <2> SUFFICES ASSUME NEW j \in Kinds, NEW i \in 0 .. MaxAmount(j) - 1, i >= amount'[j]
               PROVE  pc'[<<j, i>>] = "none"
    BY DEF SlotsFree
  <2>1. ~Leaving(j)
    BY DEF Create, Leaving
  <2>2. i >= amount[j] /\ <<j, i>> # t
    BY <1>1, <1>3 DEF IInv, TypeOK, t
  <2>3. <<j, i>> \in Threads
    BY SlotIsThread, MonitorAssumption DEF MaxAmount
  <2> QED
    BY <1>1, <1>3, <2>1, <2>2, <2>3 DEF IInv, SlotsFree, TypeOK, Moved
<1>9. NoLostWakeup'
  <2>1. message_count' = message_count
    BY <1>3 DEF queueVars
  <2> QED
    BY <1>1, <1>2, <1>3, <2>1, QuietMove DEF IInv, AwakeStates
<1> QED
  BY <1>4, <1>5, <1>6, <1>7, <1>8, <1>9 DEF IInv

\* Cancelling the youngest thread of a kind: its slot stays in use until it is joined.
LEMMA CancelStep ==
  ASSUME IInv, NEW k \in Kinds, NEW next, CancelLast(k, next), mainPc \in {"menu", "exit"},
         next \in IF k = "P" THEN {"joinP", "exitJoinP"} ELSE {"joinC", "exitJoinC"}
  PROVE  IInv'
<1>1. amount[k] \in 1 .. MaxAmount(k) /\ Last(k) \in Threads
  BY SlotIsThread, MonitorAssumption DEF CancelLast, IInv, TypeOK, MaxAmount, Last
<1>2. /\ UNCHANGED <<pc, msg, mutex, queueVars>> /\ mainPc' = next
      /\ amount' = [amount EXCEPT ![k] = @ - 1] /\ cancelled' = cancelled \cup {Last(k)}
  BY DEF CancelLast
<1>3. TypeOK'
  <2>1. amount' \in [Kinds -> Nat] /\ \A j \in Kinds : amount'[j] <= MaxAmount(j)
    BY <1>1, <1>2, MonitorAssumption DEF IInv, TypeOK, MaxAmount
  <2> QED
    BY <1>1, <1>2, <2>1 DEF IInv, TypeOK, queueVars, MainStates
<1>4. MutexDiscipline' /\ AccessReady' /\ RingConsistent' /\ NoLostWakeup'
  BY <1>2 DEF IInv, MutexDiscipline, InCritical, AccessReady, Blocked, RingConsistent,
              NoLostWakeup, queueVars
<1>5. NeverUnderflows'
  BY <1>2 DEF NeverUnderflows
<1>6. SlotsFree'
  <2> SUFFICES ASSUME NEW j \in Kinds, NEW i \in 0 .. MaxAmount(j) - 1, i >= amount'[j],
                      ~(Leaving(j)' /\ i = amount'[j])
               PROVE  pc[<<j, i>>] = "none"
    BY <1>2 DEF SlotsFree
  <2>1. i >= amount[j]
    BY <1>1, <1>2 DEF IInv, TypeOK, Leaving, Kinds
  <2>2. ~Leaving(j)
    BY DEF Leaving
  <2> QED
    BY <2>1, <2>2 DEF IInv, SlotsFree
<1> QED
  BY <1>3, <1>4, <1>5, <1>6 DEF IInv

\* A joined thread has ended, so its slot is free.
LEMMA JoinStep ==
  ASSUME IInv, NEW k \in Kinds, NEW at, NEW next \in {"menu", "exit"}, Join(k, at, next),
         at \in IF k = "P" THEN {"joinP", "exitJoinP"} ELSE {"joinC", "exitJoinC"}
  PROVE  IInv'
<1> DEFINE t == Joined(k)
<1>1. pc[t] = "dead" /\ mainPc' = next /\ UNCHANGED <<amount, msg, mutex, queueVars>>
      /\ cancelled' = cancelled \ {t} /\ pc' = [pc EXCEPT ![t] = "none"]
  BY DEF Join
<1>2. pc' \in [Threads -> States] /\ \A u \in Threads : pc'[u] = IF u = t THEN "none" ELSE pc[u]
  BY <1>1 DEF IInv, TypeOK, States
<1>3. TypeOK'
  BY <1>1, <1>2 DEF IInv, TypeOK, queueVars, MainStates
<1>4. MutexDiscipline' /\ AccessReady'
  BY <1>1, <1>2 DEF IInv, MutexDiscipline, InCritical, AccessReady, Blocked, queueVars
<1>5. RingConsistent' /\ NeverUnderflows'
  BY <1>1 DEF IInv, RingConsistent, NeverUnderflows, queueVars
<1>6. SlotsFree'
  <2> SUFFICES ASSUME NEW j \in Kinds, NEW i \in 0 .. MaxAmount(j) - 1, i >= amount[j]
               PROVE  pc'[<<j, i>>] = "none"
    BY <1>1 DEF SlotsFree
  <2>1. <<j, i>> \in Threads
    BY SlotIsThread, MonitorAssumption DEF MaxAmount
  <2>2. <<j, i>> = t \/ ~(Leaving(j) /\ i = amount[j])
    BY DEF Join, Leaving, Joined, Kinds
  <2> QED
    BY <1>2, <2>1, <2>2 DEF IInv, SlotsFree
<1>7. NoLostWakeup'
  <2>1. \A S \in {Producers, Consumers}, Q \in {{"wait"}, AwakeStates, {"signal"}} :
          At(pc', S, Q) = At(pc, S, Q)
    BY <1>1, <1>2, ThreadSets DEF At, AwakeStates
  <2> QED
    BY <1>1, <2>1 DEF IInv, NoLostWakeup, WakeupsCover, queueVars
<1> QED
  BY <1>3, <1>4, <1>5, <1>6, <1>7 DEF IInv

LEMMA MainStep == IInv /\ Main => IInv'
<1> SUFFICES ASSUME IInv, Main PROVE IInv'
  OBVIOUS
<1>1. CASE CreateProducer \/ CreateConsumer
  BY <1>1, CreateStep DEF CreateProducer, CreateConsumer, Kinds
<1>2. CASE RemoveProducer \/ RemoveConsumer \/ AtexitCancel
  BY <1>2, CancelStep DEF RemoveProducer, RemoveConsumer, AtexitCancel, Kinds
<1>3. CASE JoinRemoved \/ AtexitJoin
  BY <1>3, JoinStep DEF JoinRemoved, AtexitJoin, Kinds
<1>4. CASE Quit \/ AtexitDestroy
  <2>1. /\ UNCHANGED <<amount, pc, msg, cancelled, mutex, queueVars>>
        /\ mainPc' \in {"exit", "done", "failed"} /\ \A k \in Kinds : ~Leaving(k)
    BY <1>4 DEF Quit, AtexitDestroy, Leaving
  <2> QED
    BY <2>1 DEF IInv, TypeOK, MutexDiscipline, InCritical, AccessReady, Blocked, RingConsistent,
                NeverUnderflows, SlotsFree, NoLostWakeup, queueVars, MainStates
<1> QED
  BY <1>1, <1>2, <1>3, <1>4 DEF Main

LEMMA InvStep == IInv /\ [Next]_vars => IInv'
<1> SUFFICES ASSUME IInv, [Next]_vars PROVE IInv'
  OBVIOUS
<1>1. CASE Main
  BY <1>1, MainStep
<1>2. CASE \E t \in Threads : WorkerStep(t) /\ UNCHANGED <<mainPc, amount, cancelled>>
  BY <1>2, LocalStep, MutexStep, WaitStep, SignalStep, PutStep DEF WorkerStep
<1>3. CASE \E c \in Consumers : GetMessage(c) /\ UNCHANGED <<amount, cancelled>>
  BY <1>3, GetStep
<1>4. CASE UNCHANGED vars
  BY <1>4 DEF vars, queueVars, IInv, TypeOK, MutexDiscipline, InCritical, AccessReady, Blocked,
              RingConsistent, NeverUnderflows, SlotsFree, Leaving, NoLostWakeup
<1> QED
  BY <1>1, <1>2, <1>3, <1>4, NextCases

LEMMA Invariance == Spec => []IInv
BY InvInit, InvStep, PTL DEF Spec

\* The variables of lab7/part_1 keep their types: in particular message_count,
\* head and tail never leave the buffer, whatever threads are deleted.
THEOREM TypeCorrect == Spec => []TypeOK
<1>1. IInv => TypeOK
  BY DEF IInv
<1> QED
  BY <1>1, Invariance, PTL

\* At most one thread is between pthread_mutex_lock and pthread_mutex_unlock, and
\* it is the owner of the mutex.
THEOREM MutualExclusion == Spec => []MutexDiscipline
<1>1. IInv => MutexDiscipline
  BY DEF IInv
<1> QED
  BY <1>1, Invariance, PTL

\* head, tail and message_count of the queue always describe the same messages.
THEOREM RingStaysConsistent == Spec => []RingConsistent
<1>1. IInv => RingConsistent
  BY DEF IInv
<1> QED
  BY <1>1, Invariance, PTL

\* getMessage never meets an empty queue, so its exit(1) cannot happen.
THEOREM GetNeverAborts == Spec => []NeverUnderflows
<1>1. IInv => NeverUnderflows
  BY DEF IInv
<1> QED
  BY <1>1, Invariance, PTL

\* However many producers and consumers sleep, every message and every free slot
\* that could end a sleep is matched by a thread already on its way.
THEOREM WakeupsNotLost == Spec => []NoLostWakeup
<1>1. IInv => NoLostWakeup
  BY DEF IInv
<1> QED
  BY <1>1, Invariance, PTL

-----------------------------------------------------------------------------
(* The ring buffer implements the bounded channel *)

\* A producer between createMessage and putMessage has a message.
MessageMade == \A p \in Producers : HoldsMessage(p) => msg[p] \in Message

\* The position in buffer of the i-th of the messages that start at h, and the
\* sequence of the first n of them.
Index(h, i) == IF h + i - 1 < bufferSize THEN h + i - 1 ELSE h + i - 1 - bufferSize
RingOf(b, h, n) == [i \in 1 .. n |-> b[Index(h, i)]]

LEMMA RingType ==
  ASSUME NEW b \in [Slots -> Message \cup {NoMessage}], NEW h \in 0 .. bufferSize,
         NEW n \in 0 .. bufferSize
  PROVE  /\ RingOf(b, h, n) \in Seq(Message \cup {NoMessage})
         /\ Len(RingOf(b, h, n)) = n
         /\ \A i \in 1 .. n : Index(h, i) \in Slots /\ RingOf(b, h, n)[i] = b[Index(h, i)]
<1>1. \A i \in 1 .. n : Index(h, i) \in Slots
  BY MonitorAssumption DEF Index, Slots
<1> QED
  BY <1>1 DEF RingOf

LEMMA ContentsIsRing ==
  /\ Contents = RingOf(buffer, head, message_count)
  /\ Contents' = RingOf(buffer', head', message_count')
BY DEF Contents, RingOf, Index

\* putMessage appends its message to the queue's contents.
LEMMA PutAppends ==
  ASSUME IInv, IInv', NEW p \in Producers, message_count # bufferSize, PutMessage(p)
  PROVE  Contents' = Append(Contents, msg[p]) /\ Len(Contents) < bufferSize
<1> DEFINE C == RingOf(buffer, head, message_count)
           D == RingOf(buffer', head, message_count + 1)
           w == Wrap(tail)
           m == msg[p]
<1>1. /\ TypeOK /\ TypeOK' /\ message_count' = message_count + 1 /\ head' = head
      /\ buffer' = [buffer EXCEPT ![w] = m] /\ w \in Slots /\ m \in Message \cup {NoMessage}
      /\ message_count \in Nat /\ message_count < bufferSize
  BY MonitorAssumption DEF IInv, TypeOK, PutMessage, Wrap, Slots, Threads
<1>2. /\ C \in Seq(Message \cup {NoMessage}) /\ Len(C) = message_count
      /\ \A i \in 1 .. message_count : Index(head, i) \in Slots /\ C[i] = buffer[Index(head, i)]
  <2>1. /\ buffer \in [Slots -> Message \cup {NoMessage}] /\ head \in 0 .. bufferSize
        /\ message_count \in 0 .. bufferSize
    BY <1>1 DEF TypeOK
  <2> QED
    BY <2>1, RingType
<1>3. /\ D \in Seq(Message \cup {NoMessage}) /\ Len(D) = message_count + 1
      /\ \A i \in 1 .. message_count + 1 : D[i] = buffer'[Index(head, i)]
  <2>1. /\ buffer' \in [Slots -> Message \cup {NoMessage}] /\ head \in 0 .. bufferSize
        /\ message_count + 1 \in 0 .. bufferSize
    BY <1>1, MonitorAssumption DEF TypeOK
  <2> QED
    BY <2>1, RingType
<1>4. \A i \in 1 .. message_count : Index(head, i) # w
  BY <1>1, MonitorAssumption DEF IInv, TypeOK, RingConsistent, Index, Wrap
<1>5. Index(head, message_count + 1) = w
  BY <1>1, MonitorAssumption DEF IInv, TypeOK, RingConsistent, Index, Wrap
<1>6. buffer'[w] = m /\ \A j \in Slots : j # w => buffer'[j] = buffer[j]
  BY <1>1 DEF TypeOK
<1> HIDE DEF C, D, w, m
<1>7. /\ Append(C, m) \in Seq(Message \cup {NoMessage}) /\ Len(Append(C, m)) = message_count + 1
      /\ \A i \in 1 .. message_count : Append(C, m)[i] = C[i]
      /\ Append(C, m)[message_count + 1] = m
  BY <1>1, <1>2, AppendProperties
<1>8. \A i \in 1 .. message_count + 1 : D[i] = Append(C, m)[i]
  <2> TAKE i \in 1 .. message_count + 1
  <2>1. CASE i = message_count + 1
    BY <1>3, <1>5, <1>6, <1>7, <2>1
  <2>2. CASE i \in 1 .. message_count
    BY <1>2, <1>3, <1>4, <1>6, <1>7, <2>2
  <2>3. i = message_count + 1 \/ i \in 1 .. message_count
    BY <1>1
  <2> QED
    BY <2>1, <2>2, <2>3
<1>9. D = Append(C, m)
  <2>1. Len(D) = Len(Append(C, m))
    BY <1>3, <1>7
  <2> QED
    BY <1>3, <1>7, <1>8, <2>1, SeqEqual
<1> QED
  BY <1>1, <1>2, <1>9, ContentsIsRing DEF C, D, m

\* getMessage takes the oldest message off the queue's contents.
LEMMA GetTakesFirst ==
  ASSUME IInv, IInv', NEW c \in Consumers, message_count # 0, GetMessage(c)
  PROVE  /\ Contents # <<>>
         /\ msg' = [msg EXCEPT ![c] = Head(Contents)]
         /\ Contents' = Tail(Contents)
<1> DEFINE C == RingOf(buffer, head, message_count)
           D == RingOf(buffer, head', message_count - 1)
<1>1. /\ TypeOK /\ TypeOK' /\ message_count' = message_count - 1 /\ buffer' = buffer
      /\ head' = Wrap(head) + 1 /\ msg' = [msg EXCEPT ![c] = buffer[Wrap(head)]]
      /\ message_count \in Nat \ {0}
  BY DEF IInv, TypeOK, GetMessage
<1>2. /\ C \in Seq(Message \cup {NoMessage}) /\ Len(C) = message_count
      /\ \A i \in 1 .. message_count : C[i] = buffer[Index(head, i)]
  <2>1. /\ buffer \in [Slots -> Message \cup {NoMessage}] /\ head \in 0 .. bufferSize
        /\ message_count \in 0 .. bufferSize
    BY <1>1 DEF TypeOK
  <2> QED
    BY <2>1, RingType
<1>3. /\ D \in Seq(Message \cup {NoMessage}) /\ Len(D) = message_count - 1
      /\ \A i \in 1 .. message_count - 1 : D[i] = buffer[Index(head', i)]
  <2>1. /\ buffer \in [Slots -> Message \cup {NoMessage}] /\ head' \in 0 .. bufferSize
        /\ message_count - 1 \in 0 .. bufferSize
    BY <1>1, MonitorAssumption DEF TypeOK
  <2> QED
    BY <2>1, RingType
<1>4. Index(head, 1) = Wrap(head)
  BY MonitorAssumption DEF IInv, TypeOK, Index, Wrap
<1>5. \A i \in 1 .. message_count - 1 : Index(head', i) = Index(head, i + 1)
  BY <1>1, MonitorAssumption DEF TypeOK, Index, Wrap
<1> HIDE DEF C, D
<1>6. C # <<>> /\ Head(C) = buffer[Wrap(head)]
  BY <1>1, <1>2, <1>4
<1>7. /\ Tail(C) \in Seq(Message \cup {NoMessage}) /\ Len(Tail(C)) = message_count - 1
      /\ \A i \in 1 .. message_count - 1 : Tail(C)[i] = C[i + 1]
  BY <1>2, <1>6, HeadTailProperties
<1>8. D = Tail(C)
  <2>1. \A i \in 1 .. message_count - 1 : D[i] = Tail(C)[i]
    BY <1>1, <1>2, <1>3, <1>5, <1>7
  <2>2. Len(D) = Len(Tail(C))
    BY <1>3, <1>7
  <2> QED
    BY <1>3, <1>7, <2>1, <2>2, SeqEqual
<1> QED
  BY <1>1, <1>6, <1>8, ContentsIsRing DEF C, D

\* No thread comes to hold a message, and only thread t may give its own up.
OnlyDrops(t) ==
  /\ \A u \in Threads : HoldsMessage(u)' => HoldsMessage(u) /\ msg'[u] = msg[u]
  /\ \A u \in Threads \ {t} : HoldsMessage(u) => HoldsMessage(u)'

\* Apart from createMessage, putMessage and getMessage, a worker keeps its
\* message or drops it.
LEMMA WorkerDrops ==
  ASSUME IInv, NEW t \in Threads,
         \/ Lock(t) \/ Wait(t) \/ Proceed(t) \/ Signal(t) \/ Unlock(t) \/ Repeat(t)
         \/ CancelledAsleep(t) \/ Die(t) \/ SpuriousWakeup(t)
  PROVE  OnlyDrops(t) /\ UNCHANGED queueVars
<1>1. UNCHANGED <<msg, queueVars>>
  BY DEF Lock, Wait, Proceed, Signal, WakeOneOf, Unlock, Repeat, CancelledAsleep, Die, SpuriousWakeup
<1>2. pc \in [Threads -> States]
  BY DEF IInv, TypeOK
<1>3. CASE Signal(t)
  <2>1. PICK W \in SUBSET Threads :
          /\ \A w \in W : pc[w] = "wait"
          /\ pc[t] = "signal"
          /\ \/ pc' = [pc EXCEPT ![t] = "unlock"]
             \/ \E w \in W : pc' = [pc EXCEPT ![t] = "unlock", ![w] = "relock"]
    BY <1>3, ThreadSets DEF Signal, WakeOneOf, Waiting, At
  <2>2. \A u \in Threads : \/ pc'[u] = pc[u]
                           \/ u = t /\ pc[u] = "signal" /\ pc'[u] = "unlock"
                           \/ pc[u] = "wait" /\ pc'[u] = "relock"
    BY <1>2, <2>1
  <2>3. \A u \in Threads : HoldsMessage(u)' <=> HoldsMessage(u)
    BY <2>2 DEF HoldsMessage
  <2> QED
    BY <1>1, <2>3 DEF OnlyDrops
<1>4. CASE Lock(t) \/ Wait(t) \/ Proceed(t) \/ Unlock(t) \/ Repeat(t)
           \/ CancelledAsleep(t) \/ Die(t) \/ SpuriousWakeup(t)
  <2>1. PICK s : /\ pc' = [pc EXCEPT ![t] = s]
                 /\ \/ pc[t] \in {"lock", "relock", "check", "wait"} /\ s \in {"check", "wait", "relock"}
                    \/ pc[t] = "check" /\ s = "access"
                    \/ pc[t] = "unlock" /\ s = "sleep"
                    \/ pc[t] = "sleep" /\ s = IF t \in Producers THEN "make" ELSE "lock"
                    \/ s \in {"dying", "dead"}
    BY <1>4 DEF Lock, Wait, Proceed, Unlock, Repeat, CancelledAsleep, Die, SpuriousWakeup, Goto
  <2>2. (HoldsMessage(t)' => HoldsMessage(t)) /\ \A u \in Threads \ {t} : pc'[u] = pc[u]
    BY <1>2, <2>1 DEF HoldsMessage
  <2> QED
    BY <1>1, <2>2 DEF OnlyDrops, HoldsMessage
<1> QED
  BY <1>1, <1>3, <1>4

\* The main thread neither takes a message away nor hands one out.
LEMMA MainKeeps ==
  ASSUME IInv, Main
  PROVE  UNCHANGED queueVars /\ \A t : OnlyDrops(t)
<1>1. UNCHANGED queueVars
  BY DEF Main, CreateProducer, CreateConsumer, Create, RemoveProducer, RemoveConsumer, CancelLast,
         JoinRemoved, AtexitJoin, Join, Quit, AtexitCancel, AtexitDestroy
<1>2. CASE UNCHANGED <<pc, msg>>
  BY <1>1, <1>2 DEF OnlyDrops, HoldsMessage
<1>3. ASSUME NEW k \in Kinds, NEW start, Create(k, start), start = IF k = "P" THEN "make" ELSE "lock"
      PROVE  \A t : OnlyDrops(t)
  <2>0. PICK u : u = <<k, amount[k]>>
    OBVIOUS
  <2>1. amount[k] \in 0 .. MaxAmount(k) - 1 /\ u \in Threads /\ (u \in Producers <=> k = "P")
    BY <1>3, <2>0, SlotIsThread, MonitorAssumption DEF Create, IInv, TypeOK, MaxAmount
  <2>2. /\ \A v \in Threads : v # u => pc'[v] = pc[v] /\ msg'[v] = msg[v]
        /\ pc'[u] = start /\ pc[u] = "none"
    BY <1>3, <2>0, <2>1 DEF Create, IInv, TypeOK, SlotsFree, Leaving
  <2>3. ~HoldsMessage(u) /\ ~HoldsMessage(u)'
    BY <1>3, <2>1, <2>2 DEF HoldsMessage
  <2> QED
    BY <2>2, <2>3 DEF OnlyDrops, HoldsMessage
<1>4. ASSUME NEW k \in Kinds, NEW at, NEW next, Join(k, at, next)
      PROVE  \A t : OnlyDrops(t)
  <2>1. /\ \A v \in Threads : pc'[v] = pc[v] \/ (pc[v] = "dead" /\ pc'[v] = "none")
        /\ msg' = msg
    BY <1>4 DEF Join, IInv, TypeOK
  <2>2. \A v \in Threads : HoldsMessage(v)' <=> HoldsMessage(v)
    BY <2>1 DEF HoldsMessage
  <2> QED
    BY <2>1, <2>2 DEF OnlyDrops
<1>5. \/ \E k \in Kinds : \E start : Create(k, start) /\ start = IF k = "P" THEN "make" ELSE "lock"
      \/ \E k \in Kinds : \E at, next : Join(k, at, next)
      \/ UNCHANGED <<pc, msg>>
  BY DEF Main, CreateProducer, CreateConsumer, RemoveProducer, RemoveConsumer, CancelLast,
         JoinRemoved, AtexitJoin, Quit, AtexitCancel, AtexitDestroy, Kinds
<1> QED
  BY <1>1, <1>2, <1>3, <1>4, <1>5

LEMMA MadeInit == Init => MessageMade
BY ThreadSets DEF Init, MessageMade, HoldsMessage

LEMMA MadeStep == IInv /\ MessageMade /\ [Next]_vars => MessageMade'
<1> SUFFICES ASSUME IInv, MessageMade, [Next]_vars PROVE MessageMade'
  OBVIOUS
<1>1. ASSUME NEW t, OnlyDrops(t) PROVE MessageMade'
  BY <1>1, ThreadSets DEF MessageMade, OnlyDrops
<1>2. ASSUME NEW p \in Producers, MakeMessage(p) \/ PutMessage(p) PROVE MessageMade'
  BY <1>2, ThreadSets DEF MessageMade, HoldsMessage, MakeMessage, PutMessage, Goto, IInv, TypeOK
<1>3. ASSUME NEW c \in Consumers, GetMessage(c) PROVE MessageMade'
  BY <1>3, ThreadSets DEF MessageMade, HoldsMessage, GetMessage, Goto, IInv, TypeOK
<1>4. CASE UNCHANGED vars
  BY <1>4 DEF MessageMade, HoldsMessage, vars
<1> QED
  BY <1>1, <1>2, <1>3, <1>4, NextCases, WorkerDrops, MainKeeps DEF WorkerStep

\* In the refinement, a thread that only drops its message takes a Discard step.
LEMMA DropRefines ==
  ASSUME IInv, NEW t \in Threads, OnlyDrops(t), UNCHANGED queueVars
  PROVE  [Fifo!FifoNext]_<<Contents, Held>>
<1>1. Contents' = Contents
  BY DEF queueVars, Contents
<1>2. \A u \in Threads \ {t} : Held'[u] = Held[u]
  BY DEF Held, OnlyDrops
<1>3. Held'[t] = Held[t] \/ Held'[t] = NoMessage
  BY DEF Held, OnlyDrops
<1>4. Held' = Held \/ Held' = [Held EXCEPT ![t] = NoMessage]
  BY <1>2, <1>3 DEF Held
<1> QED
  BY <1>1, <1>4 DEF Fifo!FifoNext, Fifo!Discard, Threads

LEMMA MakeRefines ==
  ASSUME IInv, NEW p \in Producers, MakeMessage(p)
  PROVE  Fifo!Make(p) /\ UNCHANGED Contents
<1>1. p \in Threads /\ pc[p] = "make" /\ pc' = [pc EXCEPT ![p] = "lock"] /\ UNCHANGED queueVars
  BY ThreadSets DEF MakeMessage, Goto
<1>2. PICK m \in Message : msg' = [msg EXCEPT ![p] = m]
  BY DEF MakeMessage
<1>3. Held[p] = NoMessage
  BY <1>1 DEF Held, HoldsMessage
<1>4. Held' = [Held EXCEPT ![p] = m]
  BY <1>1, <1>2 DEF Held, HoldsMessage, IInv, TypeOK
<1>5. Contents' = Contents
  BY <1>1 DEF queueVars, Contents
<1> QED
  BY <1>3, <1>4, <1>5 DEF Fifo!Make

LEMMA PutRefines ==
  ASSUME IInv, IInv', MessageMade, NEW p \in Producers, PutMessage(p)
  PROVE  Fifo!Put(p)
<1>1. /\ p \in Threads /\ pc[p] = "access" /\ pc' = [pc EXCEPT ![p] = "signal"] /\ msg' = msg
      /\ message_count # bufferSize
  BY ThreadSets DEF PutMessage, Goto, IInv, AccessReady, Blocked
<1>2. Held[p] = msg[p] /\ msg[p] # NoMessage
  BY <1>1, MonitorAssumption DEF Held, HoldsMessage, MessageMade
<1>3. Held' = [Held EXCEPT ![p] = NoMessage]
  BY <1>1 DEF Held, HoldsMessage, IInv, TypeOK
<1> QED
  BY <1>1, <1>2, <1>3, PutAppends DEF Fifo!Put

LEMMA GetRefines ==
  ASSUME IInv, IInv', NEW c \in Consumers, GetMessage(c)
  PROVE  Fifo!Get(c)
<1>1. /\ c \in Threads /\ c \notin Producers /\ pc[c] = "access" /\ message_count # 0
  BY ThreadSets DEF GetMessage, Goto, IInv, AccessReady, Blocked
<1>2. pc' = [pc EXCEPT ![c] = "signal"]
  BY <1>1 DEF GetMessage, Goto
<1>3. /\ Contents # <<>> /\ msg' = [msg EXCEPT ![c] = Head(Contents)]
      /\ Contents' = Tail(Contents)
  BY <1>1, GetTakesFirst
<1>4. Held[c] = NoMessage
  BY <1>1 DEF Held, HoldsMessage
<1>5. Held' = [Held EXCEPT ![c] = Head(Contents)]
  <2> DEFINE m == Head(Contents)
  <2>1. msg' = [msg EXCEPT ![c] = m]
    BY <1>3
  <2> HIDE DEF m
  <2>2. Held' = [Held EXCEPT ![c] = m]
    BY <1>1, <1>2, <2>1 DEF Held, HoldsMessage, IInv, TypeOK
  <2> QED
    BY <2>2 DEF m
<1> QED
  BY <1>3, <1>4, <1>5 DEF Fifo!Get

LEMMA FifoInitially == Init => Fifo!FifoInit
<1> SUFFICES ASSUME Init PROVE Fifo!FifoInit
  OBVIOUS
<1>1. Contents = <<>>
  BY DEF Init, Contents
<1>2. Held = [t \in Threads |-> NoMessage]
  BY DEF Init, Held, HoldsMessage
<1> QED
  BY <1>1, <1>2 DEF Fifo!FifoInit, Threads

LEMMA FifoStep ==
  IInv /\ IInv' /\ MessageMade /\ [Next]_vars => [Fifo!FifoNext]_(Fifo!fifoVars)
<1> SUFFICES ASSUME IInv, IInv', MessageMade, [Next]_vars
             PROVE  [Fifo!FifoNext]_<<Contents, Held>>
  BY DEF Fifo!fifoVars
<1>1. CASE Main
  <2>1. CASE Threads = {}
    <3>1. Held' = Held /\ Contents' = Contents
      BY <1>1, <2>1, MainKeeps DEF Held, Contents, queueVars
    <3> QED
      BY <3>1
  <2>2. CASE Threads # {}
    BY <1>1, <2>2, MainKeeps, DropRefines
  <2> QED
    BY <2>1, <2>2
<1>2. ASSUME NEW t \in Threads, WorkerStep(t) PROVE [Fifo!FifoNext]_<<Contents, Held>>
  <2>1. CASE t \in Producers /\ (MakeMessage(t) \/ PutMessage(t))
    BY <2>1, MakeRefines, PutRefines DEF Fifo!FifoNext
  <2>2. CASE ~(t \in Producers /\ (MakeMessage(t) \/ PutMessage(t)))
    BY <1>2, <2>2, WorkerDrops, DropRefines DEF WorkerStep
  <2> QED
    BY <2>1, <2>2
<1>3. ASSUME NEW c \in Consumers, GetMessage(c) PROVE [Fifo!FifoNext]_<<Contents, Held>>
  BY <1>3, GetRefines DEF Fifo!FifoNext
<1>4. CASE UNCHANGED vars
  <2>1. Held' = Held /\ Contents' = Contents
    BY <1>4 DEF vars, queueVars, Held, HoldsMessage, Contents
  <2> QED
    BY <2>1
<1> QED
  BY <1>1, <1>2, <1>3, <1>4, NextCases

\* Messages come out of the ring buffer at most once and in the order they were
\* put, and only a deleted thread loses one: the queue of lab7/part_1 implements
\* the bounded channel.
THEOREM QueueImplementsFifo == Spec => ImplementsFifo
<1>1. Spec => []MessageMade
  BY MadeInit, MadeStep, Invariance, PTL DEF Spec
<1> QED
  BY <1>1, FifoInitially, FifoStep, Invariance, PTL DEF Spec, ImplementsFifo, Fifo!FifoSpec

===============================================================================
