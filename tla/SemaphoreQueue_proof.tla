-------------------------- MODULE SemaphoreQueue_proof --------------------------
(***************************************************************************)
(* Theorems about SemaphoreQueue (lab5), for every number of threads,      *)
(* buffer size and set of messages.                                        *)
(***************************************************************************)
EXTENDS SemaphoreQueue, FiniteSetTheorems, SequenceTheorems, TLAPS

PcStates == {"none", "make", "wait", "lock", "access", "spin", "unlock", "post", "sleep", "dead"}

\* The two kinds of thread are disjoint finite sets.
LEMMA ThreadSets ==
  /\ IsFiniteSet(Producers) /\ IsFiniteSet(Consumers)
  /\ Producers \cap Consumers = {}
  /\ Producers \subseteq Threads /\ Consumers \subseteq Threads
<1>1. IsFiniteSet(0 .. PROD_MAX - 1) /\ IsFiniteSet(0 .. CONS_MAX - 1)
  BY FS_Interval, SemaphoreAssumption
<1>2. IsFiniteSet({"P"}) /\ IsFiniteSet({"C"})
  BY FS_Singleton
<1>3. IsFiniteSet(Producers) /\ IsFiniteSet(Consumers)
  BY <1>1, <1>2, FS_Product DEF Producers, Consumers
<1>4. Producers \cap Consumers = {}
  BY DEF Producers, Consumers
<1> QED
  BY <1>3, <1>4 DEF Threads

\* An index below the bound of its kind is a thread.
LEMMA SlotIsThread ==
  ASSUME NEW k \in Kinds, NEW i \in Nat, i < MaxAmount(k)
  PROVE  /\ <<k, i>> \in Threads
         /\ <<k, i>> \in Producers <=> k = "P"
BY SemaphoreAssumption DEF Kinds, MaxAmount, Producers, Consumers, Threads

-----------------------------------------------------------------------------
(* Counting threads *)

At(f, S, Q) == {t \in S : f[t] \in Q}

\* f after thread t has moved to statement s.
Moved(f, t, s) == [f EXCEPT ![t] = s]

\* What thread t adds, at statement s, to the number of threads in S at Q.
Has(t, S, s, Q) == IF t \in S /\ s \in Q THEN 1 ELSE 0

\* Moving one thread changes the number of threads at some statements by at most
\* one, in the direction of the move.
LEMMA CountMove ==
  ASSUME NEW S, S \subseteq Threads, IsFiniteSet(S), NEW Q,
         NEW f \in [Threads -> PcStates], NEW t \in Threads, NEW s \in PcStates
  PROVE  /\ Cardinality(At(f, S, Q)) \in Nat
         /\ Cardinality(At(Moved(f, t, s), S, Q)) \in Nat
         /\ Cardinality(At(Moved(f, t, s), S, Q)) =
              Cardinality(At(f, S, Q)) + Has(t, S, s, Q) - Has(t, S, f[t], Q)
<1> DEFINE g == Moved(f, t, s)
           A == At(f, S, Q)
           B == At(g, S, Q)
<1>1. IsFiniteSet(A) /\ IsFiniteSet(B) /\ Cardinality(A) \in Nat /\ Cardinality(B) \in Nat
  <2>1. A \subseteq S /\ B \subseteq S
    BY DEF At
  <2> QED
    BY <2>1, FS_Subset, FS_CardinalityType
<1>2. g \in [Threads -> PcStates] /\ g[t] = s /\ \A u \in S : u # t => g[u] = f[u]
  BY DEF Moved
<1>3. t \notin S \/ (f[t] \in Q <=> s \in Q) => A = B
  BY <1>2 DEF At
<1>4. t \in S /\ f[t] \in Q /\ s \notin Q => t \in A /\ B = A \ {t}
  BY <1>2 DEF At
<1>5. t \in S /\ f[t] \notin Q /\ s \in Q => t \notin A /\ B = A \cup {t}
  BY <1>2 DEF At
<1>6. t \in A => Cardinality(A \ {t}) = Cardinality(A) - 1
  BY <1>1, FS_RemoveElement
<1>7. t \notin A => Cardinality(A \cup {t}) = Cardinality(A) + 1
  BY <1>1, FS_AddElement
<1>8. Cardinality(B) = Cardinality(A) + Has(t, S, s, Q) - Has(t, S, f[t], Q)
  <2> HIDE DEF A, B
  <2>1. CASE t \in S /\ f[t] \in Q /\ s \notin Q
    <3>1. Has(t, S, s, Q) = 0 /\ Has(t, S, f[t], Q) = 1
      BY <2>1 DEF Has
    <3>2. Cardinality(B) = Cardinality(A) - 1
      BY <1>4, <1>6, <2>1
    <3> QED
      BY <1>1, <3>1, <3>2
  <2>2. CASE t \in S /\ f[t] \notin Q /\ s \in Q
    BY <1>1, <1>5, <1>7, <2>2 DEF Has
  <2>3. CASE t \notin S \/ (f[t] \in Q <=> s \in Q)
    BY <1>1, <1>3, <2>3 DEF Has
  <2> QED
    BY <2>1, <2>2, <2>3
<1> QED
  BY <1>1, <1>8

\* The tokens that threads hold: of items those of producers that have put a
\* message and of consumers that have not yet got theirs, of free_space those of
\* producers that have not yet put their message and of consumers that have got one.
ItemsHeld == Number(Producers, {"spin", "unlock", "post"}) + Number(Consumers, {"lock", "access"})
SlotsHeld == Number(Producers, {"lock", "access"}) + Number(Consumers, {"unlock", "post"})

\* What thread t, at statement s, adds to them.
ItemWeight(t, s) ==
  IF t \in Producers THEN IF s \in {"spin", "unlock", "post"} THEN 1 ELSE 0
                     ELSE IF s \in {"lock", "access"} THEN 1 ELSE 0
SlotWeight(t, s) ==
  IF t \in Producers THEN IF s \in {"lock", "access"} THEN 1 ELSE 0
                     ELSE IF s \in {"unlock", "post"} THEN 1 ELSE 0

LEMMA HeldType ==
  ASSUME TypeOK
  PROVE  /\ ItemsHeld \in Nat /\ SlotsHeld \in Nat
         /\ (\A t \in Threads : pc[t] \in {"none", "make", "wait", "sleep", "dead"}) =>
              ItemsHeld = 0 /\ SlotsHeld = 0
<1>1. \A S \in {Producers, Consumers} : \A Q : Number(S, Q) \in Nat
  <2> TAKE S \in {Producers, Consumers}
  <2> TAKE Q
  <2>1. {t \in S : pc[t] \in Q} \in SUBSET S /\ IsFiniteSet(S)
    BY ThreadSets
  <2> QED
    BY <2>1, FS_Subset, FS_CardinalityType DEF Number
<1>2. ASSUME \A t \in Threads : pc[t] \in {"none", "make", "wait", "sleep", "dead"}
      PROVE  ItemsHeld = 0 /\ SlotsHeld = 0
  <2>1. \A S \in {Producers, Consumers} :
          \A Q \in SUBSET {"lock", "access", "spin", "unlock", "post"} : Number(S, Q) = 0
    <3> TAKE S \in {Producers, Consumers}
    <3> TAKE Q \in SUBSET {"lock", "access", "spin", "unlock", "post"}
    <3>1. {t \in S : pc[t] \in Q} = {}
      BY <1>2, ThreadSets
    <3> QED
      BY <3>1, FS_EmptySet DEF Number
  <2> QED
    BY <2>1 DEF ItemsHeld, SlotsHeld
<1> QED
  BY <1>1, <1>2 DEF ItemsHeld, SlotsHeld

\* A thread that moves takes its tokens along.
LEMMA HeldMove ==
  ASSUME TypeOK, NEW t \in Threads, NEW s \in PcStates, pc' = Moved(pc, t, s)
  PROVE  /\ ItemsHeld \in Nat /\ SlotsHeld \in Nat /\ ItemsHeld' \in Nat /\ SlotsHeld' \in Nat
         /\ ItemsHeld' + ItemWeight(t, pc[t]) = ItemsHeld + ItemWeight(t, s)
         /\ SlotsHeld' + SlotWeight(t, pc[t]) = SlotsHeld + SlotWeight(t, s)
<1>1. \A S \in {Producers, Consumers} : \A Q :
        /\ Number(S, Q) \in Nat
        /\ Cardinality({u \in S : pc'[u] \in Q}) \in Nat
        /\ Cardinality({u \in S : pc'[u] \in Q}) =
             Number(S, Q) + Has(t, S, s, Q) - Has(t, S, pc[t], Q)
  <2> TAKE S \in {Producers, Consumers}
  <2> TAKE Q
  <2>1. S \subseteq Threads /\ IsFiniteSet(S) /\ pc \in [Threads -> PcStates]
    BY ThreadSets DEF TypeOK, PcStates
  <2>2. /\ Number(S, Q) = Cardinality(At(pc, S, Q))
        /\ Cardinality({u \in S : pc'[u] \in Q}) = Cardinality(At(Moved(pc, t, s), S, Q))
    BY DEF Number, At
  <2> QED
    BY <2>1, <2>2, CountMove
<1>2. /\ t \in Producers <=> t \notin Consumers
      /\ \A S, x, Q : Has(t, S, x, Q) \in {0, 1}
  BY ThreadSets DEF Threads, Has
<1>3. /\ ItemsHeld \in Nat /\ ItemsHeld' \in Nat
      /\ ItemsHeld' + ItemWeight(t, pc[t]) = ItemsHeld + ItemWeight(t, s)
  <2> DEFINE P == {"spin", "unlock", "post"}
             C == {"lock", "access"}
  <2>1. /\ Number(Producers, P) \in Nat /\ Number(Producers, P)' \in Nat
        /\ Number(Producers, P)' =
             Number(Producers, P) + Has(t, Producers, s, P) - Has(t, Producers, pc[t], P)
    BY <1>1 DEF Number
  <2>2. /\ Number(Consumers, C) \in Nat /\ Number(Consumers, C)' \in Nat
        /\ Number(Consumers, C)' =
             Number(Consumers, C) + Has(t, Consumers, s, C) - Has(t, Consumers, pc[t], C)
    BY <1>1 DEF Number
  <2>3. \A x : ItemWeight(t, x) = Has(t, Producers, x, P) + Has(t, Consumers, x, C)
    BY <1>2 DEF ItemWeight, Has
  <2> QED
    BY <1>2, <2>1, <2>2, <2>3 DEF ItemsHeld
<1>4. /\ SlotsHeld \in Nat /\ SlotsHeld' \in Nat
      /\ SlotsHeld' + SlotWeight(t, pc[t]) = SlotsHeld + SlotWeight(t, s)
  <2> DEFINE P == {"lock", "access"}
             C == {"unlock", "post"}
  <2>1. /\ Number(Producers, P) \in Nat /\ Number(Producers, P)' \in Nat
        /\ Number(Producers, P)' =
             Number(Producers, P) + Has(t, Producers, s, P) - Has(t, Producers, pc[t], P)
    BY <1>1 DEF Number
  <2>2. /\ Number(Consumers, C) \in Nat /\ Number(Consumers, C)' \in Nat
        /\ Number(Consumers, C)' =
             Number(Consumers, C) + Has(t, Consumers, s, C) - Has(t, Consumers, pc[t], C)
    BY <1>1 DEF Number
  <2>3. \A x : SlotWeight(t, x) = Has(t, Producers, x, P) + Has(t, Consumers, x, C)
    BY <1>2 DEF SlotWeight, Has
  <2> QED
    BY <1>2, <2>1, <2>2, <2>3 DEF SlotsHeld
<1> QED
  BY <1>3, <1>4

-----------------------------------------------------------------------------
(* The inductive invariant *)

\* The owner of the mutex is the one thread between lock and unlock, or main
\* waiting in '-', or main after '+' or '-' has returned without unlocking.
MutexOwned ==
  /\ \A t \in Threads : pc[t] \in {"access", "spin", "unlock"} <=> mutex = t
  /\ mainPc = "decWait" => mutex = Main /\ bufSize # 0
  /\ bufSize = 0 => mutex = Main

\* tail stays within the buffer except while main, which has the mutex, has taken
\* the last cell away; a message is out of place only if main keeps the mutex.
BufferShape ==
  /\ mainPc = "incLock" => bufSize < MaxBufSize
  /\ tail <= bufSize + One(mutex = Main)
  /\ msg_number <= bufSize + One(KeptMutex)

\* A raised overflowFlag keeps the producer that raised it spinning, with the mutex.
OverflowSpins == overflowFlag => \E p \in Producers : pc[p] = "spin"

\* main waits in pthread_join for the youngest thread of kind k.
Leaving(k) == mainPc = IF k = "P" THEN "joinP" ELSE "joinC"

\* A slot past the end of its array holds no thread.
SlotsFree ==
  \A k \in Kinds : \A i \in 0 .. MaxAmount(k) - 1 :
    i >= amount[k] /\ ~(Leaving(k) /\ i = amount[k]) => pc[<<k, i>>] = "none"

\* No process, no threads.
DownIsFresh ==
  mainPc = "down" => /\ \A t \in Threads : pc[t] = "none"
                     /\ bufSize = InitBufSize /\ msg_number = 0 /\ overflowFlag = FALSE

\* The first session creates the semaphores.
FirstCreates ==
  /\ sessions = 0 => mainPc = "down" /\ names = [s \in Semaphores |-> "absent"]

\* ItemsMatchMessages and NoSlotLost, in terms of the tokens held.
ItemsMatch ==
  FirstSession => sem.items + ItemsHeld = msg_number + One(overflowFlag) + One(mainPc = "decWait")
SlotsMatch ==
  FirstSession /\ ~KeptMutex =>
    sem.free_space + SlotsHeld + msg_number + One(overflowFlag) >= bufSize

IInv ==
  /\ TypeOK
  /\ MutexOwned
  /\ BufferShape
  /\ OverflowSpins
  /\ SlotsFree
  /\ DownIsFresh
  /\ FirstCreates
  /\ ItemsMatch
  /\ SlotsMatch

LEMMA Basics ==
  ASSUME TypeOK
  PROVE  /\ bufSize \in Nat /\ tail \in Nat /\ head \in Nat /\ msg_number \in Nat
         /\ sem = [s \in Semaphores |-> sem[s]]
         /\ sem.items \in Nat /\ sem.free_space \in Nat
         /\ pc \in [Threads -> PcStates] /\ amount \in [Kinds -> Nat]
         /\ InitBufSize \in Nat \ {0} /\ MaxBufSize \in Nat /\ MaxHead \in Nat /\ MaxFree \in Nat
         /\ \A b : One(b) \in {0, 1}
BY SemaphoreAssumption DEF TypeOK, PcStates, One, Semaphores

LEMMA InvInit == Init => IInv
<1> SUFFICES ASSUME Init PROVE IInv
  OBVIOUS
<1>1. TypeOK
  <2>1. amount \in [Kinds -> Nat] /\ \A k \in Kinds : amount[k] <= MaxAmount(k)
    BY SemaphoreAssumption DEF Init, FreshMemory, MaxAmount
  <2>2. /\ pc \in [Threads -> {"none"}] /\ msg \in [Threads -> {NoMessage}]
        /\ buffer \in [Cells -> {NoMessage}]
    BY DEF Init, FreshMemory
  <2>3. /\ bufSize \in 0 .. MaxBufSize /\ head \in 0 .. MaxHead /\ tail \in 0 .. MaxBufSize
        /\ msg_number \in 0 .. MaxBufSize /\ sessions \in 0 .. MaxSessions
    BY SemaphoreAssumption DEF Init, FreshMemory
  <2>4. /\ sem \in [Semaphores -> Nat]
        /\ names \in [Semaphores -> {"absent", "linked", "truncated"}]
    BY SemaphoreAssumption DEF Init, FreshSemaphores, Semaphores
  <2> QED
    BY <2>1, <2>2, <2>3, <2>4 DEF Init, FreshMemory, TypeOK
<1>2. mainPc = "down" /\ sessions = 0 /\ names = [s \in Semaphores |-> "absent"] /\ mutex = Nobody
  BY DEF Init, FreshMemory
<1>3. /\ \A t \in Threads : pc[t] = "none"
      /\ bufSize = InitBufSize /\ msg_number = 0 /\ tail = 0 /\ overflowFlag = FALSE
  BY DEF Init, FreshMemory
<1>4. MutexOwned /\ BufferShape /\ OverflowSpins
  BY <1>2, <1>3, SemaphoreAssumption DEF MutexOwned, BufferShape, KeptMutex, OverflowSpins, One
<1>5. SlotsFree
  BY <1>3, SlotIsThread, SemaphoreAssumption DEF SlotsFree, MaxAmount, Kinds
<1>6. DownIsFresh /\ FirstCreates /\ ItemsMatch /\ SlotsMatch
  BY <1>2, <1>3 DEF DownIsFresh, FirstCreates, FirstSession, ItemsMatch, SlotsMatch
<1> QED
  BY <1>1, <1>4, <1>5, <1>6 DEF IInv

-----------------------------------------------------------------------------
(* Sessions *)

Names == [Semaphores -> {"absent", "linked", "truncated"}]

LEMMA EndStep ==
  ASSUME IInv, sessions # 0, NEW left \in Names, ProcessEnds(left)
  PROVE  IInv'
<1>1. /\ mainPc' = "down" /\ mutex' = Nobody /\ sessions' = sessions /\ sem' = sem
      /\ \A t \in Threads : pc'[t] = "none"
      /\ bufSize' = InitBufSize /\ msg_number' = 0 /\ tail' = 0 /\ overflowFlag' = FALSE
  BY DEF ProcessEnds
<1>2. TypeOK'
  <2>1. amount' \in [Kinds -> Nat] /\ \A k \in Kinds : amount'[k] <= MaxAmount(k)
    BY SemaphoreAssumption DEF ProcessEnds, MaxAmount
  <2>2. /\ pc' \in [Threads -> {"none"}] /\ msg' \in [Threads -> {NoMessage}]
        /\ buffer' \in [Cells -> {NoMessage}]
    BY DEF ProcessEnds
  <2>3. /\ bufSize' \in 0 .. MaxBufSize /\ head' \in 0 .. MaxHead /\ tail' \in 0 .. MaxBufSize
        /\ msg_number' \in 0 .. MaxBufSize
    BY SemaphoreAssumption DEF ProcessEnds
  <2> QED
    BY <2>1, <2>2, <2>3 DEF IInv, ProcessEnds, TypeOK, Names
<1>3. MutexOwned' /\ BufferShape' /\ OverflowSpins'
  BY <1>1, SemaphoreAssumption DEF MutexOwned, BufferShape, KeptMutex, OverflowSpins, One
<1>4. SlotsFree'
  BY <1>1, SlotIsThread, SemaphoreAssumption DEF SlotsFree, MaxAmount, Kinds
<1>5. DownIsFresh' /\ FirstCreates' /\ ItemsMatch' /\ SlotsMatch'
  BY <1>1 DEF DownIsFresh, FirstCreates, FirstSession, ItemsMatch, SlotsMatch
<1> QED
  BY <1>2, <1>3, <1>4, <1>5 DEF IInv

\* The ways in which a process ends; each of them happens to a running process.
Ends ==
  \/ Quit \/ Kill \/ MainBusError
  \/ \E c \in Consumers : Underflow(c)
  \/ \E t \in Threads : BusError(t)

LEMMA EndsCases ==
  ASSUME IInv, Ends
  PROVE  /\ sessions # 0
         /\ \E left \in Names : ProcessEnds(left)
<1>1. /\ names \in Names /\ [s \in Semaphores |-> "absent"] \in Names
      /\ [names EXCEPT !.free_space = "absent"] \in Names
  BY DEF IInv, TypeOK, Names
<1>2. \A t \in Threads : pc[t] # "none" => mainPc # "down"
  BY DEF IInv, DownIsFresh
<1>3. mainPc # "down" => sessions # 0
  BY DEF IInv, FirstCreates
<1>4. CASE Quit \/ Kill \/ MainBusError
  BY <1>1, <1>3, <1>4 DEF Quit, Kill, MainBusError, AtexitHandler
<1>5. CASE \E c \in Consumers : Underflow(c)
  BY <1>1, <1>2, <1>3, <1>5, ThreadSets DEF Underflow, AtexitHandler
<1>6. CASE \E t \in Threads : BusError(t)
  BY <1>1, <1>2, <1>3, <1>6 DEF BusError
<1> QED
  BY <1>4, <1>5, <1>6 DEF Ends

\* The first session creates its semaphores; a later one may find any values.
LEMMA StartStep ==
  ASSUME IInv, Start
  PROVE  IInv'
<1>1. /\ mainPc = "down" /\ mainPc' = "menu" /\ sessions' = sessions + 1
      /\ UNCHANGED <<threadVars, mutex, queueVars>>
  BY DEF Start
<1>2. /\ \A t \in Threads : pc[t] = "none"
      /\ bufSize = InitBufSize /\ msg_number = 0 /\ overflowFlag = FALSE
  BY <1>1 DEF IInv, DownIsFresh
<1>3. TypeOK'
  <2>1. sem' \in [Semaphores -> Nat]
    BY SemaphoreAssumption DEF IInv, TypeOK, Start, FreshSemaphores, Semaphores
  <2>2. names' \in [Semaphores -> {"absent", "linked", "truncated"}]
    <3>1. PICK b \in Truncates : names' = [s \in Semaphores |-> Reopened(names[s], b)]
      BY DEF Start
    <3>2. \A s \in Semaphores : Reopened(names[s], b) \in {"absent", "linked", "truncated"}
      BY DEF Reopened, IInv, TypeOK
    <3> QED
      BY <3>1, <3>2
  <2>3. sessions' \in 0 .. MaxSessions
    BY SemaphoreAssumption DEF IInv, TypeOK, Start
  <2> QED
    BY <1>1, <2>1, <2>2, <2>3 DEF IInv, TypeOK, threadVars, queueVars
<1>4. MutexOwned' /\ BufferShape' /\ OverflowSpins'
  <2>1. KeptMutex' = KeptMutex
    BY <1>1 DEF KeptMutex
  <2> QED
    BY <1>1, <2>1 DEF IInv, MutexOwned, BufferShape, OverflowSpins, threadVars, queueVars
<1>5. SlotsFree'
  BY <1>1 DEF IInv, SlotsFree, Leaving, threadVars
<1>6. DownIsFresh' /\ FirstCreates'
  BY <1>1 DEF IInv, TypeOK, Start, DownIsFresh, FirstCreates, FirstSession
<1>7. ItemsMatch' /\ SlotsMatch'
  <2> SUFFICES ASSUME sessions' = 1 PROVE ItemsMatch' /\ SlotsMatch'
    BY DEF ItemsMatch, SlotsMatch, FirstSession
  <2>1. sessions = 0 /\ sem' = FreshSemaphores
    <3>1. sessions = 0
      BY <1>1 DEF IInv, TypeOK
    <3>2. names = [s \in Semaphores |-> "absent"]
      BY <3>1 DEF IInv, FirstCreates
    <3>3. sem' = [s \in Semaphores |-> FreshSemaphores[s]]
      BY <3>2 DEF Start
    <3> QED
      BY <3>1, <3>3 DEF FreshSemaphores, Semaphores
  <2>2. ItemsHeld' = 0 /\ SlotsHeld' = 0
    <3>1. ItemsHeld = 0 /\ SlotsHeld = 0
      BY <1>2, HeldType DEF IInv
    <3> QED
      BY <1>1, <3>1 DEF ItemsHeld, SlotsHeld, Number, threadVars
  <2> QED
    BY <1>1, <1>2, <2>1, <2>2, SemaphoreAssumption
    DEF ItemsMatch, SlotsMatch, FreshSemaphores, One, queueVars
<1> QED
  BY <1>3, <1>4, <1>5, <1>6, <1>7 DEF IInv

-----------------------------------------------------------------------------
(* The steps of the main thread *)

\* A thread outside its round holds no token.
LEMMA WeightOutside ==
  ASSUME NEW t, NEW s \in {"none", "make", "wait", "sleep", "dead"}
  PROVE  ItemWeight(t, s) = 0 /\ SlotWeight(t, s) = 0
BY DEF ItemWeight, SlotWeight

\* Creating and joining change a slot of a thread that holds nothing.
LEMMA OutsideMove ==
  ASSUME IInv, NEW t \in Threads, NEW s \in {"none", "make", "wait", "sleep", "dead"},
         pc[t] \in {"none", "make", "wait", "sleep", "dead"}, pc' = Moved(pc, t, s),
         UNCHANGED <<mutex, queueVars, sem, systemVars>>,
         mainPc # "down", mainPc' \notin {"down", "incLock", "decWait"}, mainPc # "decWait"
  PROVE  /\ MutexOwned' /\ BufferShape' /\ OverflowSpins' /\ DownIsFresh' /\ FirstCreates'
         /\ ItemsMatch' /\ SlotsMatch'
<1>1. /\ s \in PcStates
      /\ UNCHANGED <<mutex, bufSize, tail, msg_number, overflowFlag, sem, sessions, names>>
  BY DEF queueVars, systemVars, PcStates
<1>2. FirstSession' = FirstSession
  BY <1>1 DEF FirstSession
<1>3. \A u \in Threads : u # t => pc'[u] = pc[u]
  BY DEF Moved, IInv, TypeOK
<1>4. pc'[t] = s
  BY DEF Moved, IInv, TypeOK
<1>5. MutexOwned' /\ KeptMutex' = KeptMutex
  BY <1>1, <1>3, <1>4 DEF IInv, MutexOwned, KeptMutex
<1>6. BufferShape' /\ OverflowSpins'
  BY <1>1, <1>3, <1>5, ThreadSets DEF IInv, BufferShape, OverflowSpins
<1>7. DownIsFresh' /\ FirstCreates'
  BY <1>1, <1>2 DEF IInv, DownIsFresh, FirstCreates
<1>8. ItemsHeld' = ItemsHeld /\ SlotsHeld' = SlotsHeld
  BY <1>1, HeldMove, WeightOutside DEF IInv
<1>9. ItemsMatch' /\ SlotsMatch'
  BY <1>1, <1>2, <1>5, <1>8 DEF IInv, ItemsMatch, SlotsMatch
<1> QED
  BY <1>5, <1>6, <1>7, <1>9

LEMMA CreateStep ==
  ASSUME IInv, NEW k \in Kinds, NEW start \in {"make", "wait"}, Create(k, start)
  PROVE  IInv'
<1> DEFINE t == <<k, amount[k]>>
<1>1. /\ amount[k] \in Nat /\ amount[k] < MaxAmount(k) /\ mainPc = "menu" /\ mainPc' = "menu"
      /\ UNCHANGED <<msg, cancelled, mutex, queueVars, sem, systemVars>>
  BY SemaphoreAssumption DEF Create, IInv, TypeOK, MaxAmount, Kinds
<1>2. t \in Threads
  BY <1>1, SlotIsThread
<1>3. pc' = Moved(pc, t, start) /\ amount' = [amount EXCEPT ![k] = @ + 1]
  BY DEF Create, Moved
<1>4. pc[t] = "none"
  <2>1. amount[k] \in 0 .. MaxAmount(k) - 1 /\ amount[k] >= amount[k] /\ ~Leaving(k)
    BY <1>1, SemaphoreAssumption DEF MaxAmount, Leaving
  <2> QED
    BY <2>1 DEF IInv, SlotsFree
<1>5. TypeOK'
  <2>1. amount' \in [Kinds -> Nat] /\ \A j \in Kinds : amount'[j] <= MaxAmount(j)
    BY <1>1, <1>3, SemaphoreAssumption DEF IInv, TypeOK, MaxAmount, Kinds
  <2> QED
    BY <1>1, <1>3, <2>1 DEF IInv, TypeOK, Moved, queueVars, systemVars
<1>6. /\ MutexOwned' /\ BufferShape' /\ OverflowSpins' /\ DownIsFresh' /\ FirstCreates'
      /\ ItemsMatch' /\ SlotsMatch'
  BY <1>1, <1>2, <1>3, <1>4, OutsideMove
<1>7. SlotsFree'
  <2> SUFFICES ASSUME NEW j \in Kinds, NEW i \in 0 .. MaxAmount(j) - 1, i >= amount'[j]
               PROVE  pc'[<<j, i>>] = "none"
    BY DEF SlotsFree
  <2>1. /\ amount[j] \in Nat /\ amount'[j] \in Nat /\ amount'[j] >= amount[j]
        /\ j = k => amount'[j] = amount[k] + 1
    BY <1>1, <1>3 DEF IInv, TypeOK
  <2>2. i >= amount[j] /\ (j = k => i # amount[k])
    BY <1>1, <2>1, SemaphoreAssumption DEF MaxAmount
  <2>3. <<j, i>> # t
    BY <2>2
  <2>4. <<j, i>> \in Threads
    BY SlotIsThread, SemaphoreAssumption DEF MaxAmount
  <2>5. pc[<<j, i>>] = "none"
    BY <1>1, <2>2 DEF IInv, SlotsFree, Leaving
  <2> QED
    BY <1>3, <2>3, <2>4, <2>5 DEF Moved, IInv, TypeOK
<1> QED
  BY <1>5, <1>6, <1>7 DEF IInv

\* pc is all that the counts depend on.
LEMMA HeldSame ==
  ASSUME UNCHANGED pc
  PROVE  ItemsHeld' = ItemsHeld /\ SlotsHeld' = SlotsHeld
BY DEF ItemsHeld, SlotsHeld, Number

\* Cancelling the youngest thread: its slot stays in use until it is joined.
LEMMA RemoveStep ==
  ASSUME IInv, NEW k \in Kinds, NEW key, NEW join, Remove(k, key, join),
         join = IF k = "P" THEN "joinP" ELSE "joinC"
  PROVE  IInv'
<1>1. /\ amount[k] \in Nat \ {0} /\ amount[k] <= MaxAmount(k) /\ mainPc = "menu" /\ mainPc' = join
      /\ UNCHANGED <<pc, msg, mutex, queueVars, sem, systemVars>>
      /\ amount' = [amount EXCEPT ![k] = @ - 1]
      /\ cancelled' = cancelled \cup {<<k, amount[k] - 1>>}
  BY DEF Remove, IInv, TypeOK
<1>2. <<k, amount[k] - 1>> \in Threads
  <2>1. amount[k] - 1 \in Nat /\ amount[k] - 1 < MaxAmount(k)
    BY <1>1, SemaphoreAssumption DEF MaxAmount
  <2> QED
    BY <2>1, SlotIsThread
<1>3. \A j \in Kinds : /\ amount[j] \in Nat /\ MaxAmount(j) \in Nat /\ amount[j] <= MaxAmount(j)
                       /\ amount'[j] \in Nat /\ amount'[j] <= amount[j]
                       /\ amount'[j] = IF j = k THEN amount[k] - 1 ELSE amount[j]
  BY <1>1, SemaphoreAssumption DEF IInv, TypeOK, MaxAmount
<1>4. TypeOK'
  <2>1. amount' \in [Kinds -> Nat] /\ \A j \in Kinds : amount'[j] <= MaxAmount(j)
    BY <1>1, <1>3 DEF IInv, TypeOK
  <2> QED
    BY <1>1, <1>2, <2>1 DEF IInv, TypeOK, queueVars, systemVars
<1>5. FirstSession' = FirstSession /\ KeptMutex' = KeptMutex
  BY <1>1 DEF FirstSession, KeptMutex, systemVars
<1>6. MutexOwned' /\ BufferShape' /\ OverflowSpins' /\ DownIsFresh' /\ FirstCreates'
  BY <1>1, <1>5 DEF IInv, MutexOwned, BufferShape, OverflowSpins, DownIsFresh, FirstCreates, queueVars,
                   systemVars
<1>7. ItemsMatch' /\ SlotsMatch'
  BY <1>1, <1>5, HeldSame DEF IInv, ItemsMatch, SlotsMatch, queueVars
<1>8. SlotsFree'
  <2> SUFFICES ASSUME NEW j \in Kinds, NEW i \in 0 .. MaxAmount(j) - 1, i >= amount'[j],
                      ~(Leaving(j)' /\ i = amount'[j])
               PROVE  pc[<<j, i>>] = "none"
    BY <1>1 DEF SlotsFree
  <2>1. j = k => i # amount[k] - 1
    BY <1>1, <1>3 DEF Leaving
  <2>2. i >= amount[j]
    BY <1>3, <2>1
  <2> QED
    BY <1>1, <2>2 DEF IInv, SlotsFree, Leaving
<1> QED
  BY <1>4, <1>6, <1>7, <1>8 DEF IInv

\* A joined thread has ended, so its slot is free.
LEMMA JoinStep ==
  ASSUME IInv, NEW k \in Kinds, NEW join, Join(k, join),
         join = IF k = "P" THEN "joinP" ELSE "joinC"
  PROVE  IInv'
<1> DEFINE t == <<k, amount[k]>>
<1>1. /\ mainPc = join /\ mainPc' = "menu" /\ pc[t] = "dead"
      /\ UNCHANGED <<amount, mutex, queueVars, sem, systemVars>>
      /\ pc' = Moved(pc, t, "none") /\ cancelled' = cancelled \ {t}
      /\ msg' = [msg EXCEPT ![t] = NoMessage]
  BY DEF Join, Moved
<1>2. TypeOK'
  BY <1>1 DEF IInv, TypeOK, Moved, queueVars, systemVars
<1>3. /\ MutexOwned' /\ BufferShape' /\ OverflowSpins' /\ DownIsFresh' /\ FirstCreates'
      /\ ItemsMatch' /\ SlotsMatch'
  <2>1. CASE t \in Threads
    BY <1>1, <2>1, OutsideMove
  <2>2. CASE t \notin Threads
    <3>1. pc' = pc
      BY <1>1, <2>2 DEF Moved, IInv, TypeOK
    <3>2. FirstSession' = FirstSession /\ KeptMutex' = KeptMutex
      BY <1>1 DEF FirstSession, KeptMutex, systemVars
    <3>3. MutexOwned' /\ BufferShape' /\ OverflowSpins' /\ DownIsFresh' /\ FirstCreates'
      BY <1>1, <3>1, <3>2
      DEF IInv, MutexOwned, BufferShape, OverflowSpins, DownIsFresh, FirstCreates, queueVars, systemVars
    <3> QED
      BY <1>1, <3>1, <3>2, <3>3, HeldSame DEF IInv, ItemsMatch, SlotsMatch, queueVars
  <2> QED
    BY <2>1, <2>2
<1>4. SlotsFree'
  <2> SUFFICES ASSUME NEW j \in Kinds, NEW i \in 0 .. MaxAmount(j) - 1, i >= amount[j]
               PROVE  pc'[<<j, i>>] = "none"
    BY <1>1 DEF SlotsFree
  <2>1. <<j, i>> \in Threads
    BY SlotIsThread, SemaphoreAssumption DEF MaxAmount
  <2>2. <<j, i>> = t \/ ~(Leaving(j) /\ i = amount[j])
    BY <1>1 DEF Leaving, Kinds
  <2>3. <<j, i>> # t => pc[<<j, i>>] = "none"
    BY <2>2 DEF IInv, SlotsFree
  <2> QED
    BY <1>1, <2>1, <2>3 DEF IInv, TypeOK, Moved
<1> QED
  BY <1>2, <1>3, <1>4 DEF IInv

\* '+' and '-' touch no thread.
LEMMA ResizeKeeps ==
  ASSUME IInv, mainPc \in {"menu", "incLock", "decLock", "decWait"},
         mainPc' \in {"menu", "incLock", "decLock", "decWait"},
         UNCHANGED <<threadVars, overflowFlag, systemVars>>
  PROVE  /\ OverflowSpins' /\ SlotsFree' /\ DownIsFresh' /\ FirstCreates'
         /\ FirstSession' = FirstSession /\ ItemsHeld' = ItemsHeld /\ SlotsHeld' = SlotsHeld
<1>1. /\ UNCHANGED <<pc, amount, overflowFlag, names, sessions>>
      /\ FirstSession' = FirstSession
  BY DEF threadVars, systemVars, FirstSession
<1>2. OverflowSpins' /\ DownIsFresh' /\ FirstCreates'
  BY <1>1 DEF IInv, OverflowSpins, DownIsFresh, FirstCreates
<1>3. SlotsFree'
  BY <1>1 DEF IInv, SlotsFree, Leaving
<1> QED
  BY <1>1, <1>2, <1>3, HeldSame

LEMMA ResizeStep ==
  ASSUME IInv, Resize
  PROVE  IInv'
<1>1. /\ mainPc = "menu" /\ mainPc' \in {"incLock", "decLock"}
      /\ mainPc' = "incLock" => bufSize < MaxBufSize
      /\ UNCHANGED <<threadVars, mutex, queueVars, sem, systemVars>>
  BY DEF Resize
<1>2. TypeOK'
  BY <1>1 DEF IInv, TypeOK, threadVars, queueVars, systemVars
<1>3. MutexOwned' /\ BufferShape' /\ KeptMutex' = KeptMutex
  BY <1>1 DEF IInv, MutexOwned, BufferShape, KeptMutex, threadVars, queueVars
<1>4. /\ OverflowSpins' /\ SlotsFree' /\ DownIsFresh' /\ FirstCreates'
      /\ FirstSession' = FirstSession /\ ItemsHeld' = ItemsHeld /\ SlotsHeld' = SlotsHeld
  BY <1>1, ResizeKeeps DEF queueVars
<1>5. ItemsMatch' /\ SlotsMatch'
  BY <1>1, <1>3, <1>4 DEF IInv, ItemsMatch, SlotsMatch, One, queueVars
<1> QED
  BY <1>2, <1>3, <1>4, <1>5 DEF IInv

\* The new cell comes with a token of free_space, or main keeps the mutex.
LEMMA IncStep ==
  ASSUME IInv, IncBufSize
  PROVE  IInv'
<1>1. /\ mainPc = "incLock" /\ mutex = Nobody /\ mainPc' = "menu" /\ bufSize' = bufSize + 1
      /\ bufSize < MaxBufSize
      /\ UNCHANGED <<threadVars, buffer, head, tail, msg_number, overflowFlag, systemVars>>
  BY DEF IncBufSize, IInv, BufferShape
<1>2. \/ sem' = [sem EXCEPT !.free_space = @ + 1] /\ mutex' = Nobody
      \/ sem' = sem /\ mutex' = Main
  BY <1>1 DEF IncBufSize
<1>3. /\ sem' \in [Semaphores -> Nat] /\ sem'.items = sem.items
      /\ mutex' = Nobody => sem'.free_space = sem.free_space + 1
  BY <1>2, SemaphoreAssumption DEF IInv, TypeOK, Semaphores
<1>4. TypeOK'
  <2>1. bufSize' \in 0 .. MaxBufSize
    BY <1>1, SemaphoreAssumption DEF IInv, TypeOK
  <2> QED
    BY <1>1, <1>2, <1>3, <2>1 DEF IInv, TypeOK, threadVars, systemVars
<1>5. KeptMutex' <=> mutex' = Main
  BY <1>1 DEF KeptMutex
<1>6. MutexOwned' /\ BufferShape'
  <2>1. \A t \in Threads : pc'[t] = pc[t] /\ pc[t] \notin {"access", "spin", "unlock"} /\ mutex' # t
    BY <1>1, <1>2, SemaphoreAssumption DEF IInv, MutexOwned, threadVars
  <2>2. MutexOwned'
    BY <1>1, <2>1, Basics DEF IInv, MutexOwned
  <2>3. One(KeptMutex') \in Nat /\ One(mutex' = Main) \in Nat
    BY DEF One
  <2>4. msg_number <= bufSize /\ tail <= bufSize
    BY <1>1, Basics, SemaphoreAssumption DEF IInv, BufferShape, KeptMutex, One
  <2>5. BufferShape'
    BY <1>1, <2>3, <2>4, Basics DEF IInv, BufferShape
  <2> QED
    BY <2>2, <2>5
<1>7. /\ OverflowSpins' /\ SlotsFree' /\ DownIsFresh' /\ FirstCreates'
      /\ FirstSession' = FirstSession /\ ItemsHeld' = ItemsHeld /\ SlotsHeld' = SlotsHeld
  BY <1>1, ResizeKeeps
<1>8. ItemsMatch' /\ SlotsMatch'
  <2>1. /\ bufSize \in Nat /\ sem.free_space \in Nat /\ SlotsHeld \in Nat /\ msg_number \in Nat
        /\ One(overflowFlag) \in Nat
    BY HeldType, Basics DEF IInv
  <2>2. ItemsMatch'
    BY <1>1, <1>3, <1>7 DEF IInv, ItemsMatch, One
  <2>3. SlotsMatch'
    <3> SUFFICES ASSUME FirstSession', ~KeptMutex'
                 PROVE  sem'.free_space + SlotsHeld' + msg_number' + One(overflowFlag') >= bufSize'
      BY DEF SlotsMatch
    <3>1. ~KeptMutex /\ mutex' = Nobody
      BY <1>1, <1>2, <1>5, SemaphoreAssumption DEF KeptMutex
    <3>2. sem.free_space + SlotsHeld + msg_number + One(overflowFlag) >= bufSize
      BY <1>7, <3>1 DEF IInv, SlotsMatch
    <3> QED
      BY <1>1, <1>3, <1>7, <2>1, <3>1, <3>2
  <2> QED
    BY <2>2, <2>3
<1> QED
  BY <1>4, <1>6, <1>7, <1>8 DEF IInv

\* '-' leaves the size at 0 or 1 below, with or without a message taken out.
LEMMA DecStep ==
  ASSUME IInv, DecBufSize
  PROVE  IInv'
<1>1. /\ mainPc = "decLock" /\ mutex = Nobody /\ bufSize' = bufSize - 1
      /\ mainPc' \in {"menu", "decWait"}
      /\ UNCHANGED <<threadVars, head, overflowFlag, sem, systemVars>>
      /\ buffer' = buffer \/ buffer' = Shrunk(buffer)
  BY DEF DecBufSize
<1>2. /\ bufSize \in Nat \ {0} /\ bufSize <= MaxBufSize /\ tail \in Nat /\ tail <= bufSize
      /\ msg_number \in Nat /\ msg_number <= bufSize
  BY <1>1, SemaphoreAssumption DEF IInv, TypeOK, MutexOwned, BufferShape, KeptMutex, One
<1>3. \/ /\ mutex' = Main /\ mainPc' = "menu"
         /\ msg_number' = msg_number /\ tail' = tail
      \/ /\ bufSize > 1 /\ msg_number = 0 /\ msg_number' = 0 /\ tail' = TailBack(tail)
         /\ mutex' = Nobody /\ mainPc' = "menu"
      \/ /\ bufSize > 1 /\ msg_number > 0 /\ msg_number' = msg_number - 1 /\ tail' = tail
         /\ mutex' = Main /\ mainPc' = "decWait"
  BY <1>1 DEF DecBufSize
<1>4. /\ bufSize' \in 0 .. MaxBufSize /\ tail' \in 0 .. MaxBufSize /\ msg_number' \in 0 .. MaxBufSize
      /\ tail' <= bufSize' + One(mutex' = Main) /\ msg_number' <= bufSize' + One(KeptMutex')
      /\ bufSize' = 0 => mutex' = Main
      /\ mainPc' = "decWait" => mutex' = Main /\ bufSize' # 0
  <2>1. /\ One(mutex' = Main) = IF mutex' = Main THEN 1 ELSE 0
        /\ One(KeptMutex') = IF mutex' = Main /\ mainPc' # "decWait" THEN 1 ELSE 0
    BY DEF One, KeptMutex
  <2> QED
    BY <1>1, <1>2, <1>3, <2>1, SemaphoreAssumption DEF TailBack
<1>5. TypeOK'
  <2>1. buffer' \in [Cells -> Message \cup {NoMessage}]
    BY <1>1 DEF IInv, TypeOK, Shrunk
  <2>2. mutex' \in {Main, Nobody} /\ mainPc' \in {"menu", "decWait"}
    BY <1>3
  <2> QED
    BY <1>1, <1>4, <2>1, <2>2 DEF IInv, TypeOK, threadVars, systemVars
<1>6. MutexOwned' /\ BufferShape'
  <2>1. \A t \in Threads : pc[t] \notin {"access", "spin", "unlock"}
    BY <1>1, SemaphoreAssumption DEF IInv, MutexOwned
  <2>2. pc' = pc /\ mutex' \in {Main, Nobody}
    BY <1>1, <1>3 DEF threadVars
  <2>3. MutexOwned'
    BY <1>4, <2>1, <2>2, SemaphoreAssumption DEF MutexOwned
  <2>4. mainPc' # "incLock"
    BY <1>1
  <2> QED
    BY <1>4, <2>3, <2>4 DEF BufferShape
<1>7. /\ OverflowSpins' /\ SlotsFree' /\ DownIsFresh' /\ FirstCreates'
      /\ FirstSession' = FirstSession /\ ItemsHeld' = ItemsHeld /\ SlotsHeld' = SlotsHeld
  BY <1>1, ResizeKeeps
<1>8. ItemsMatch' /\ SlotsMatch'
  <2>1. /\ sem.free_space \in Nat /\ sem.items \in Nat /\ SlotsHeld \in Nat /\ ItemsHeld \in Nat
        /\ One(overflowFlag) \in Nat
    BY HeldType, Basics DEF IInv
  <2>2. /\ One(mainPc = "decWait") = 0
        /\ One(mainPc' = "decWait") = IF mainPc' = "decWait" THEN 1 ELSE 0
        /\ overflowFlag' = overflowFlag /\ sem' = sem
    BY <1>1 DEF One
  <2>3. ItemsMatch'
    <3>1. msg_number' + One(mainPc' = "decWait") = msg_number
      BY <1>2, <1>3, <2>2
    <3>2. /\ msg_number' \in Nat /\ One(mainPc' = "decWait") \in Nat
      BY <1>4, <2>2, SemaphoreAssumption
    <3> QED
      BY <1>2, <1>7, <2>1, <2>2, <3>1, <3>2 DEF IInv, ItemsMatch
  <2>4. SlotsMatch'
    <3>1. msg_number' >= msg_number - 1 /\ msg_number' \in Nat /\ bufSize' \in Nat
      BY <1>2, <1>3, <1>4, SemaphoreAssumption
    <3>2. ~KeptMutex
      BY <1>1, SemaphoreAssumption DEF KeptMutex
    <3> QED
      BY <1>1, <1>2, <1>7, <2>1, <2>2, <3>1, <3>2 DEF IInv, SlotsMatch
  <2> QED
    BY <2>3, <2>4
<1> QED
  BY <1>5, <1>6, <1>7, <1>8 DEF IInv

LEMMA DecFinishStep ==
  ASSUME IInv, DecFinish
  PROVE  IInv'
<1>1. /\ mainPc = "decWait" /\ sem.items > 0 /\ sem' = [sem EXCEPT !.items = @ - 1]
      /\ tail' = TailBack(tail) /\ mutex = Main /\ mutex' = Nobody /\ mainPc' = "menu"
      /\ UNCHANGED <<threadVars, bufSize, buffer, head, msg_number, overflowFlag, systemVars>>
  BY DEF DecFinish, IInv, MutexOwned
<1>2. TypeOK'
  <2>1. tail' \in 0 .. MaxBufSize /\ sem' \in [Semaphores -> Nat]
    BY <1>1, SemaphoreAssumption DEF IInv, TypeOK, TailBack, Semaphores
  <2> QED
    BY <1>1, <2>1 DEF IInv, TypeOK, threadVars, systemVars
<1>3. MutexOwned'
  <2>1. \A t \in Threads : pc[t] \notin {"access", "spin", "unlock"}
    BY <1>1, SemaphoreAssumption DEF IInv, MutexOwned
  <2>2. pc' = pc /\ bufSize' = bufSize /\ bufSize # 0
    BY <1>1 DEF threadVars, IInv, MutexOwned
  <2> QED
    BY <1>1, <2>1, <2>2, SemaphoreAssumption DEF MutexOwned
<1>4. BufferShape'
  BY <1>1, Basics, SemaphoreAssumption DEF IInv, MutexOwned, BufferShape, KeptMutex, TailBack, One
<1>5. /\ OverflowSpins' /\ SlotsFree' /\ DownIsFresh' /\ FirstCreates'
      /\ FirstSession' = FirstSession /\ ItemsHeld' = ItemsHeld /\ SlotsHeld' = SlotsHeld
  BY <1>1, ResizeKeeps
<1>6. sem'.items = sem.items - 1 /\ sem'.free_space = sem.free_space
  BY <1>1 DEF IInv, TypeOK, Semaphores
<1>7. ItemsMatch' /\ SlotsMatch'
  <2>1. /\ sem.items \in Nat /\ ItemsHeld \in Nat /\ msg_number \in Nat /\ One(overflowFlag) \in Nat
        /\ One(mainPc = "decWait") = 1 /\ One(mainPc' = "decWait") = 0
    BY <1>1, HeldType, Basics DEF IInv, One
  <2>2. ItemsMatch'
    BY <1>1, <1>5, <1>6, <2>1 DEF IInv, ItemsMatch
  <2>3. SlotsMatch'
    BY <1>1, <1>5, <1>6 DEF IInv, SlotsMatch, KeptMutex
  <2> QED
    BY <2>2, <2>3
<1> QED
  BY <1>2, <1>3, <1>4, <1>5, <1>7 DEF IInv

-----------------------------------------------------------------------------
(* The steps of a worker *)

\* A worker that moves changes no slot and starts or ends no session.
LEMMA SlotsKept ==
  ASSUME IInv, NEW t \in Threads, NEW s \in PcStates, pc[t] # "none", pc' = Moved(pc, t, s),
         UNCHANGED <<mainPc, amount, systemVars>>
  PROVE  /\ SlotsFree' /\ DownIsFresh' /\ FirstCreates' /\ FirstSession' = FirstSession
         /\ mainPc # "down"
<1>1. mainPc # "down"
  BY DEF IInv, DownIsFresh
<1>2. FirstSession' = FirstSession /\ DownIsFresh' /\ FirstCreates'
  BY <1>1 DEF FirstSession, systemVars, IInv, DownIsFresh, FirstCreates
<1>3. SlotsFree'
  <2> SUFFICES ASSUME NEW k \in Kinds, NEW i \in 0 .. MaxAmount(k) - 1,
                      i >= amount[k], ~(Leaving(k) /\ i = amount[k])
               PROVE  pc'[<<k, i>>] = "none"
    BY DEF SlotsFree, Leaving
  <2>1. pc[<<k, i>>] = "none"
    BY DEF IInv, SlotsFree
  <2>2. <<k, i>> \in Threads
    BY SlotIsThread, SemaphoreAssumption DEF MaxAmount
  <2> QED
    BY <2>1, <2>2 DEF Moved, IInv, TypeOK
<1> QED
  BY <1>1, <1>2, <1>3

\* The move of a thread that keeps, takes or gives back what its statement says.
LEMMA TokensMove ==
  ASSUME IInv, NEW t \in Threads, NEW s \in PcStates, pc' = Moved(pc, t, s),
         FirstSession' = FirstSession, KeptMutex' = KeptMutex, UNCHANGED <<mainPc, bufSize>>,
         sem'.items \in Nat, sem'.free_space \in Nat, msg_number' \in Nat,
         sem'.items + ItemWeight(t, s) + msg_number + One(overflowFlag)
           = sem.items + ItemWeight(t, pc[t]) + msg_number' + One(overflowFlag'),
         sem.free_space + SlotWeight(t, pc[t]) + msg_number + One(overflowFlag)
           <= sem'.free_space + SlotWeight(t, s) + msg_number' + One(overflowFlag')
  PROVE  ItemsMatch' /\ SlotsMatch'
<1>1. /\ ItemsHeld \in Nat /\ SlotsHeld \in Nat /\ ItemsHeld' \in Nat /\ SlotsHeld' \in Nat
      /\ ItemsHeld' + ItemWeight(t, pc[t]) = ItemsHeld + ItemWeight(t, s)
      /\ SlotsHeld' + SlotWeight(t, pc[t]) = SlotsHeld + SlotWeight(t, s)
  BY HeldMove DEF IInv
<1>2. /\ ItemWeight(t, s) \in Nat /\ ItemWeight(t, pc[t]) \in Nat
      /\ SlotWeight(t, s) \in Nat /\ SlotWeight(t, pc[t]) \in Nat
  BY DEF ItemWeight, SlotWeight
<1>3. /\ sem.items \in Nat /\ sem.free_space \in Nat /\ msg_number \in Nat /\ bufSize \in Nat
      /\ \A b : One(b) \in Nat
  BY Basics DEF IInv
<1>4. ItemsMatch'
  <2> SUFFICES ASSUME FirstSession
               PROVE  sem'.items + ItemsHeld'
                        = msg_number' + One(overflowFlag') + One(mainPc = "decWait")
    BY DEF ItemsMatch
  <2>1. sem.items + ItemsHeld = msg_number + One(overflowFlag) + One(mainPc = "decWait")
    BY DEF IInv, ItemsMatch
  <2>2. PICK w \in Nat : w = One(mainPc = "decWait")
    BY <1>3
  <2>3. One(overflowFlag) \in Nat /\ One(overflowFlag') \in Nat
    BY <1>3
  <2>4. sem.items + ItemsHeld = msg_number + One(overflowFlag) + w
    BY <2>1, <2>2
  <2>5. /\ sem'.items + ItemsHeld' <= msg_number' + One(overflowFlag') + w
        /\ sem'.items + ItemsHeld' >= msg_number' + One(overflowFlag') + w
    BY <1>1, <1>2, <1>3, <2>2, <2>3, <2>4
  <2>6. sem'.items + ItemsHeld' \in Int /\ msg_number' + One(overflowFlag') + w \in Int
    BY <1>1, <2>3
  <2> QED
    BY <2>2, <2>5, <2>6
<1>5. SlotsMatch'
  <2> SUFFICES ASSUME FirstSession, ~KeptMutex
               PROVE  sem'.free_space + SlotsHeld' + msg_number' + One(overflowFlag') >= bufSize
    BY DEF SlotsMatch
  <2>1. sem.free_space + SlotsHeld + msg_number + One(overflowFlag) >= bufSize
    BY DEF IInv, SlotsMatch
  <2> QED
    BY <1>1, <1>2, <1>3, <2>1
<1> QED
  BY <1>4, <1>5

\* The statements that touch neither the mutex, nor a semaphore, nor the queue.
LEMMA LocalStep ==
  ASSUME IInv, NEW t \in Threads, UNCHANGED <<mainPc, amount, cancelled, systemVars>>,
         \/ t \in Producers /\ CreateMessage(t)
         \/ Repeat(t) \/ Cancel(t)
  PROVE  IInv'
<1>1. PICK s \in {"make", "wait", "dead"} :
        pc' = Moved(pc, t, s) /\ pc[t] \in {"make", "wait", "sleep"}
  BY DEF CreateMessage, Repeat, Cancel, Goto, Moved
<1>2. /\ UNCHANGED <<mutex, queueVars, sem>> /\ msg' \in [Threads -> Message \cup {NoMessage}]
      /\ KeptMutex' = KeptMutex
  BY DEF CreateMessage, Repeat, Cancel, IInv, TypeOK, KeptMutex
<1>3. s \in PcStates /\ pc[t] # "none"
  BY <1>1 DEF PcStates
<1>4. TypeOK'
  BY <1>1, <1>2 DEF IInv, TypeOK, Moved, queueVars, systemVars
<1>5. /\ SlotsFree' /\ DownIsFresh' /\ FirstCreates' /\ FirstSession' = FirstSession
  BY <1>1, <1>3, SlotsKept
<1>6. MutexOwned' /\ BufferShape' /\ OverflowSpins'
  BY <1>1, <1>2, ThreadSets
  DEF IInv, TypeOK, MutexOwned, BufferShape, OverflowSpins, Moved, queueVars
<1>7. ItemsMatch' /\ SlotsMatch'
  <2>1. ItemsHeld' = ItemsHeld /\ SlotsHeld' = SlotsHeld
    BY <1>1, <1>3, HeldMove, WeightOutside DEF IInv
  <2> QED
    BY <1>2, <1>5, <2>1 DEF IInv, ItemsMatch, SlotsMatch, queueVars
<1> QED
  BY <1>4, <1>5, <1>6, <1>7 DEF IInv

\* sem_wait takes a token into the thread's hands, sem_post gives one back.
LEMMA SemaphoreStep ==
  ASSUME IInv, NEW t \in Threads, UNCHANGED <<mainPc, amount, cancelled, systemVars>>,
         SemWait(t) \/ SemPost(t)
  PROVE  IInv'
<1>1. PICK s \in {"lock", "sleep"} :
        /\ pc' = Moved(pc, t, s)
        /\ \/ /\ pc[t] = "wait" /\ s = "lock" /\ sem[Needs(t)] > 0
              /\ sem' = [sem EXCEPT ![Needs(t)] = @ - 1]
           \/ /\ pc[t] = "post" /\ s = "sleep"
              /\ sem' = [sem EXCEPT ![Provides(t)] = @ + 1]
  BY DEF SemWait, SemPost, Goto, Moved
<1>2. UNCHANGED <<msg, mutex, queueVars>> /\ KeptMutex' = KeptMutex
  BY DEF SemWait, SemPost, KeptMutex
<1>3. s \in PcStates /\ pc[t] # "none"
  BY <1>1 DEF PcStates
<1>4. sem' \in [Semaphores -> Nat]
  BY <1>1 DEF IInv, TypeOK, Needs, Provides, Semaphores
<1>5. TypeOK'
  BY <1>1, <1>2, <1>4 DEF IInv, TypeOK, Moved, queueVars, systemVars
<1>6. /\ SlotsFree' /\ DownIsFresh' /\ FirstCreates' /\ FirstSession' = FirstSession
  BY <1>1, <1>3, SlotsKept
<1>7. MutexOwned' /\ BufferShape' /\ OverflowSpins'
  BY <1>1, <1>2, ThreadSets
  DEF IInv, TypeOK, MutexOwned, BufferShape, OverflowSpins, Moved, queueVars
<1>8. /\ sem'.items \in Nat /\ sem'.free_space \in Nat
      /\ sem'.items + ItemWeight(t, s) = sem.items + ItemWeight(t, pc[t])
      /\ sem'.free_space + SlotWeight(t, s) = sem.free_space + SlotWeight(t, pc[t])
  <2>1. CASE t \in Producers
    BY <1>1, <1>4, <2>1 DEF IInv, TypeOK, Needs, Provides, ItemWeight, SlotWeight, Semaphores
  <2>2. CASE t \notin Producers
    BY <1>1, <1>4, <2>2 DEF IInv, TypeOK, Needs, Provides, ItemWeight, SlotWeight, Semaphores
  <2> QED
    BY <2>1, <2>2
<1>9. ItemsMatch' /\ SlotsMatch'
  <2>1. UNCHANGED <<bufSize, msg_number, overflowFlag>>
    BY <1>2 DEF queueVars
  <2>2. /\ sem.items \in Nat /\ sem.free_space \in Nat /\ msg_number \in Nat
        /\ One(overflowFlag) \in Nat
    BY Basics DEF IInv
  <2>3. /\ ItemWeight(t, s) \in Nat /\ ItemWeight(t, pc[t]) \in Nat
        /\ SlotWeight(t, s) \in Nat /\ SlotWeight(t, pc[t]) \in Nat
    BY DEF ItemWeight, SlotWeight
  <2>4. /\ sem'.items + ItemWeight(t, s) + msg_number + One(overflowFlag)
             = sem.items + ItemWeight(t, pc[t]) + msg_number' + One(overflowFlag')
        /\ sem.free_space + SlotWeight(t, pc[t]) + msg_number + One(overflowFlag)
             <= sem'.free_space + SlotWeight(t, s) + msg_number' + One(overflowFlag')
    BY <1>8, <2>1, <2>2, <2>3
  <2> QED
    BY <1>1, <1>2, <1>3, <1>6, <1>8, <2>1, <2>2, <2>4, TokensMove
<1> QED
  BY <1>5, <1>6, <1>7, <1>9 DEF IInv

\* A thread may leave the spin loop only if it never entered it with the flag up.
LEMMA MutexStep ==
  ASSUME IInv, NEW t \in Threads, UNCHANGED <<mainPc, amount, cancelled, systemVars>>,
         Lock(t) \/ Unlock(t) \/ (t \in Producers /\ LeaveSpin(t))
  PROVE  IInv'
<1>1. PICK s \in {"access", "unlock", "post"} :
        /\ pc' = Moved(pc, t, s)
        /\ \/ pc[t] = "lock" /\ s = "access" /\ mutex = Nobody /\ mutex' = t
           \/ pc[t] = "unlock" /\ s = "post" /\ mutex' = Nobody
           \/ pc[t] = "spin" /\ s = "unlock" /\ mutex' = mutex /\ ~overflowFlag /\ t \in Producers
  BY DEF Lock, Unlock, LeaveSpin, Goto, Moved
<1>2. UNCHANGED <<msg, queueVars, sem>>
  BY DEF Lock, Unlock, LeaveSpin
<1>3. s \in PcStates /\ pc[t] # "none"
  BY <1>1 DEF PcStates
<1>4. TypeOK'
  BY <1>1, <1>2 DEF IInv, TypeOK, Moved, queueVars, systemVars
<1>5. /\ SlotsFree' /\ DownIsFresh' /\ FirstCreates' /\ FirstSession' = FirstSession
  BY <1>1, <1>3, SlotsKept
<1>6. UNCHANGED <<bufSize, tail, msg_number, overflowFlag>> /\ pc \in [Threads -> PcStates]
  BY <1>2, Basics DEF queueVars, IInv
<1>7. \A u \in Threads : pc'[u] = IF u = t THEN s ELSE pc[u]
  BY <1>1, <1>6 DEF Moved
<1>8. /\ mutex # Main /\ mutex' # Main /\ mainPc # "decWait" /\ bufSize # 0
      /\ KeptMutex' = KeptMutex
  BY <1>1, SemaphoreAssumption DEF IInv, MutexOwned, KeptMutex
<1>9. MutexOwned'
  BY <1>1, <1>6, <1>7, <1>8, SemaphoreAssumption DEF IInv, MutexOwned
<1>10. BufferShape'
  BY <1>6, <1>8 DEF IInv, BufferShape
<1>11. OverflowSpins'
  BY <1>1, <1>6, <1>7, ThreadSets DEF IInv, OverflowSpins
<1>12. ItemsMatch' /\ SlotsMatch'
  <2>1. ItemWeight(t, s) = ItemWeight(t, pc[t]) /\ SlotWeight(t, s) = SlotWeight(t, pc[t])
    BY <1>1 DEF ItemWeight, SlotWeight
  <2>2. ItemWeight(t, s) \in Nat /\ SlotWeight(t, s) \in Nat
    BY DEF ItemWeight, SlotWeight
  <2>3. /\ sem.items \in Nat /\ sem.free_space \in Nat /\ msg_number \in Nat
        /\ One(overflowFlag) \in Nat /\ sem' = sem
    BY <1>2, Basics DEF IInv
  <2>4. /\ sem'.items + ItemWeight(t, s) + msg_number + One(overflowFlag)
             = sem.items + ItemWeight(t, pc[t]) + msg_number' + One(overflowFlag')
        /\ sem.free_space + SlotWeight(t, pc[t]) + msg_number + One(overflowFlag)
             <= sem'.free_space + SlotWeight(t, s) + msg_number' + One(overflowFlag')
    BY <1>6, <2>1, <2>2, <2>3
  <2> QED
    BY <1>1, <1>3, <1>5, <1>6, <1>8, <2>3, <2>4, TokensMove
<1> QED
  BY <1>4, <1>5, <1>9, <1>10, <1>11, <1>12 DEF IInv

\* putMsg: either the message and its token go in together, or the flag goes up
\* for the token that finds no cell.
LEMMA PutStep ==
  ASSUME IInv, NEW t \in Producers, UNCHANGED <<mainPc, amount, cancelled, systemVars>>, PutMsg(t)
  PROVE  IInv'
<1>1. /\ t \in Threads /\ pc[t] = "access" /\ pc' = Moved(pc, t, "spin") /\ "spin" \in PcStates
      /\ UNCHANGED <<msg, mutex, bufSize, head, sem>>
  BY ThreadSets DEF PutMsg, Goto, Moved, PcStates
<1>2. /\ mutex = t /\ mutex # Main /\ mainPc # "decWait" /\ bufSize # 0
      /\ pc \in [Threads -> PcStates]
      /\ KeptMutex' = KeptMutex
  BY <1>1, Basics, SemaphoreAssumption DEF IInv, MutexOwned, KeptMutex
<1>3. \A u \in Threads : pc'[u] = IF u = t THEN "spin" ELSE pc[u]
  BY <1>1, <1>2 DEF Moved
<1>4. overflowFlag = FALSE
  BY <1>1, <1>2, ThreadSets DEF IInv, TypeOK, MutexOwned, OverflowSpins
<1>5. /\ bufSize \in Nat \ {0} /\ bufSize <= MaxBufSize /\ tail \in 0 .. bufSize
      /\ msg_number \in 0 .. bufSize
  BY <1>2, SemaphoreAssumption DEF IInv, TypeOK, BufferShape, KeptMutex, One
<1>6. \/ msg_number' = msg_number /\ overflowFlag' = TRUE /\ tail' = tail /\ buffer' = buffer
      \/ /\ msg_number' = msg_number + 1 /\ overflowFlag' = FALSE /\ tail' = Wrap(tail) + 1
         /\ msg_number # bufSize /\ buffer' = [buffer EXCEPT ![Wrap(tail)] = msg[t]]
  BY <1>4 DEF PutMsg
<1>7. tail' \in 0 .. bufSize /\ msg_number' \in 0 .. bufSize
  BY <1>5, <1>6 DEF Wrap
<1>8. TypeOK'
  <2>1. tail' \in 0 .. MaxBufSize /\ msg_number' \in 0 .. MaxBufSize
    BY <1>5, <1>7, SemaphoreAssumption
  <2>2. buffer' \in [Cells -> Message \cup {NoMessage}] /\ overflowFlag' \in BOOLEAN
    BY <1>1, <1>6 DEF IInv, TypeOK
  <2> QED
    BY <1>1, <2>1, <2>2 DEF IInv, TypeOK, Moved, systemVars
<1>9. /\ SlotsFree' /\ DownIsFresh' /\ FirstCreates' /\ FirstSession' = FirstSession
  BY <1>1, SlotsKept
<1>10. MutexOwned' /\ OverflowSpins'
  BY <1>1, <1>2, <1>3, ThreadSets DEF IInv, MutexOwned, OverflowSpins
<1>11. BufferShape'
  BY <1>1, <1>2, <1>5, <1>7 DEF IInv, BufferShape, One
<1>12. ItemsMatch' /\ SlotsMatch'
  <2>1. /\ ItemWeight(t, "spin") = 1 /\ ItemWeight(t, pc[t]) = 0
        /\ SlotWeight(t, "spin") = 0 /\ SlotWeight(t, pc[t]) = 1
    BY <1>1 DEF ItemWeight, SlotWeight
  <2>2. /\ sem.items \in Nat /\ sem.free_space \in Nat /\ msg_number \in Nat /\ sem' = sem
        /\ msg_number' \in Nat
    BY <1>1, <1>5, <1>7, Basics DEF IInv
  <2>3. /\ One(overflowFlag) \in Nat /\ One(overflowFlag') \in Nat
        /\ msg_number' + One(overflowFlag') = msg_number + One(overflowFlag) + 1
    <3>1. One(TRUE) = 1 /\ One(FALSE) = 0
      BY DEF One
    <3>2. One(overflowFlag) = 0
      BY <1>4, <3>1
    <3>3. \/ msg_number' = msg_number /\ One(overflowFlag') = 1
          \/ msg_number' = msg_number + 1 /\ One(overflowFlag') = 0
      BY <1>6, <3>1
    <3> QED
      BY <2>2, <3>2, <3>3
  <2>4. /\ sem'.items + ItemWeight(t, "spin") + msg_number + One(overflowFlag)
             = sem.items + ItemWeight(t, pc[t]) + msg_number' + One(overflowFlag')
        /\ sem.free_space + SlotWeight(t, pc[t]) + msg_number + One(overflowFlag)
             <= sem'.free_space + SlotWeight(t, "spin") + msg_number' + One(overflowFlag')
    BY <2>1, <2>2, <2>3
  <2> QED
    BY <1>1, <1>2, <1>9, <2>2, <2>4, TokensMove
<1> QED
  BY <1>8, <1>9, <1>10, <1>11, <1>12 DEF IInv

LEMMA GetStep ==
  ASSUME IInv, NEW t \in Consumers, UNCHANGED <<mainPc, amount, cancelled, systemVars>>, GetMsg(t)
  PROVE  IInv'
<1>1. /\ t \in Threads /\ t \notin Producers
      /\ pc[t] = "access" /\ pc' = Moved(pc, t, "unlock") /\ "unlock" \in PcStates
      /\ msg_number # 0 /\ msg_number' = msg_number - 1 /\ head' = Wrap(head) + 1
      /\ Wrap(head) < MaxHead /\ msg' = [msg EXCEPT ![t] = Cell(Wrap(head))]
      /\ UNCHANGED <<mutex, bufSize, buffer, tail, overflowFlag, sem>>
  BY ThreadSets DEF GetMsg, Goto, Moved, PcStates
<1>2. /\ mutex = t /\ mutex # Main /\ mainPc # "decWait" /\ bufSize # 0
      /\ pc \in [Threads -> PcStates]
      /\ KeptMutex' = KeptMutex
  BY <1>1, Basics, SemaphoreAssumption DEF IInv, MutexOwned, KeptMutex
<1>3. \A u \in Threads : pc'[u] = IF u = t THEN "unlock" ELSE pc[u]
  BY <1>1, <1>2 DEF Moved
<1>4. TypeOK'
  <2>1. head' \in 0 .. MaxHead /\ msg_number' \in 0 .. MaxBufSize
    BY <1>1, SemaphoreAssumption DEF IInv, TypeOK, Wrap
  <2>2. msg' \in [Threads -> Message \cup {NoMessage}]
    <3>1. Wrap(head) \in Nat
      BY DEF IInv, TypeOK, Wrap
    <3>2. Cell(Wrap(head)) \in Message \cup {NoMessage}
      BY <3>1, SemaphoreAssumption DEF IInv, TypeOK, Cell, Cells
    <3> QED
      BY <1>1, <3>2 DEF IInv, TypeOK
  <2> QED
    BY <1>1, <2>1, <2>2 DEF IInv, TypeOK, Moved, systemVars
<1>5. /\ SlotsFree' /\ DownIsFresh' /\ FirstCreates' /\ FirstSession' = FirstSession
  BY <1>1, SlotsKept
<1>6. MutexOwned' /\ OverflowSpins'
  BY <1>1, <1>2, <1>3, ThreadSets DEF IInv, MutexOwned, OverflowSpins
<1>7. BufferShape'
  BY <1>1, <1>2, Basics DEF IInv, BufferShape, One
<1>8. ItemsMatch' /\ SlotsMatch'
  <2>1. /\ ItemWeight(t, "unlock") = 0 /\ ItemWeight(t, pc[t]) = 1
        /\ SlotWeight(t, "unlock") = 1 /\ SlotWeight(t, pc[t]) = 0
    BY <1>1 DEF ItemWeight, SlotWeight
  <2>2. /\ sem.items \in Nat /\ sem.free_space \in Nat /\ msg_number \in Nat /\ sem' = sem
        /\ msg_number' \in Nat /\ overflowFlag' = overflowFlag /\ One(overflowFlag) \in Nat
    BY <1>1, Basics DEF IInv
  <2>3. /\ sem'.items + ItemWeight(t, "unlock") + msg_number + One(overflowFlag)
             = sem.items + ItemWeight(t, pc[t]) + msg_number' + One(overflowFlag')
        /\ sem.free_space + SlotWeight(t, pc[t]) + msg_number + One(overflowFlag)
             <= sem'.free_space + SlotWeight(t, "unlock") + msg_number' + One(overflowFlag')
    BY <1>1, <2>1, <2>2
  <2> QED
    BY <1>1, <1>2, <1>5, <2>2, <2>3, TokensMove
<1> QED
  BY <1>4, <1>5, <1>6, <1>7, <1>8 DEF IInv

-----------------------------------------------------------------------------

\* Every step starts or ends a session, or is a step of main or of one worker.
LEMMA NextCases ==
  ASSUME Next
  PROVE  \/ Start \/ Ends
         \/ \E k \in Kinds : \/ \E start \in {"make", "wait"} :
                                  Create(k, start) /\ start = IF k = "P" THEN "make" ELSE "wait"
                             \/ \E key, join :
                                  /\ join = IF k = "P" THEN "joinP" ELSE "joinC"
                                  /\ Remove(k, key, join) \/ Join(k, join)
         \/ Resize \/ IncBufSize \/ DecBufSize \/ DecFinish
         \/ \E t \in Threads : Step(t)
<1>1. "P" \in Kinds /\ "C" \in Kinds
  BY DEF Kinds
<1>2. CASE MainThread
  <2>1. CASE CreateProd
    <3>1. Create("P", "make")
      BY <2>1 DEF CreateProd
    <3> QED
      BY <1>1, <3>1
  <2>2. CASE CreateCons
    <3>1. Create("C", "wait")
      BY <2>2 DEF CreateCons
    <3> QED
      BY <1>1, <3>1
  <2>3. CASE RemoveProd
    <3>1. Remove("P", "p", "joinP")
      BY <2>3 DEF RemoveProd
    <3> QED
      BY <1>1, <3>1
  <2>4. CASE RemoveCons
    <3>1. Remove("C", "c", "joinC")
      BY <2>4 DEF RemoveCons
    <3> QED
      BY <1>1, <3>1
  <2>5. CASE JoinRemoved
    <3>1. Join("P", "joinP") \/ Join("C", "joinC")
      BY <2>5 DEF JoinRemoved
    <3> QED
      BY <1>1, <3>1
  <2>6. CASE Resize \/ IncBufSize \/ DecBufSize \/ DecFinish \/ MainBusError \/ Quit
    BY <2>6 DEF Ends
  <2> QED
    BY <1>2, <2>1, <2>2, <2>3, <2>4, <2>5, <2>6 DEF MainThread
<1>3. CASE Start \/ Kill \/ \E t \in Threads : Worker(t)
  BY <1>3 DEF Ends, Worker
<1> QED
  BY <1>2, <1>3 DEF Next

LEMMA StepCases ==
  ASSUME NEW t \in Threads, Step(t)
  PROVE  /\ UNCHANGED <<mainPc, amount, cancelled, systemVars>>
         /\ \/ t \in Producers /\ CreateMessage(t)
            \/ Repeat(t) \/ Cancel(t)
            \/ SemWait(t) \/ SemPost(t)
            \/ Lock(t) \/ Unlock(t) \/ (t \in Producers /\ LeaveSpin(t))
            \/ t \in Producers /\ PutMsg(t)
            \/ t \in Consumers /\ GetMsg(t)
BY DEF Step

LEMMA InvStep == IInv /\ [Next]_vars => IInv'
<1> SUFFICES ASSUME IInv, [Next]_vars PROVE IInv'
  OBVIOUS
<1>1. CASE UNCHANGED vars
  <2>1. /\ UNCHANGED <<mainPc, amount, pc, msg, cancelled, mutex, bufSize, buffer, head, tail, msg_number,
                       overflowFlag, sem, names, sessions>>
    BY <1>1 DEF vars, threadVars, queueVars, systemVars
  <2>2. FirstSession' = FirstSession /\ KeptMutex' = KeptMutex
    BY <2>1 DEF FirstSession, KeptMutex
  <2>3. TypeOK' /\ MutexOwned' /\ BufferShape' /\ OverflowSpins'
    BY <2>1, <2>2 DEF IInv, TypeOK, MutexOwned, BufferShape, OverflowSpins
  <2>4. SlotsFree' /\ DownIsFresh' /\ FirstCreates'
    BY <2>1, <2>2 DEF IInv, SlotsFree, Leaving, DownIsFresh, FirstCreates
  <2>5. ItemsMatch' /\ SlotsMatch'
    BY <2>1, <2>2, HeldSame DEF IInv, ItemsMatch, SlotsMatch
  <2> QED
    BY <2>3, <2>4, <2>5 DEF IInv
<1>2. CASE Ends
  BY <1>2, EndsCases, EndStep
<1>3. ASSUME NEW t \in Threads, Step(t) PROVE IInv'
  BY <1>3, StepCases, LocalStep, SemaphoreStep, MutexStep, PutStep, GetStep
<1> QED
  BY <1>1, <1>2, <1>3, NextCases, StartStep, CreateStep, RemoveStep, JoinStep, ResizeStep, IncStep,
     DecStep, DecFinishStep

LEMMA Invariance == Spec => []IInv
BY InvInit, InvStep, PTL DEF Spec

\* The invariants that the runs check add the same counts in another order.
LEMMA InvImplies ==
  ASSUME IInv
  PROVE  ItemsMatchMessages /\ NoSlotLost
<1>1. \A S \in {Producers, Consumers} : \A Q : Number(S, Q) \in Nat
  <2> TAKE S \in {Producers, Consumers}
  <2> TAKE Q
  <2>1. {t \in S : pc[t] \in Q} \in SUBSET S /\ IsFiniteSet(S)
    BY ThreadSets
  <2> QED
    BY <2>1, FS_Subset, FS_CardinalityType DEF Number
<1>2. sem.items \in Nat /\ sem.free_space \in Nat
  BY Basics DEF IInv
<1>3. sem.items + Number(Producers, {"spin", "unlock", "post"}) + Number(Consumers, {"lock", "access"})
        = sem.items + ItemsHeld
  BY <1>1, <1>2 DEF ItemsHeld
<1>4. SlotTokens = sem.free_space + SlotsHeld
  BY <1>1, <1>2 DEF SlotTokens, SlotsHeld
<1> QED
  BY <1>3, <1>4 DEF IInv, ItemsMatch, SlotsMatch, ItemsMatchMessages, NoSlotLost

\* The variables of lab5 keep their types whatever keys are pressed: neither tail
\* nor msg_number leaves the buffer, and no semaphore is taken below zero.
THEOREM TypeCorrect == Spec => []TypeOK
<1>1. IInv => TypeOK
  BY DEF IInv
<1> QED
  BY <1>1, Invariance, PTL

\* Every message in the queue has exactly one token of items, while threads are
\* cancelled and while '+' and '-' resize the queue: in its first session getMsg
\* never ends the program on an empty queue.
THEOREM ItemsAlwaysMatch == Spec => []ItemsMatchMessages
<1>1. IInv => ItemsMatchMessages
  BY InvImplies
<1> QED
  BY <1>1, Invariance, PTL

\* No free cell is without a token of free_space, although '-' takes a cell away and
\* no token, unless main keeps the mutex because realloc has failed or no cell is left.
THEOREM SlotsNeverLost == Spec => []NoSlotLost
<1>1. IInv => NoSlotLost
  BY InvImplies
<1> QED
  BY <1>1, Invariance, PTL

-----------------------------------------------------------------------------
(* The inductive invariant of a queue whose size is not changed *)

\* The keys '+' and '-' are not pressed.
FixedSize == Commands \cap {"+", "-"} = {}

SizeKept ==
  /\ mainPc \notin {"incLock", "decLock", "decWait"}
  /\ mutex # Main
  /\ bufSize = InitBufSize

\* In every session, whatever semaphores it found, there are no more tokens of
\* free_space than free cells.  Nothing like it holds of items, which a session may
\* inherit without free_space.
TokensBound == sem.free_space + SlotsHeld + msg_number <= InitBufSize

\* head, tail and msg_number describe the same messages.
RingConsistent ==
  /\ head <= bufSize
  /\ \/ tail = head + msg_number
     \/ tail = head + msg_number - bufSize

\* A producer between createMessage and putMsg has a message.
MessageMade == \A p \in Producers : HoldsMessage(p) => msg[p] \in Message

FInv ==
  /\ SizeKept
  /\ TokensBound
  /\ NeverOverflows
  /\ RingConsistent
  /\ MessageMade

LEMMA FixedInit == Init => FInv
<1> SUFFICES ASSUME Init PROVE FInv
  OBVIOUS
<1>1. /\ mainPc = "down" /\ mutex = Nobody /\ bufSize = InitBufSize /\ sem = FreshSemaphores
      /\ head = 0 /\ tail = 0 /\ msg_number = 0 /\ overflowFlag = FALSE
      /\ \A t \in Threads : pc[t] = "none"
  BY DEF Init, FreshMemory
<1>2. TypeOK
  BY InvInit DEF IInv
<1>3. SlotsHeld = 0
  BY <1>1, <1>2, HeldType
<1>4. TokensBound
  BY <1>1, <1>3, SemaphoreAssumption DEF TokensBound, FreshSemaphores
<1>5. SizeKept /\ NeverOverflows /\ RingConsistent /\ MessageMade
  BY <1>1, ThreadSets, SemaphoreAssumption
  DEF SizeKept, NeverOverflows, RingConsistent, MessageMade, HoldsMessage
<1> QED
  BY <1>4, <1>5 DEF FInv

\* A killed process leaves its semaphores with at most as many tokens as before:
\* what its threads held is gone.
LEMMA FixedEnd ==
  ASSUME IInv, IInv', FInv, NEW left, ProcessEnds(left)
  PROVE  FInv'
<1>1. /\ mainPc' = "down" /\ mutex' = Nobody /\ bufSize' = InitBufSize /\ sem' = sem
      /\ head' = 0 /\ tail' = 0 /\ msg_number' = 0 /\ overflowFlag' = FALSE
      /\ \A t \in Threads : pc'[t] = "none"
  BY DEF ProcessEnds
<1>2. SlotsHeld' = 0
  <2>1. \A S \in {Producers, Consumers} :
          \A Q \in SUBSET {"lock", "access", "unlock", "post"} :
            Cardinality({t \in S : pc'[t] \in Q}) = 0
    <3> TAKE S \in {Producers, Consumers}
    <3> TAKE Q \in SUBSET {"lock", "access", "unlock", "post"}
    <3>1. {t \in S : pc'[t] \in Q} = {}
      BY <1>1, ThreadSets
    <3> QED
      BY <3>1, FS_EmptySet
  <2>2. /\ Cardinality({t \in Producers : pc'[t] \in {"lock", "access"}}) = 0
        /\ Cardinality({t \in Consumers : pc'[t] \in {"unlock", "post"}}) = 0
    BY <2>1
  <2> QED
    BY <2>2 DEF SlotsHeld, Number
<1>3. TokensBound'
  <2>1. /\ sem.free_space \in Nat /\ InitBufSize \in Nat
        /\ msg_number \in Nat /\ SlotsHeld \in Nat
    BY Basics, HeldType DEF IInv
  <2> QED
    BY <1>1, <1>2, <2>1 DEF FInv, TokensBound
<1>4. SizeKept' /\ NeverOverflows' /\ RingConsistent' /\ MessageMade'
  BY <1>1, ThreadSets, SemaphoreAssumption
  DEF SizeKept, NeverOverflows, RingConsistent, MessageMade, HoldsMessage
<1> QED
  BY <1>3, <1>4 DEF FInv

LEMMA FixedStart ==
  ASSUME IInv, FInv, Start
  PROVE  FInv'
<1>1. /\ mainPc' = "menu" /\ UNCHANGED <<pc, msg, mutex, bufSize, head, tail, msg_number, overflowFlag>>
      /\ sem'.free_space \in {sem.free_space, InitBufSize}
  BY DEF Start, threadVars, queueVars, FreshSemaphores, Semaphores
<1>2. SlotsHeld' = 0 /\ SlotsHeld = 0 /\ msg_number = 0
  <2>1. (\A t \in Threads : pc[t] = "none") /\ msg_number = 0
    BY DEF IInv, DownIsFresh, Start
  <2> QED
    BY <1>1, <2>1, HeldType, HeldSame DEF IInv
<1>3. TokensBound'
  BY <1>1, <1>2, SemaphoreAssumption, Basics DEF FInv, TokensBound, IInv
<1>4. SizeKept' /\ NeverOverflows' /\ RingConsistent' /\ MessageMade'
  BY <1>1 DEF FInv, SizeKept, NeverOverflows, RingConsistent, MessageMade, HoldsMessage
<1> QED
  BY <1>3, <1>4 DEF FInv

\* A thread's move makes no token of free_space without freeing a cell.
LEMMA BoundMove ==
  ASSUME IInv, FInv, NEW t \in Threads, NEW s \in PcStates, pc' = Moved(pc, t, s),
         sem'.free_space \in Nat, msg_number' \in Nat,
         sem'.free_space + SlotWeight(t, s) + msg_number'
           <= sem.free_space + SlotWeight(t, pc[t]) + msg_number
  PROVE  TokensBound'
<1>1. /\ SlotsHeld \in Nat /\ SlotsHeld' \in Nat
      /\ SlotsHeld' + SlotWeight(t, pc[t]) = SlotsHeld + SlotWeight(t, s)
  BY HeldMove DEF IInv
<1>2. SlotWeight(t, s) \in Nat /\ SlotWeight(t, pc[t]) \in Nat
  BY DEF SlotWeight
<1>3. sem.free_space \in Nat /\ msg_number \in Nat /\ InitBufSize \in Nat
  BY Basics DEF IInv
<1>4. sem.free_space + SlotsHeld + msg_number <= InitBufSize
  BY DEF FInv, TokensBound
<1>5. sem'.free_space + SlotsHeld' + msg_number' <= InitBufSize
  BY <1>1, <1>2, <1>3, <1>4
<1> QED
  BY <1>5 DEF TokensBound

\* No thread comes to hold a message, and only thread t may give its own up.
OnlyDrops(t) ==
  /\ \A u \in Threads : HoldsMessage(u)' => HoldsMessage(u) /\ msg'[u] = msg[u]
  /\ \A u \in Threads \ {t} : HoldsMessage(u) => HoldsMessage(u)'

\* Main creates, cancels and joins threads; it takes no message and no token.
LEMMA FixedMain ==
  ASSUME IInv, FInv, NEW k \in Kinds,
         \/ \E start : Create(k, start) /\ start = IF k = "P" THEN "make" ELSE "wait"
         \/ \E key, join : /\ join = IF k = "P" THEN "joinP" ELSE "joinC"
                           /\ Remove(k, key, join) \/ Join(k, join)
  PROVE  /\ FInv' /\ UNCHANGED queueVars
         /\ \A t \in Threads : OnlyDrops(t)
<1>1. /\ mainPc' \in {"menu", "joinP", "joinC"} /\ UNCHANGED <<mutex, queueVars, sem>>
  BY DEF Create, Remove, Join
<1>2. UNCHANGED <<mutex, bufSize, head, tail, msg_number, overflowFlag, sem>>
  BY <1>1 DEF queueVars
<1>3. CASE UNCHANGED <<pc, msg>>
  <2>1. TokensBound'
    BY <1>2, <1>3, HeldSame DEF FInv, TokensBound
  <2>2. SizeKept' /\ NeverOverflows' /\ RingConsistent' /\ MessageMade'
    BY <1>1, <1>2, <1>3
    DEF FInv, SizeKept, NeverOverflows, RingConsistent, MessageMade, HoldsMessage
  <2> QED
    BY <1>1, <1>3, <2>1, <2>2 DEF FInv, OnlyDrops, HoldsMessage
<1>4. ASSUME NEW t \in Threads, NEW s \in {"none", "make", "wait"}, pc' = Moved(pc, t, s),
             pc[t] \in {"none", "dead"}, s = "wait" => t \notin Producers,
             \A u \in Threads : u # t => msg'[u] = msg[u]
      PROVE  FInv' /\ \A u \in Threads : OnlyDrops(u)
  <2>1. s \in PcStates /\ pc[t] \in PcStates
    BY <1>4 DEF PcStates
  <2>2. ItemsHeld' = ItemsHeld /\ SlotsHeld' = SlotsHeld
    BY <1>4, <2>1, HeldMove, WeightOutside DEF IInv
  <2>3. TokensBound'
    BY <1>2, <2>2 DEF FInv, TokensBound
  <2>4. ~HoldsMessage(t) /\ ~HoldsMessage(t)'
    BY <1>4 DEF HoldsMessage, Moved, IInv, TypeOK
  <2>5. \A u \in Threads : u # t => (HoldsMessage(u)' <=> HoldsMessage(u)) /\ msg'[u] = msg[u]
    BY <1>4 DEF HoldsMessage, Moved, IInv, TypeOK
  <2>6. MessageMade'
    BY <2>4, <2>5, ThreadSets DEF FInv, MessageMade
  <2>7. SizeKept' /\ NeverOverflows' /\ RingConsistent'
    BY <1>1, <1>2 DEF FInv, SizeKept, NeverOverflows, RingConsistent
  <2> QED
    BY <2>3, <2>4, <2>5, <2>6, <2>7 DEF FInv, OnlyDrops
<1>5. CASE \E start : Create(k, start) /\ start = IF k = "P" THEN "make" ELSE "wait"
  <2>1. PICK start : Create(k, start) /\ start = IF k = "P" THEN "make" ELSE "wait"
    BY <1>5
  <2>2. PICK t : t = <<k, amount[k]>>
    OBVIOUS
  <2>3. /\ amount[k] \in Nat /\ amount[k] < MaxAmount(k) /\ mainPc = "menu"
    BY <2>1, SemaphoreAssumption DEF Create, IInv, TypeOK, MaxAmount, Kinds
  <2>4. t \in Threads /\ (t \in Producers <=> k = "P")
    BY <2>2, <2>3, SlotIsThread
  <2>5. pc[t] = "none"
    <3>1. amount[k] \in 0 .. MaxAmount(k) - 1 /\ amount[k] >= amount[k] /\ ~Leaving(k)
      BY <2>3, SemaphoreAssumption DEF MaxAmount, Leaving
    <3> QED
      BY <2>2, <3>1 DEF IInv, SlotsFree
  <2>6. pc' = Moved(pc, t, start) /\ msg' = msg
    BY <2>1, <2>2 DEF Create, Moved
  <2> QED
    BY <1>1, <1>4, <2>1, <2>4, <2>5, <2>6
<1>6. CASE \E join : Join(k, join)
  <2>1. PICK t : /\ pc[t] = "dead" /\ pc' = Moved(pc, t, "none")
                 /\ msg' = [msg EXCEPT ![t] = NoMessage]
    BY <1>6 DEF Join, Moved
  <2>2. CASE t \in Threads
    BY <1>1, <1>4, <2>1, <2>2 DEF IInv, TypeOK
  <2>3. CASE t \notin Threads
    BY <1>1, <1>3, <2>1, <2>3 DEF IInv, TypeOK, Moved
  <2> QED
    BY <2>2, <2>3
<1>7. CASE \E key, join : Remove(k, key, join)
  BY <1>1, <1>3, <1>7 DEF Remove
<1> QED
  BY <1>5, <1>6, <1>7

\* Apart from createMessage, putMsg and getMsg, a worker keeps its message or
\* drops it, and leaves the queue alone.
LEMMA WorkerDrops ==
  ASSUME IInv, NEW t \in Threads,
         \/ Repeat(t) \/ Cancel(t) \/ SemWait(t) \/ SemPost(t)
         \/ Lock(t) \/ Unlock(t) \/ (t \in Producers /\ LeaveSpin(t))
  PROVE  OnlyDrops(t) /\ UNCHANGED queueVars
<1>1. UNCHANGED queueVars /\ pc \in [Threads -> PcStates]
  BY DEF Repeat, Cancel, SemWait, SemPost, Lock, Unlock, LeaveSpin, IInv, TypeOK, PcStates
<1>2. CASE Repeat(t)
  <2>1. /\ pc' = [pc EXCEPT ![t] = IF t \in Producers THEN "make" ELSE "wait"]
        /\ msg' = [msg EXCEPT ![t] = NoMessage]
        /\ msg \in [Threads -> Message \cup {NoMessage}]
    BY <1>2 DEF Repeat, Goto, IInv, TypeOK
  <2>2. ~HoldsMessage(t)'
    BY <1>1, <2>1 DEF HoldsMessage
  <2>3. \A u \in Threads \ {t} : pc'[u] = pc[u] /\ msg'[u] = msg[u]
    BY <1>1, <2>1
  <2>4. \A u \in Threads \ {t} : HoldsMessage(u)' <=> HoldsMessage(u)
    BY <2>3 DEF HoldsMessage
  <2> QED
    BY <1>1, <2>2, <2>3, <2>4 DEF OnlyDrops
<1>3. CASE ~Repeat(t)
  <2>1. msg' = msg
    BY <1>3 DEF Cancel, SemWait, SemPost, Lock, Unlock, LeaveSpin
  <2>2. PICK s : /\ pc' = [pc EXCEPT ![t] = s]
                 /\ \/ s = "dead"
                    \/ pc[t] = "wait" /\ s = "lock"
                    \/ pc[t] = "post" /\ s = "sleep"
                    \/ pc[t] = "lock" /\ s = "access"
                    \/ pc[t] = "unlock" /\ s = "post"
                    \/ t \in Producers /\ pc[t] = "spin" /\ s = "unlock"
    BY <1>3 DEF Cancel, SemWait, SemPost, Lock, Unlock, LeaveSpin, Goto
  <2>3. (HoldsMessage(t)' => HoldsMessage(t)) /\ \A u \in Threads \ {t} : pc'[u] = pc[u]
    BY <1>1, <2>2 DEF HoldsMessage
  <2> QED
    BY <1>1, <2>1, <2>3 DEF OnlyDrops, HoldsMessage
<1> QED
  BY <1>2, <1>3

\* These statements move a token between a semaphore and the thread, or none.
LEMMA FixedQuiet ==
  ASSUME IInv, FInv, NEW t \in Threads, UNCHANGED <<mainPc, amount, cancelled, systemVars>>,
         \/ t \in Producers /\ CreateMessage(t)
         \/ Repeat(t) \/ Cancel(t) \/ SemWait(t) \/ SemPost(t)
         \/ Lock(t) \/ Unlock(t) \/ (t \in Producers /\ LeaveSpin(t))
  PROVE  FInv'
<1>1. UNCHANGED queueVars /\ mutex' \in {mutex, t, Nobody}
  BY DEF CreateMessage, Repeat, Cancel, SemWait, SemPost, Lock, Unlock, LeaveSpin
<1>2. SizeKept' /\ NeverOverflows' /\ RingConsistent'
  BY <1>1, SemaphoreAssumption DEF FInv, SizeKept, NeverOverflows, RingConsistent, queueVars
<1>3. TokensBound'
  <2>1. PICK s \in PcStates :
          /\ pc' = Moved(pc, t, s)
          /\ \/ /\ sem' = sem
                /\ ItemWeight(t, s) = ItemWeight(t, pc[t]) /\ SlotWeight(t, s) = SlotWeight(t, pc[t])
             \/ /\ pc[t] = "wait" /\ s = "lock" /\ sem[Needs(t)] > 0
                /\ sem' = [sem EXCEPT ![Needs(t)] = @ - 1]
             \/ /\ pc[t] = "post" /\ s = "sleep"
                /\ sem' = [sem EXCEPT ![Provides(t)] = @ + 1]
    BY DEF CreateMessage, Repeat, Cancel, SemWait, SemPost, Lock, Unlock, LeaveSpin, Goto, Moved,
           PcStates, ItemWeight, SlotWeight
  <2>2. sem' \in [Semaphores -> Nat]
    BY <2>1 DEF IInv, TypeOK, Needs, Provides, Semaphores
  <2>3. /\ sem'.items \in Nat /\ sem'.free_space \in Nat
        /\ sem'.items + ItemWeight(t, s) = sem.items + ItemWeight(t, pc[t])
        /\ sem'.free_space + SlotWeight(t, s) = sem.free_space + SlotWeight(t, pc[t])
    <3>1. CASE t \in Producers
      BY <2>1, <2>2, <3>1 DEF IInv, TypeOK, Needs, Provides, ItemWeight, SlotWeight, Semaphores
    <3>2. CASE t \notin Producers
      BY <2>1, <2>2, <3>2 DEF IInv, TypeOK, Needs, Provides, ItemWeight, SlotWeight, Semaphores
    <3> QED
      BY <3>1, <3>2
  <2>4. /\ sem.items \in Nat /\ sem.free_space \in Nat /\ msg_number \in Nat
        /\ msg_number' = msg_number
    BY <1>1, Basics DEF IInv, queueVars
  <2>5. /\ ItemWeight(t, s) \in Nat /\ ItemWeight(t, pc[t]) \in Nat
        /\ SlotWeight(t, s) \in Nat /\ SlotWeight(t, pc[t]) \in Nat
    BY DEF ItemWeight, SlotWeight
  <2>6. sem'.free_space + SlotWeight(t, s) + msg_number'
          <= sem.free_space + SlotWeight(t, pc[t]) + msg_number
    BY <2>3, <2>4, <2>5
  <2> QED
    BY <2>1, <2>3, <2>4, <2>6, BoundMove
<1>4. MessageMade'
  <2>1. CASE t \in Producers /\ CreateMessage(t)
    <3>1. PICK m \in Message : msg' = [msg EXCEPT ![t] = m]
      BY <2>1 DEF CreateMessage
    <3>2. \A u \in Threads : u # t => pc'[u] = pc[u] /\ msg'[u] = msg[u]
      BY <2>1, <3>1 DEF CreateMessage, Goto, IInv, TypeOK
    <3>3. msg'[t] \in Message
      BY <3>1 DEF IInv, TypeOK
    <3> QED
      BY <3>2, <3>3, ThreadSets DEF FInv, MessageMade, HoldsMessage
  <2>2. CASE ~(t \in Producers /\ CreateMessage(t))
    BY <2>2, WorkerDrops, ThreadSets DEF FInv, MessageMade, OnlyDrops
  <2> QED
    BY <2>1, <2>2
<1> QED
  BY <1>2, <1>3, <1>4 DEF FInv

\* The producer in putMsg holds a token of free_space.
LEMMA PutHoldsSlot ==
  ASSUME TypeOK, NEW t \in Producers, pc[t] = "access"
  PROVE  SlotsHeld >= 1
<1> DEFINE A == {u \in Producers : pc[u] \in {"lock", "access"}}
           B == {u \in Consumers : pc[u] \in {"unlock", "post"}}
<1>1. IsFiniteSet(A) /\ IsFiniteSet(B)
  BY ThreadSets, FS_Subset
<1>2. Cardinality(A) \in Nat /\ Cardinality(B) \in Nat
  BY <1>1, FS_CardinalityType
<1>3. t \in A
  OBVIOUS
<1>4. Cardinality(A) # 0
  BY <1>1, <1>3, FS_EmptySet
<1>5. SlotsHeld = Cardinality(A) + Cardinality(B)
  BY DEF SlotsHeld, Number
<1> HIDE DEF A, B
<1> QED
  BY <1>2, <1>4, <1>5

\* So a cell is free.
LEMMA FixedPut ==
  ASSUME IInv, FInv, NEW t \in Producers, UNCHANGED <<mainPc, amount, cancelled, systemVars>>, PutMsg(t)
  PROVE  FInv' /\ msg_number < bufSize
<1>1. /\ t \in Threads /\ pc[t] = "access" /\ pc' = Moved(pc, t, "spin") /\ "spin" \in PcStates
      /\ UNCHANGED <<msg, mutex, bufSize, head, sem>>
  BY ThreadSets DEF PutMsg, Goto, Moved, PcStates
<1>2. /\ bufSize = InitBufSize /\ bufSize \in Nat \ {0} /\ msg_number \in Nat /\ head \in 0 .. bufSize
      /\ sem.free_space \in Nat /\ sem.items \in Nat
  BY Basics DEF FInv, SizeKept, IInv, RingConsistent
<1>3. /\ ItemWeight(t, "spin") = 1 /\ ItemWeight(t, pc[t]) = 0
      /\ SlotWeight(t, "spin") = 0 /\ SlotWeight(t, pc[t]) = 1
  BY <1>1 DEF ItemWeight, SlotWeight
<1>4. msg_number < bufSize
  <2>1. SlotsHeld \in Nat
    BY HeldType DEF IInv
  <2>2. SlotsHeld >= 1
    BY <1>1, PutHoldsSlot DEF IInv
  <2>3. sem.free_space + SlotsHeld + msg_number <= InitBufSize
    BY DEF FInv, TokensBound
  <2>4. InitBufSize \in Nat /\ msg_number < InitBufSize
    BY <1>2, <2>1, <2>2, <2>3
  <2> QED
    BY <1>2, <2>4
<1>5. /\ msg_number' = msg_number + 1 /\ tail' = Wrap(tail) + 1 /\ overflowFlag' = overflowFlag
      /\ buffer' = [buffer EXCEPT ![Wrap(tail)] = msg[t]]
  BY <1>2, <1>4 DEF PutMsg
<1>6. SizeKept' /\ NeverOverflows'
  BY <1>1, <1>5 DEF FInv, SizeKept, NeverOverflows
<1>7. TokensBound'
  BY <1>1, <1>2, <1>3, <1>5, BoundMove
<1>8. RingConsistent'
  <2>1. tail \in 0 .. bufSize
    BY <1>2, Basics DEF IInv, BufferShape, KeptMutex, FInv, SizeKept, One
  <2> QED
    BY <1>1, <1>2, <1>4, <1>5, <2>1 DEF FInv, RingConsistent, Wrap
<1>9. MessageMade'
  BY <1>1, ThreadSets DEF FInv, MessageMade, HoldsMessage, Moved, IInv, TypeOK
<1> QED
  BY <1>4, <1>6, <1>7, <1>8, <1>9 DEF FInv

LEMMA FixedGet ==
  ASSUME IInv, FInv, NEW t \in Consumers, UNCHANGED <<mainPc, amount, cancelled, systemVars>>, GetMsg(t)
  PROVE  FInv'
<1>1. /\ t \in Threads /\ t \notin Producers
      /\ pc[t] = "access" /\ pc' = Moved(pc, t, "unlock") /\ "unlock" \in PcStates
      /\ msg_number # 0 /\ msg_number' = msg_number - 1 /\ head' = Wrap(head) + 1
      /\ msg' = [msg EXCEPT ![t] = Cell(Wrap(head))]
      /\ UNCHANGED <<mutex, bufSize, tail, overflowFlag, sem>>
  BY ThreadSets DEF GetMsg, Goto, Moved, PcStates
<1>2. /\ bufSize \in Nat \ {0} /\ msg_number \in Nat /\ head \in 0 .. bufSize /\ tail \in Nat
      /\ msg_number <= bufSize /\ sem.free_space \in Nat /\ sem.items \in Nat
  BY Basics DEF FInv, SizeKept, IInv, RingConsistent, BufferShape, KeptMutex, One
<1>3. /\ ItemWeight(t, "unlock") = 0 /\ ItemWeight(t, pc[t]) = 1
      /\ SlotWeight(t, "unlock") = 1 /\ SlotWeight(t, pc[t]) = 0
  BY <1>1 DEF ItemWeight, SlotWeight
<1>4. SizeKept' /\ NeverOverflows'
  BY <1>1 DEF FInv, SizeKept, NeverOverflows
<1>5. TokensBound'
  BY <1>1, <1>2, <1>3, BoundMove
<1>6. RingConsistent'
  <2>1. tail \in 0 .. bufSize
    BY <1>2, Basics DEF IInv, BufferShape, KeptMutex, FInv, SizeKept, One
  <2> QED
    BY <1>1, <1>2, <2>1 DEF FInv, RingConsistent, Wrap
<1>7. MessageMade'
  BY <1>1, ThreadSets DEF FInv, MessageMade, HoldsMessage, Moved, IInv, TypeOK
<1> QED
  BY <1>4, <1>5, <1>6, <1>7 DEF FInv

\* Without '+' and '-' main never starts to change the size.
LEMMA FixedNoResize ==
  ASSUME FixedSize, FInv
  PROVE  ~Resize /\ ~IncBufSize /\ ~DecBufSize /\ ~DecFinish
BY DEF FixedSize, FInv, SizeKept, Resize, IncBufSize, DecBufSize, DecFinish

LEMMA FixedStep == FixedSize /\ IInv /\ IInv' /\ FInv /\ [Next]_vars => FInv'
<1> SUFFICES ASSUME FixedSize, IInv, IInv', FInv, [Next]_vars PROVE FInv'
  OBVIOUS
<1>1. CASE UNCHANGED vars
  <2>1. /\ UNCHANGED <<mainPc, pc, msg, mutex, bufSize, head, tail, msg_number, overflowFlag, sem>>
    BY <1>1 DEF vars, threadVars, queueVars
  <2>2. SizeKept' /\ NeverOverflows' /\ RingConsistent' /\ MessageMade'
    BY <2>1 DEF FInv, SizeKept, NeverOverflows, RingConsistent, MessageMade, HoldsMessage
  <2>3. TokensBound'
    BY <2>1, HeldSame DEF FInv, TokensBound
  <2> QED
    BY <2>2, <2>3 DEF FInv
<1>2. ASSUME NEW t \in Threads, Step(t) PROVE FInv'
  BY <1>2, StepCases, FixedQuiet, FixedPut, FixedGet
<1>3. CASE Ends
  BY <1>3, EndsCases, FixedEnd
<1> QED
  BY <1>1, <1>2, <1>3, NextCases, FixedStart, FixedMain, FixedNoResize

LEMMA FixedInvariance == FixedSize => (Spec => []FInv)
<1> SUFFICES ASSUME FixedSize PROVE Spec => []FInv
  OBVIOUS
<1>1. IInv /\ IInv' /\ FInv /\ [Next]_vars => FInv'
  BY FixedStep
<1> QED
  BY <1>1, FixedInit, Invariance, PTL DEF Spec

\* As long as nobody presses '+' or '-', a producer that has its token finds a free
\* cell, in every session, whatever semaphores earlier sessions left behind.
THEOREM FixedNeverOverflows == FixedSize => (Spec => []NeverOverflows)
<1> SUFFICES ASSUME FixedSize PROVE Spec => []NeverOverflows
  OBVIOUS
<1>1. FInv => NeverOverflows
  BY DEF FInv
<1> QED
  BY <1>1, FixedInvariance, PTL

-----------------------------------------------------------------------------
(* The ring buffer of fixed size implements the bounded channel *)

\* The position in buffer of the i-th of the messages that start at h, and the
\* sequence of the first n of them.
Index(h, i) == IF h + i - 1 < bufSize THEN h + i - 1 ELSE h + i - 1 - bufSize
RingOf(b, h, n) == [i \in 1 .. n |-> b[Index(h, i)]]

LEMMA RingType ==
  ASSUME SizeKept, NEW b \in [Cells -> Message \cup {NoMessage}], NEW h \in 0 .. bufSize,
         NEW n \in 0 .. bufSize
  PROVE  /\ RingOf(b, h, n) \in Seq(Message \cup {NoMessage})
         /\ Len(RingOf(b, h, n)) = n
         /\ \A i \in 1 .. n : Index(h, i) \in Cells /\ RingOf(b, h, n)[i] = b[Index(h, i)]
<1>1. \A i \in 1 .. n : Index(h, i) \in Cells
  BY SemaphoreAssumption DEF Index, Cells, SizeKept
<1> QED
  BY <1>1 DEF RingOf

LEMMA ContentsIsRing ==
  ASSUME UNCHANGED bufSize
  PROVE  /\ Contents = RingOf(buffer, head, msg_number)
         /\ Contents' = RingOf(buffer', head', msg_number')
BY DEF Contents, RingOf, Index

\* What the two invariants say of the ring.
LEMMA RingBasics ==
  ASSUME IInv, FInv
  PROVE  /\ bufSize \in Nat \ {0} /\ bufSize <= MaxBufSize /\ MaxBufSize \in Nat
         /\ head \in 0 .. bufSize /\ tail \in 0 .. bufSize
         /\ msg_number \in 0 .. bufSize
         /\ tail = head + msg_number \/ tail = head + msg_number - bufSize
         /\ buffer \in [Cells -> Message \cup {NoMessage}]
         /\ msg \in [Threads -> Message \cup {NoMessage}]
<1>1. /\ bufSize \in Nat \ {0} /\ bufSize <= MaxBufSize /\ MaxBufSize \in Nat
      /\ head \in Nat /\ tail \in Nat /\ msg_number \in Nat
  BY SemaphoreAssumption, Basics DEF IInv, FInv, SizeKept
<1>2. head <= bufSize /\ tail <= bufSize /\ msg_number <= bufSize
  BY <1>1 DEF IInv, FInv, SizeKept, RingConsistent, BufferShape, KeptMutex, One
<1> QED
  BY <1>1, <1>2 DEF IInv, TypeOK, FInv, RingConsistent

\* putMsg appends its message to the queue's contents.
LEMMA PutAppends ==
  ASSUME IInv, FInv, FInv', IInv', NEW p \in Producers, msg_number < bufSize, PutMsg(p)
  PROVE  Contents' = Append(Contents, msg[p]) /\ Len(Contents) < InitBufSize
<1> DEFINE C == RingOf(buffer, head, msg_number)
           D == RingOf(buffer', head, msg_number + 1)
           w == Wrap(tail)
           m == msg[p]
<1>1. /\ bufSize \in Nat \ {0} /\ bufSize <= MaxBufSize /\ MaxBufSize \in Nat
      /\ head \in 0 .. bufSize /\ tail \in 0 .. bufSize /\ msg_number \in 0 .. bufSize - 1
      /\ tail = head + msg_number \/ tail = head + msg_number - bufSize
  BY RingBasics
<1>2. /\ msg_number' = msg_number + 1 /\ head' = head /\ bufSize' = bufSize
      /\ buffer' = [buffer EXCEPT ![w] = m]
  BY <1>1 DEF PutMsg
<1>3. /\ buffer \in [Cells -> Message \cup {NoMessage}]
      /\ buffer' \in [Cells -> Message \cup {NoMessage}]
      /\ w \in 0 .. bufSize - 1 /\ w \in Cells /\ m \in Message \cup {NoMessage}
  BY <1>1, <1>2, RingBasics, ThreadSets DEF IInv, TypeOK, Wrap, Cells
<1>4. /\ C \in Seq(Message \cup {NoMessage}) /\ Len(C) = msg_number
      /\ \A i \in 1 .. msg_number : Index(head, i) \in Cells /\ C[i] = buffer[Index(head, i)]
  <2>1. SizeKept /\ msg_number \in 0 .. bufSize
    BY <1>1 DEF FInv
  <2> QED
    BY <1>1, <1>3, <2>1, RingType
<1>5. /\ D \in Seq(Message \cup {NoMessage}) /\ Len(D) = msg_number + 1
      /\ \A i \in 1 .. msg_number + 1 : D[i] = buffer'[Index(head, i)]
  <2>1. SizeKept /\ msg_number + 1 \in 0 .. bufSize
    BY <1>1 DEF FInv
  <2>2. PICK b, n : b = buffer' /\ n = msg_number + 1
    OBVIOUS
  <2>3. /\ RingOf(b, head, n) \in Seq(Message \cup {NoMessage}) /\ Len(RingOf(b, head, n)) = n
        /\ \A i \in 1 .. n : RingOf(b, head, n)[i] = b[Index(head, i)]
    <3>1. SizeKept /\ b \in [Cells -> Message \cup {NoMessage}] /\ n \in 0 .. bufSize
      BY <1>3, <2>1, <2>2
    <3> QED
      BY <1>1, <3>1, RingType
  <2> QED
    BY <2>2, <2>3
<1>6. \A i \in 1 .. msg_number : Index(head, i) # w
  BY <1>1 DEF Index, Wrap
<1>7. Index(head, msg_number + 1) = w
  BY <1>1 DEF Index, Wrap
<1>8. buffer'[w] = m /\ \A j \in Cells : j # w => buffer'[j] = buffer[j]
  BY <1>2, <1>3
<1> HIDE DEF C, D, w, m
<1>9. /\ Append(C, m) \in Seq(Message \cup {NoMessage}) /\ Len(Append(C, m)) = msg_number + 1
      /\ \A i \in 1 .. msg_number : Append(C, m)[i] = C[i]
      /\ Append(C, m)[msg_number + 1] = m
  BY <1>3, <1>4, AppendProperties
<1>10. \A i \in 1 .. msg_number + 1 : D[i] = Append(C, m)[i]
  <2> TAKE i \in 1 .. msg_number + 1
  <2>1. CASE i = msg_number + 1
    BY <1>5, <1>7, <1>8, <1>9, <2>1
  <2>2. CASE i \in 1 .. msg_number
    BY <1>4, <1>5, <1>6, <1>8, <1>9, <2>2
  <2>3. i = msg_number + 1 \/ i \in 1 .. msg_number
    BY <1>1
  <2> QED
    BY <2>1, <2>2, <2>3
<1>11. D = Append(C, m)
  <2>1. Len(D) = Len(Append(C, m))
    BY <1>5, <1>9
  <2> QED
    BY <1>5, <1>9, <1>10, <2>1, SeqEqual
<1>12. Contents = C /\ Contents' = D
  BY <1>2, ContentsIsRing DEF C, D
<1> QED
  BY <1>1, <1>4, <1>11, <1>12 DEF m, FInv, SizeKept

\* getMsg takes the oldest message off the queue's contents.
LEMMA GetTakesFirst ==
  ASSUME IInv, FInv, FInv', IInv', NEW c \in Consumers, GetMsg(c)
  PROVE  /\ Contents # <<>>
         /\ msg' = [msg EXCEPT ![c] = Head(Contents)]
         /\ Contents' = Tail(Contents)
<1> DEFINE C == RingOf(buffer, head, msg_number)
           D == RingOf(buffer, Wrap(head) + 1, msg_number - 1)
<1>1. /\ bufSize \in Nat \ {0} /\ bufSize <= MaxBufSize /\ MaxBufSize \in Nat
      /\ head \in 0 .. bufSize /\ msg_number \in 1 .. bufSize
      /\ buffer \in [Cells -> Message \cup {NoMessage}]
  BY RingBasics DEF GetMsg
<1>2. Wrap(head) \in 0 .. bufSize - 1
  BY <1>1 DEF Wrap
<1>3. /\ msg_number' = msg_number - 1 /\ buffer' = buffer /\ bufSize' = bufSize
      /\ head' = Wrap(head) + 1
      /\ msg' = [msg EXCEPT ![c] = buffer[Wrap(head)]]
  <2>1. Cell(Wrap(head)) = buffer[Wrap(head)]
    BY <1>1, <1>2 DEF Cell
  <2> QED
    BY <2>1 DEF GetMsg
<1>4. /\ C \in Seq(Message \cup {NoMessage}) /\ Len(C) = msg_number
      /\ \A i \in 1 .. msg_number : C[i] = buffer[Index(head, i)]
  BY <1>1, RingType DEF FInv
<1>5. /\ D \in Seq(Message \cup {NoMessage}) /\ Len(D) = msg_number - 1
      /\ \A i \in 1 .. msg_number - 1 : D[i] = buffer[Index(Wrap(head) + 1, i)]
  <2>1. SizeKept /\ Wrap(head) + 1 \in 0 .. bufSize /\ msg_number - 1 \in 0 .. bufSize
    BY <1>1, <1>2 DEF FInv
  <2>2. /\ D \in Seq(Message \cup {NoMessage}) /\ Len(D) = msg_number - 1
        /\ \A i \in 1 .. msg_number - 1 :
             /\ Index(Wrap(head) + 1, i) \in Cells
             /\ D[i] = buffer[Index(Wrap(head) + 1, i)]
    BY <1>1, <2>1, RingType
  <2> QED
    BY <2>2
<1>6. Index(head, 1) = Wrap(head)
  BY <1>1 DEF Index, Wrap
<1>7. \A i \in 1 .. msg_number - 1 : Index(Wrap(head) + 1, i) = Index(head, i + 1)
  BY <1>1 DEF Index, Wrap
<1> HIDE DEF C, D
<1>8. C # <<>> /\ Head(C) = buffer[Wrap(head)]
  BY <1>1, <1>4, <1>6
<1>9. /\ Tail(C) \in Seq(Message \cup {NoMessage}) /\ Len(Tail(C)) = msg_number - 1
      /\ \A i \in 1 .. msg_number - 1 : Tail(C)[i] = C[i + 1]
  BY <1>4, <1>8, HeadTailProperties
<1>10. D = Tail(C)
  <2>1. \A i \in 1 .. msg_number - 1 : D[i] = Tail(C)[i]
    BY <1>1, <1>4, <1>5, <1>7, <1>9
  <2>2. Len(D) = Len(Tail(C))
    BY <1>5, <1>9
  <2> QED
    BY <1>5, <1>9, <2>1, <2>2, SeqEqual
<1>11. Contents = C /\ Contents' = D
  BY <1>3, ContentsIsRing DEF C, D
<1> QED
  BY <1>3, <1>8, <1>10, <1>11

\* In the refinement, a thread that only drops its message takes a Discard step.
LEMMA DropRefines ==
  ASSUME NEW t \in Threads, OnlyDrops(t), UNCHANGED queueVars
  PROVE  [Fifo!FifoNext]_<<Contents, Held>>
<1>1. Contents' = Contents
  BY DEF queueVars, Contents
<1>2. \A u \in Threads \ {t} : Held'[u] = Held[u]
  BY DEF Held, OnlyDrops
<1>3. Held'[t] = Held[t] \/ Held'[t] = NoMessage
  BY DEF Held, OnlyDrops
<1>4. Held' = Held \/ Held' = [Held EXCEPT ![t] = NoMessage]
  BY <1>2, <1>3 DEF Held
<1> QED
  BY <1>1, <1>4 DEF Fifo!FifoNext, Fifo!Discard, Threads

LEMMA MakeRefines ==
  ASSUME IInv, NEW p \in Producers, CreateMessage(p)
  PROVE  Fifo!Make(p)
<1>1. p \in Threads /\ pc[p] = "make" /\ pc' = [pc EXCEPT ![p] = "wait"] /\ UNCHANGED queueVars
  BY ThreadSets DEF CreateMessage, Goto
<1>2. PICK m \in Message : msg' = [msg EXCEPT ![p] = m]
  BY DEF CreateMessage
<1>3. Held[p] = NoMessage
  BY <1>1 DEF Held, HoldsMessage
<1>4. Held' = [Held EXCEPT ![p] = m]
  BY <1>1, <1>2 DEF Held, HoldsMessage, IInv, TypeOK
<1>5. Contents' = Contents
  BY <1>1 DEF queueVars, Contents
<1> QED
  BY <1>3, <1>4, <1>5 DEF Fifo!Make

LEMMA PutRefines ==
  ASSUME IInv, FInv, FInv', IInv', NEW p \in Producers, msg_number < bufSize, PutMsg(p)
  PROVE  Fifo!Put(p)
<1>1. p \in Threads /\ pc[p] = "access" /\ pc' = [pc EXCEPT ![p] = "spin"] /\ msg' = msg
  BY ThreadSets DEF PutMsg, Goto
<1>2. Held[p] = msg[p] /\ msg[p] # NoMessage
  BY <1>1, SemaphoreAssumption DEF Held, HoldsMessage, FInv, MessageMade
<1>3. Held' = [Held EXCEPT ![p] = NoMessage]
  BY <1>1 DEF Held, HoldsMessage, IInv, TypeOK
<1> QED
  BY <1>2, <1>3, PutAppends DEF Fifo!Put

LEMMA GetRefines ==
  ASSUME IInv, FInv, FInv', IInv', NEW c \in Consumers, GetMsg(c)
  PROVE  Fifo!Get(c)
<1>1. /\ c \in Threads /\ c \notin Producers /\ pc[c] = "access"
      /\ pc' = [pc EXCEPT ![c] = "unlock"]
  BY ThreadSets DEF GetMsg, Goto
<1>2. /\ Contents # <<>> /\ msg' = [msg EXCEPT ![c] = Head(Contents)]
      /\ Contents' = Tail(Contents)
  BY GetTakesFirst
<1>3. Held[c] = NoMessage
  BY <1>1 DEF Held, HoldsMessage
<1>4. Held' = [Held EXCEPT ![c] = Head(Contents)]
  <2> DEFINE m == Head(Contents)
  <2>1. msg' = [msg EXCEPT ![c] = m]
    BY <1>2
  <2> HIDE DEF m
  <2>2. /\ \A t \in Threads \ {c} : pc'[t] = pc[t] /\ msg'[t] = msg[t]
        /\ pc'[c] = "unlock" /\ msg'[c] = m
    BY <1>1, <2>1 DEF IInv, TypeOK
  <2>3. /\ HoldsMessage(c)'
        /\ \A t \in Threads \ {c} : HoldsMessage(t)' <=> HoldsMessage(t)
    BY <1>1, <2>2 DEF HoldsMessage
  <2>4. Held' = [Held EXCEPT ![c] = m]
    BY <1>1, <2>2, <2>3 DEF Held
  <2> QED
    BY <2>4 DEF m
<1> QED
  BY <1>2, <1>3, <1>4 DEF Fifo!Get

LEMMA FifoInitially == Init => Fifo!FifoInit
<1> SUFFICES ASSUME Init PROVE Fifo!FifoInit
  OBVIOUS
<1>1. Contents = <<>>
  BY DEF Init, FreshMemory, Contents
<1>2. Held = [t \in Threads |-> NoMessage]
  BY DEF Init, FreshMemory, Held, HoldsMessage
<1> QED
  BY <1>1, <1>2 DEF Fifo!FifoInit, Threads

LEMMA FifoStep ==
  FixedSize /\ IInv /\ IInv' /\ FInv /\ FInv' /\ [Next]_vars
    => [mainPc' # "down" => Fifo!FifoNext]_<<Contents, Held>>
<1> SUFFICES ASSUME FixedSize, IInv, IInv', FInv, FInv', [Next]_vars, mainPc' # "down"
             PROVE  [Fifo!FifoNext]_<<Contents, Held>>
  OBVIOUS
<1>1. CASE UNCHANGED vars \/ Start
  <2>1. UNCHANGED <<pc, msg, queueVars>>
    BY <1>1 DEF vars, threadVars, Start
  <2>2. Held' = Held /\ Contents' = Contents
    BY <2>1 DEF queueVars, Held, HoldsMessage, Contents
  <2> QED
    BY <2>2
<1>2. ~Ends
  BY EndsCases DEF ProcessEnds
<1>3. ASSUME NEW k \in Kinds,
             \/ \E start : Create(k, start) /\ start = IF k = "P" THEN "make" ELSE "wait"
             \/ \E key, join : /\ join = IF k = "P" THEN "joinP" ELSE "joinC"
                               /\ Remove(k, key, join) \/ Join(k, join)
      PROVE  [Fifo!FifoNext]_<<Contents, Held>>
  <2>1. UNCHANGED queueVars /\ \A t \in Threads : OnlyDrops(t)
    BY <1>3, FixedMain
  <2>2. CASE Threads = {}
    <3>1. Held' = Held /\ Contents' = Contents
      BY <2>1, <2>2 DEF Held, Contents, queueVars
    <3> QED
      BY <3>1
  <2>3. CASE Threads # {}
    BY <2>1, <2>3, DropRefines
  <2> QED
    BY <2>2, <2>3
<1>4. ASSUME NEW t \in Threads, Step(t) PROVE [Fifo!FifoNext]_<<Contents, Held>>
  <2>1. CASE t \in Producers /\ CreateMessage(t)
    BY <2>1, MakeRefines DEF Fifo!FifoNext
  <2>2. CASE t \in Producers /\ PutMsg(t)
    <3>1. msg_number < bufSize
      BY <1>4, <2>2, StepCases, FixedPut
    <3> QED
      BY <2>2, <3>1, PutRefines DEF Fifo!FifoNext
  <2>3. CASE t \in Consumers /\ GetMsg(t)
    BY <2>3, GetRefines DEF Fifo!FifoNext
  <2>4. CASE \/ Repeat(t) \/ Cancel(t) \/ SemWait(t) \/ SemPost(t)
             \/ Lock(t) \/ Unlock(t) \/ (t \in Producers /\ LeaveSpin(t))
    BY <2>4, WorkerDrops, DropRefines
  <2> QED
    BY <1>4, <2>1, <2>2, <2>3, <2>4, StepCases
<1> QED
  BY <1>1, <1>2, <1>3, <1>4, NextCases, FixedNoResize

\* As long as nobody presses '+' or '-', the queue of lab5 delivers every message
\* at most once and in the order of the puts in every session, whatever semaphores
\* it inherits; only a cancelled thread or the end of the program loses one.
THEOREM QueueImplementsFifo == FixedSize => (Spec => ImplementsFifo)
<1> SUFFICES ASSUME FixedSize PROVE Spec => ImplementsFifo
  OBVIOUS
<1>1. IInv /\ IInv' /\ FInv /\ FInv' /\ [Next]_vars
        => [mainPc' # "down" => Fifo!FifoNext]_<<Contents, Held>>
  BY FifoStep
<1>2. Spec => []FInv
  BY FixedInvariance
<1> QED
  BY <1>1, <1>2, FifoInitially, Invariance, PTL DEF Spec, ImplementsFifo

===============================================================================
