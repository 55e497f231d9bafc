------------------------------ MODULE MonitorQueue ------------------------------
(***************************************************************************)
(* lab7/part_1/main.c: producers and consumers share a ring buffer that is *)
(* protected by one mutex and two condition variables.  The main thread    *)
(* reads single-key commands and creates, cancels and joins the worker     *)
(* threads.                                                                *)
(*                                                                         *)
(* A worker's pc is the statement it executes next:                        *)
(*   make    createMessage             lock    pthread_mutex_lock          *)
(*   check   the while condition       wait    asleep in pthread_cond_wait *)
(*   relock  woken, needs the mutex    access  putMessage / getMessage     *)
(*   signal  pthread_cond_signal       unlock  pthread_mutex_unlock        *)
(*   sleep   printf and sleep          dying   cancelled inside cond_wait  *)
(*   dead    finished, not joined      none    no thread in this slot      *)
(* printf, sleep and pthread_cond_wait are the cancellation points.        *)
(***************************************************************************)
EXTENDS Integers, FiniteSets, Sequences

CONSTANTS
  PROD_MAX,    \* most producers at a time (CHILD_MAX - 1 in the code)
  CONS_MAX,    \* most consumers at a time (CHILD_MAX - 1 in the code)
  bufferSize,  \* slots of the ring buffer
  CountMod,    \* add_count and extract_count wrap at this value (2^32)
  Message,     \* the messages createMessage can build
  NoMessage,   \* an uninitialised message
  Nobody,      \* the mutex is free
  Ended,       \* the mutex is owned by a thread that has ended
  Commands     \* the keys pressed in the sessions considered

Producers == {"P"} \X (0 .. PROD_MAX - 1)
Consumers == {"C"} \X (0 .. CONS_MAX - 1)
Threads == Producers \cup Consumers

ASSUME MonitorAssumption ==
  /\ PROD_MAX \in Nat
  /\ CONS_MAX \in Nat
  /\ bufferSize \in Nat \ {0}
  /\ CountMod \in Nat
  /\ bufferSize < CountMod
  /\ NoMessage \notin Message
  /\ Nobody \notin Threads /\ Ended \notin Threads /\ Nobody # Ended

VARIABLES
  mainPc,         \* what the main thread is doing
  amount,         \* amount["P"] is producersAmount, amount["C"] consumersAmount
  pc,             \* statement each worker executes next
  msg,            \* each worker's local variable _message
  cancelled,      \* workers with a pending cancellation request
  mutex,          \* owner of the mutex, Nobody or Ended
  buffer, head, tail, message_count, add_count, extract_count  \* *queue

queueVars == <<buffer, head, tail, message_count, add_count, extract_count>>
vars == <<mainPc, amount, pc, msg, cancelled, mutex, queueVars>>

Kinds == {"P", "C"}
MaxAmount(k) == IF k = "P" THEN PROD_MAX ELSE CONS_MAX
Last(k) == <<k, amount[k] - 1>>      \* the youngest thread of a kind
Joined(k) == <<k, amount[k]>>        \* the thread just taken off the array
Slots == 0 .. bufferSize - 1

Init ==
  /\ mainPc = "menu"
  /\ amount = [k \in Kinds |-> 0]
  /\ pc = [t \in Threads |-> "none"]
  /\ msg = [t \in Threads |-> NoMessage]
  /\ cancelled = {}
  /\ mutex = Nobody
  /\ buffer = [i \in Slots |-> NoMessage]
  /\ head = 0 /\ tail = 0
  /\ message_count = 0 /\ add_count = 0 /\ extract_count = 0

Running == mainPc \notin {"done", "failed", "aborted"}

-----------------------------------------------------------------------------
(* The main thread *)

Create(k, start) ==
  /\ mainPc = "menu"
  /\ k \in Commands
  /\ amount[k] # MaxAmount(k)
  /\ pc' = [pc EXCEPT ![<<k, amount[k]>>] = start]
  /\ msg' = [msg EXCEPT ![<<k, amount[k]>>] = NoMessage]
  /\ amount' = [amount EXCEPT ![k] = @ + 1]
  /\ UNCHANGED <<mainPc, cancelled, mutex, queueVars>>

CreateProducer == Create("P", "make")
CreateConsumer == Create("C", "lock")

\* Take the youngest thread off its array and request its cancellation.
CancelLast(k, next) ==
  /\ amount[k] # 0
  /\ amount' = [amount EXCEPT ![k] = @ - 1]
  /\ cancelled' = cancelled \cup {Last(k)}
  /\ mainPc' = next
  /\ UNCHANGED <<pc, msg, mutex, queueVars>>

RemoveProducer == mainPc = "menu" /\ "p" \in Commands /\ CancelLast("P", "joinP")
RemoveConsumer == mainPc = "menu" /\ "c" \in Commands /\ CancelLast("C", "joinC")

\* pthread_join returns once the cancelled thread has finished.
Join(k, at, next) ==
  /\ mainPc = at
  /\ pc[Joined(k)] = "dead"
  /\ pc' = [pc EXCEPT ![Joined(k)] = "none"]
  /\ cancelled' = cancelled \ {Joined(k)}
  /\ mainPc' = next
  /\ UNCHANGED <<amount, msg, mutex, queueVars>>

JoinRemoved == Join("P", "joinP", "menu") \/ Join("C", "joinC", "menu")

\* 'q' returns from main, which runs atexitHandler; a pthread_create that
\* fails calls exit and takes the same path.
Quit ==
  /\ mainPc = "menu"
  /\ "q" \in Commands
  /\ mainPc' = "exit"
  /\ UNCHANGED <<amount, pc, msg, cancelled, mutex, queueVars>>

\* atexitHandler: cancel and join the producers, youngest first, then the
\* consumers, then destroy the mutex, which fails with EBUSY while it is locked.
AtexitCancel ==
  /\ mainPc = "exit"
  /\ \/ CancelLast("P", "exitJoinP")
     \/ amount["P"] = 0 /\ CancelLast("C", "exitJoinC")

AtexitJoin == Join("P", "exitJoinP", "exit") \/ Join("C", "exitJoinC", "exit")

AtexitDestroy ==
  /\ mainPc = "exit"
  /\ amount["P"] = 0 /\ amount["C"] = 0
  /\ mainPc' = IF mutex = Nobody THEN "done" ELSE "failed"
  /\ UNCHANGED <<amount, pc, msg, cancelled, mutex, queueVars>>

Main ==
  \/ CreateProducer \/ CreateConsumer
  \/ RemoveProducer \/ RemoveConsumer \/ JoinRemoved
  \/ Quit \/ AtexitCancel \/ AtexitJoin \/ AtexitDestroy

-----------------------------------------------------------------------------
(* The worker threads *)

Goto(t, from, to) == pc[t] = from /\ pc' = [pc EXCEPT ![t] = to]
\* A C int that is only ever incremented.
Inc(n) == IF n + 1 = CountMod THEN 0 ELSE n + 1

MakeMessage(p) ==
  /\ Goto(p, "make", "lock")
  /\ \E m \in Message : msg' = [msg EXCEPT ![p] = m]
  /\ UNCHANGED <<mutex, queueVars>>

\* Fault: "if" instead of "while" around pthread_cond_wait.
LockWithoutRetest(t) ==
  /\ mutex = Nobody
  /\ Goto(t, "lock", "check") \/ Goto(t, "relock", "access")
  /\ mutex' = t
  /\ UNCHANGED <<msg, queueVars>>

\* pthread_mutex_lock, at the top of the loop or on the way out of pthread_cond_wait.
Lock(t) ==
  /\ mutex = Nobody
  /\ Goto(t, "lock", "check") \/ Goto(t, "relock", "check")
  /\ mutex' = t
  /\ UNCHANGED <<msg, queueVars>>

\* Fault: producers wait one message too late.
BlockedLate(t) == message_count = IF t \in Producers THEN bufferSize + 1 ELSE 0

Blocked(t) == message_count = IF t \in Producers THEN bufferSize ELSE 0

\* Fault: the thread sleeps on its condition with the mutex locked.
WaitHoldingMutex(t) ==
  /\ Blocked(t)
  /\ Goto(t, "check", IF t \in cancelled THEN "dying" ELSE "wait")
  /\ UNCHANGED <<msg, mutex, queueVars>>

\* pthread_cond_wait releases the mutex and falls asleep in one step, or acts
\* at once on a cancellation request that is already pending.
Wait(t) ==
  /\ Blocked(t)
  /\ Goto(t, "check", IF t \in cancelled THEN "dying" ELSE "wait")
  /\ mutex' = Nobody
  /\ UNCHANGED <<msg, queueVars>>

Proceed(t) ==
  /\ ~Blocked(t)
  /\ Goto(t, "check", "access")
  /\ UNCHANGED <<msg, mutex, queueVars>>

\* POSIX lets pthread_cond_wait return without a signal.
SpuriousWakeup(t) ==
  /\ t \notin cancelled
  /\ Goto(t, "wait", "relock")
  /\ UNCHANGED <<msg, mutex, queueVars>>

\* Fault: the indices wrap one slot early.
WrapEarly(i) == IF i >= bufferSize - 1 THEN 0 ELSE i

Wrap(i) == IF i = bufferSize THEN 0 ELSE i

PutMessage(p) ==
  /\ Goto(p, "access", "signal")
  /\ buffer' = [buffer EXCEPT ![Wrap(tail)] = msg[p]]
  /\ tail' = Wrap(tail) + 1
  /\ message_count' = message_count + 1
  /\ add_count' = Inc(add_count)
  /\ UNCHANGED <<msg, mutex, head, extract_count>>

\* Fault: head is advanced before the message is copied.
GetMessageAfterHead(c) ==
  /\ message_count # 0
  /\ Goto(c, "access", "signal")
  /\ msg' = [msg EXCEPT ![c] = buffer[Wrap(Wrap(head) + 1)]]
  /\ head' = Wrap(head) + 1
  /\ message_count' = message_count - 1
  /\ extract_count' = Inc(extract_count)
  /\ UNCHANGED <<mainPc, mutex, buffer, tail, add_count>>

\* getMessage ends the program when it is called on an empty queue.
GetMessage(c) ==
  /\ pc[c] = "access"
  /\ IF message_count = 0
     THEN mainPc' = "aborted" /\ UNCHANGED <<pc, msg, mutex, queueVars>>
     ELSE /\ Goto(c, "access", "signal")
          /\ msg' = [msg EXCEPT ![c] = buffer[Wrap(head)]]
          /\ head' = Wrap(head) + 1
          /\ message_count' = message_count - 1
          /\ extract_count' = Inc(extract_count)
          /\ UNCHANGED <<mainPc, mutex, buffer, tail, add_count>>

\* The threads of S whose next statement, according to f, is one of Q.
At(f, S, Q) == {t \in S : f[t] \in Q}
Waiting(S) == At(pc, S, {"wait"})

WakeOneOf(t, waiters) ==
  /\ pc[t] = "signal"
  /\ \/ waiters = {} /\ pc' = [pc EXCEPT ![t] = "unlock"]
     \/ \E w \in waiters : pc' = [pc EXCEPT ![t] = "unlock", ![w] = "relock"]
  /\ UNCHANGED <<msg, mutex, queueVars>>

\* Fault: signal only when the queue stops being empty or full.
SignalFirstOnly(t) ==
  WakeOneOf(t, IF t \in Producers /\ message_count = 1 THEN Waiting(Consumers)
               ELSE IF t \in Consumers /\ message_count = bufferSize - 1 THEN Waiting(Producers)
               ELSE {})

\* Fault: the two condition variables are swapped.
SignalOwnKind(t) == WakeOneOf(t, Waiting(IF t \in Producers THEN Producers ELSE Consumers))

\* pthread_cond_signal wakes one waiter of the other kind, if there is one.
Signal(t) == WakeOneOf(t, Waiting(IF t \in Producers THEN Consumers ELSE Producers))

Unlock(t) ==
  /\ Goto(t, "unlock", "sleep")
  /\ mutex' = Nobody
  /\ UNCHANGED <<msg, queueVars>>

Repeat(t) ==
  /\ t \notin cancelled
  /\ Goto(t, "sleep", IF t \in Producers THEN "make" ELSE "lock")
  /\ UNCHANGED <<msg, mutex, queueVars>>

CancelledAsleep(t) ==
  /\ t \in cancelled
  /\ Goto(t, "sleep", "dead") \/ Goto(t, "wait", "dying")
  /\ UNCHANGED <<msg, mutex, queueVars>>

\* A thread cancelled inside pthread_cond_wait takes the mutex back before it
\* ends; no cleanup handler is pushed, so nobody unlocks it.
Die(t) ==
  /\ mutex = Nobody
  /\ Goto(t, "dying", "dead")
  /\ mutex' = Ended
  /\ UNCHANGED <<msg, queueVars>>

\* The steps producersHandler and consumersHandler have in common.
Handler(t) ==
  /\ UNCHANGED mainPc
  /\ \/ Lock(t) \/ Wait(t) \/ Proceed(t) \/ Signal(t) \/ Unlock(t) \/ Repeat(t)
     \/ CancelledAsleep(t) \/ Die(t)

Producer(p) ==
  /\ Running
  /\ Handler(p) \/ (UNCHANGED mainPc /\ (MakeMessage(p) \/ PutMessage(p)))
  /\ UNCHANGED <<amount, cancelled>>

Consumer(c) ==
  /\ Running
  /\ Handler(c) \/ GetMessage(c)
  /\ UNCHANGED <<amount, cancelled>>

Spurious(t) ==
  /\ Running
  /\ SpuriousWakeup(t)
  /\ UNCHANGED <<mainPc, amount, cancelled>>

Next ==
  \/ Main
  \/ \E p \in Producers : Producer(p)
  \/ \E c \in Consumers : Consumer(c)
  \/ \E t \in Threads : Spurious(t)

Spec == Init /\ [][Next]_vars

\* The scheduler runs every thread that can run; nothing forces a key press or
\* a spurious wakeup.
Fairness ==
  /\ WF_vars(JoinRemoved \/ AtexitCancel \/ AtexitJoin \/ AtexitDestroy)
  /\ \A p \in Producers : WF_vars(Producer(p))
  /\ \A c \in Consumers : WF_vars(Consumer(c))

FairSpec == Spec /\ Fairness

-----------------------------------------------------------------------------
(* Properties *)

States == {"none", "make", "lock", "check", "wait", "relock", "access",
           "signal", "unlock", "sleep", "dying", "dead"}
MainStates == {"menu", "joinP", "joinC", "exit", "exitJoinP", "exitJoinC",
               "done", "failed", "aborted"}

\* Every variable has the type its declaration gives it.
TypeOK ==
  /\ mainPc \in MainStates
  /\ amount \in [Kinds -> Nat]
  /\ \A k \in Kinds : amount[k] <= MaxAmount(k)
  /\ pc \in [Threads -> States]
  /\ msg \in [Threads -> Message \cup {NoMessage}]
  /\ cancelled \in SUBSET Threads
  /\ mutex \in Threads \cup {Nobody, Ended}
  /\ buffer \in [Slots -> Message \cup {NoMessage}]
  /\ head \in 0 .. bufferSize /\ tail \in 0 .. bufferSize
  /\ message_count \in 0 .. bufferSize
  /\ add_count \in 0 .. CountMod - 1 /\ extract_count \in 0 .. CountMod - 1

InCritical(t) == pc[t] \in {"check", "access", "signal", "unlock"}

\* A thread is between pthread_mutex_lock and pthread_mutex_unlock exactly while
\* it owns the mutex, whatever is cancelled: no cancellation point lies in
\* between except pthread_cond_wait, which has released it.
MutexDiscipline == \A t \in Threads : InCritical(t) <=> mutex = t

\* getMessage is never called on an empty queue, so its exit(1) is dead code:
\* the while loop around pthread_cond_wait must re-test after every wakeup.
NeverUnderflows == mainPc # "aborted"

\* message_count, head and tail, which are updated separately, describe the same
\* messages, and the three counters agree even after the totals wrap.
RingConsistent ==
  /\ head + message_count \in {tail, tail + bufferSize}
  /\ add_count \in {extract_count + message_count, extract_count + message_count - CountMod}

AwakeStates == {"relock", "check", "access"}

\* While a thread of S sleeps, each of the avail things S waits for has a thread
\* of S on its way to it or a thread of T about to signal.
WakeupsCover(f, S, T, avail) ==
  At(f, S, {"wait"}) # {} =>
    avail <= Cardinality(At(f, S, AwakeStates)) + Cardinality(At(f, T, {"signal"}))

\* No lost wakeup: sleeping consumers leave no message, and sleeping producers
\* no free slot, that nobody is going to take care of.  Both condition variables
\* are signalled once per message, never broadcast, so this is a matter of counting.
NoLostWakeup ==
  /\ WakeupsCover(pc, Consumers, Producers, message_count)
  /\ WakeupsCover(pc, Producers, Consumers, bufferSize - message_count)

-----------------------------------------------------------------------------
(* The ring buffer implements a bounded FIFO channel. *)

Contents ==
  [i \in 1 .. message_count |->
     buffer[IF head + i - 1 < bufferSize THEN head + i - 1 ELSE head + i - 1 - bufferSize]]

HoldsMessage(t) ==
  pc[t] \in IF t \in Producers THEN {"lock", "relock", "check", "wait", "access"}
           ELSE {"signal", "unlock", "sleep"}

Held == [t \in Threads |-> IF HoldsMessage(t) THEN msg[t] ELSE NoMessage]

Fifo == INSTANCE BoundedFifo WITH channel <- Contents, held <- Held,
                                  Capacity <- bufferSize

\* Messages come out exactly once and in the order they went in, for every
\* interleaving of producers, consumers, deletions and the wrap of head and tail.
ImplementsFifo == Fifo!FifoSpec

\* pthread_cond_wait does not return without a signal again and again for ever.
SpuriousWakeupsEnd == <>[][~ \E t \in Threads : Spurious(t)]_vars

\* A full queue with a consumer does not stay full, nor an empty one with a
\* producer empty: no wakeup is lost and no cycle of waiting threads forms, although
\* the mutex is not handed over fairly.
QueueMoves ==
  SpuriousWakeupsEnd =>
    /\ (message_count = bufferSize /\ amount["C"] > 0) ~> (message_count < bufferSize)
    /\ (message_count = 0 /\ amount["P"] > 0) ~> (message_count > 0)

Exiting == mainPc \in {"exit", "exitJoinP", "exitJoinC"}

\* The menu line "q - exit" (main.c:373): pressing q ends the program, whether the
\* destroy calls of atexitHandler succeed or it exits with their error.
QuitEnds == Exiting ~> ~Running
================================================================================
