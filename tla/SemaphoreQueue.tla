----------------------------- MODULE SemaphoreQueue -----------------------------
(***************************************************************************)
(* lab5/main.c: producers and consumers share a ring buffer guarded by two *)
(* named counting semaphores and a mutex.  The main thread creates, cancels *)
(* and joins workers and changes the size of the buffer while they run.    *)
(* The semaphores outlive the process, so the model covers its restarts.   *)
(*                                                                         *)
(* A worker's pc is the statement it executes next:                        *)
(*   make   createMessage               wait    sem_wait on its semaphore  *)
(*   lock   pthread_mutex_lock          access  putMsg / getMsg            *)
(*   spin   while(overflowFlag)         unlock  pthread_mutex_unlock       *)
(*   post   sem_post on the other one   sleep   printf and sleep           *)
(*   dead   cancelled, not yet joined   none    no thread in this slot     *)
(***************************************************************************)
EXTENDS Integers, FiniteSets, Sequences

CONSTANTS
  PROD_MAX,     \* most producers at a time (CHILD_MAX - 1 in the code)
  CONS_MAX,     \* most consumers at a time (CHILD_MAX - 1 in the code)
  InitBufSize,  \* the initial value of bufSize (10)
  MaxBufSize,   \* bound: '+' is not pressed at this size
  MaxFree,      \* bound: '+' is not pressed while free_space has this value
  MaxHead,      \* bound: no message is read at or after this index
  MaxSessions,  \* bound: how often the program is started
  Message,      \* the messages createMessage can build
  NoMessage,    \* a message variable or a buffer cell nobody has written
  Nobody, Main, \* owners of the mutex besides the workers
  Commands,     \* the keys pressed, and "kill" for a fatal signal
  Truncates     \* whether the C library minds O_TRUNC: TRUE, FALSE or either

Producers == {"P"} \X (0 .. PROD_MAX - 1)
Consumers == {"C"} \X (0 .. CONS_MAX - 1)
Threads == Producers \cup Consumers

ASSUME SemaphoreAssumption ==
  /\ PROD_MAX \in Nat /\ CONS_MAX \in Nat
  /\ InitBufSize \in Nat \ {0} /\ MaxBufSize \in Nat /\ InitBufSize <= MaxBufSize
  /\ MaxHead \in Nat /\ MaxBufSize <= MaxHead /\ MaxFree \in Nat /\ MaxSessions \in Nat
  /\ NoMessage \notin Message
  /\ Nobody \notin Threads /\ Main \notin Threads /\ Nobody # Main
  /\ Truncates \subseteq BOOLEAN

VARIABLES
  mainPc,        \* what the main thread is doing; "down": no process
  amount,        \* amount["P"] is prodNumber, amount["C"] is consNumber
  pc,            \* statement each worker executes next
  msg,           \* each worker's local variable msg
  cancelled,     \* workers with a pending cancellation request
  mutex,         \* owner of the mutex
  bufSize, buffer, head, tail, msg_number, overflowFlag,
  sem,           \* values of the semaphores free_space and items
  names,         \* of each semaphore in /dev/shm: "absent", "linked" or "truncated"
  sessions       \* how often the program was started

threadVars == <<amount, pc, msg, cancelled>>
queueVars == <<bufSize, buffer, head, tail, msg_number, overflowFlag>>
systemVars == <<names, sessions>>
vars == <<mainPc, threadVars, mutex, queueVars, sem, systemVars>>

Kinds == {"P", "C"}
Semaphores == {"free_space", "items"}
MaxAmount(k) == IF k = "P" THEN PROD_MAX ELSE CONS_MAX
Cells == 0 .. MaxBufSize - 1

\* The static variables of a process, its mutex and its empty queue.
FreshMemory ==
  /\ amount = [k \in Kinds |-> 0]
  /\ pc = [t \in Threads |-> "none"]
  /\ msg = [t \in Threads |-> NoMessage]
  /\ cancelled = {}
  /\ mutex = Nobody
  /\ bufSize = InitBufSize
  /\ buffer = [i \in Cells |-> NoMessage]
  /\ head = 0 /\ tail = 0 /\ msg_number = 0
  /\ overflowFlag = FALSE

\* Fault: one token of free_space too many.
SemaphoresOffByOne == [free_space |-> InitBufSize + 1, items |-> 0]

FreshSemaphores == [free_space |-> InitBufSize, items |-> 0]

Init ==
  /\ mainPc = "down"
  /\ FreshMemory
  /\ sem = FreshSemaphores
  /\ names = [s \in Semaphores |-> "absent"]
  /\ sessions = 0

-----------------------------------------------------------------------------
(* Sessions *)

\* sem_open creates a semaphore that does not exist.  One that a previous session
\* left behind keeps its value, whatever value is asked for, where the C library
\* ignores O_TRUNC; glibc truncates the file behind it.
Reopened(name, truncates) ==
  IF name = "absent" THEN "linked" ELSE IF truncates THEN "truncated" ELSE name

\* init.
Start ==
  /\ mainPc = "down"
  /\ sessions < MaxSessions
  /\ mainPc' = "menu"
  /\ sessions' = sessions + 1
  /\ sem' = [s \in Semaphores |-> IF names[s] = "absent" THEN FreshSemaphores[s] ELSE sem[s]]
  /\ \E truncates \in Truncates : names' = [s \in Semaphores |-> Reopened(names[s], truncates)]
  /\ UNCHANGED <<threadVars, mutex, queueVars>>

\* The process and all its threads end; the next one starts with fresh memory.
ProcessEnds(left) ==
  /\ mainPc' = "down"
  /\ amount' = [k \in Kinds |-> 0]
  /\ pc' = [t \in Threads |-> "none"]
  /\ msg' = [t \in Threads |-> NoMessage]
  /\ cancelled' = {}
  /\ mutex' = Nobody
  /\ bufSize' = InitBufSize
  /\ buffer' = [i \in Cells |-> NoMessage]
  /\ head' = 0 /\ tail' = 0 /\ msg_number' = 0
  /\ overflowFlag' = FALSE
  /\ names' = left
  /\ UNCHANGED <<sem, sessions>>

\* atexitHandler unlinks the semaphores unless the mutex is locked at that
\* moment: pthread_mutex_destroy then fails and the handler exits early.  A signal
\* may end it between the two unlinks.
AtexitHandler ==
  \/ mutex # Nobody /\ ProcessEnds(names)
  \/ mutex = Nobody /\ ProcessEnds([s \in Semaphores |-> "absent"])
  \/ mutex = Nobody /\ "kill" \in Commands /\ ProcessEnds([names EXCEPT !.free_space = "absent"])

Quit == mainPc = "menu" /\ "q" \in Commands /\ AtexitHandler
Kill == mainPc # "down" /\ "kill" \in Commands /\ ProcessEnds(names)

-----------------------------------------------------------------------------
(* The main thread *)

Create(k, start) ==
  /\ mainPc = "menu"
  /\ k \in Commands
  /\ amount[k] # MaxAmount(k)
  /\ pc' = [pc EXCEPT ![<<k, amount[k]>>] = start]
  /\ amount' = [amount EXCEPT ![k] = @ + 1]
  /\ UNCHANGED <<mainPc, msg, cancelled, mutex, queueVars, sem, systemVars>>

CreateProd == Create("P", "make")
CreateCons == Create("C", "wait")

\* Take the youngest thread off its array and request its cancellation.
Remove(k, key, join) ==
  /\ mainPc = "menu"
  /\ key \in Commands
  /\ amount[k] # 0
  /\ amount' = [amount EXCEPT ![k] = @ - 1]
  /\ cancelled' = cancelled \cup {<<k, amount[k] - 1>>}
  /\ mainPc' = join
  /\ UNCHANGED <<pc, msg, mutex, queueVars, sem, systemVars>>

RemoveProd == Remove("P", "p", "joinP")
RemoveCons == Remove("C", "c", "joinC")

\* Fault: main joins the thread below the one it cancelled.
JoinBelow(k, join) ==
  LET t == <<k, IF amount[k] = 0 THEN 0 ELSE amount[k] - 1>> IN
  /\ mainPc = join
  /\ pc[t] = "dead"
  /\ pc' = [pc EXCEPT ![t] = "none"]
  /\ mainPc' = "menu"
  /\ UNCHANGED <<amount, msg, cancelled, mutex, queueVars, sem, systemVars>>

\* pthread_join returns once the cancelled thread has ended.
Join(k, join) ==
  LET t == <<k, amount[k]>> IN
  /\ mainPc = join
  /\ pc[t] = "dead"
  /\ pc' = [pc EXCEPT ![t] = "none"]
  /\ msg' = [msg EXCEPT ![t] = NoMessage]
  /\ cancelled' = cancelled \ {t}
  /\ mainPc' = "menu"
  /\ UNCHANGED <<amount, mutex, queueVars, sem, systemVars>>

JoinRemoved == Join("P", "joinP") \/ Join("C", "joinC")

\* '+' and '-' first lock the mutex; the rest of each function runs under it.
Resize ==
  /\ mainPc = "menu"
  /\ \/ /\ "+" \in Commands
        /\ bufSize < MaxBufSize /\ sem.free_space < MaxFree
        /\ mainPc' = "incLock"
     \/ "-" \in Commands /\ mainPc' = "decLock"
  /\ UNCHANGED <<threadVars, mutex, queueVars, sem, systemVars>>

\* Fault: no token for the new cell.
IncBufSizeWithoutPost ==
  /\ mainPc = "incLock" /\ mutex = Nobody /\ names.free_space # "truncated"
  /\ bufSize' = bufSize + 1
  /\ mainPc' = "menu"
  /\ UNCHANGED <<threadVars, mutex, buffer, head, tail, msg_number, overflowFlag, sem, systemVars>>

\* The buffer gets one cell more at its end, wherever head and tail are.  When realloc
\* fails the function returns without unlocking: nobody gets to look at a buffer then.
IncBufSize ==
  /\ mainPc = "incLock" /\ mutex = Nobody
  /\ bufSize' = bufSize + 1
  /\ \/ /\ names.free_space # "truncated"
        /\ sem' = [sem EXCEPT !.free_space = @ + 1]
        /\ UNCHANGED mutex
     \/ mutex' = Main /\ UNCHANGED sem
  /\ mainPc' = "menu"
  /\ UNCHANGED <<threadVars, buffer, head, tail, msg_number, overflowFlag, systemVars>>

\* realloc drops the last cell.
Shrunk(b) == [b EXCEPT ![bufSize - 1] = NoMessage]
TailBack(i) == IF i # 0 THEN i - 1 ELSE i

\* Fault: the removed message's token is not taken.
DecBufSizeWithoutWait ==
  /\ mainPc = "decLock" /\ mutex = Nobody
  /\ bufSize > 1
  /\ bufSize' = bufSize - 1
  /\ msg_number' = IF msg_number # 0 THEN msg_number - 1 ELSE 0
  /\ buffer' = Shrunk(buffer) /\ tail' = TailBack(tail) /\ mainPc' = "menu"
  /\ UNCHANGED <<threadVars, mutex, head, overflowFlag, sem, systemVars>>

\* At size 0, or when realloc fails, the function returns without unlocking.
\* Otherwise it takes the youngest message out, but no token of free_space, and
\* waits for the message's token with the mutex locked.
DecBufSize ==
  /\ mainPc = "decLock" /\ mutex = Nobody
  /\ bufSize' = bufSize - 1
  /\ \/ /\ mutex' = Main /\ mainPc' = "menu"
        /\ UNCHANGED <<buffer, msg_number, tail>>
     \/ /\ bufSize > 1 /\ msg_number = 0
        /\ buffer' = Shrunk(buffer) /\ tail' = TailBack(tail) /\ mainPc' = "menu"
        /\ UNCHANGED <<mutex, msg_number>>
     \/ /\ bufSize > 1 /\ msg_number > 0
        /\ buffer' = Shrunk(buffer) /\ msg_number' = msg_number - 1
        /\ mutex' = Main /\ mainPc' = "decWait"
        /\ UNCHANGED tail
  /\ UNCHANGED <<threadVars, head, overflowFlag, sem, systemVars>>

DecFinish ==
  /\ mainPc = "decWait" /\ sem.items > 0 /\ names.items # "truncated"
  /\ sem' = [sem EXCEPT !.items = @ - 1]
  /\ tail' = TailBack(tail)
  /\ mutex' = Nobody /\ mainPc' = "menu"
  /\ UNCHANGED <<threadVars, bufSize, buffer, head, msg_number, overflowFlag, systemVars>>

\* glibc: sem_post in '+' and sem_wait in '-' on a semaphore that was truncated.
MainBusError ==
  /\ \/ mainPc = "incLock" /\ mutex = Nobody /\ names.free_space = "truncated"
     \/ mainPc = "decWait" /\ names.items = "truncated"
  /\ ProcessEnds(names)

MainThread ==
  \/ CreateProd \/ CreateCons \/ RemoveProd \/ RemoveCons \/ JoinRemoved
  \/ Resize \/ IncBufSize \/ DecBufSize \/ DecFinish
  \/ MainBusError \/ Quit

-----------------------------------------------------------------------------
(* The workers *)

Goto(t, from, to) == pc[t] = from /\ pc' = [pc EXCEPT ![t] = to]
Needs(t) == IF t \in Producers THEN "free_space" ELSE "items"
Provides(t) == IF t \in Producers THEN "items" ELSE "free_space"

CreateMessage(p) ==
  /\ Goto(p, "make", "wait")
  /\ \E m \in Message : msg' = [msg EXCEPT ![p] = m]
  /\ UNCHANGED <<mutex, queueVars, sem>>

SemWait(t) ==
  /\ names[Needs(t)] # "truncated"
  /\ sem[Needs(t)] > 0
  /\ Goto(t, "wait", "lock")
  /\ sem' = [sem EXCEPT ![Needs(t)] = @ - 1]
  /\ UNCHANGED <<msg, mutex, queueVars>>

Lock(t) ==
  /\ mutex = Nobody
  /\ Goto(t, "lock", "access")
  /\ mutex' = t
  /\ UNCHANGED <<msg, queueVars, sem>>

\* Fault: the index is never wrapped.
NoWrap(i) == i

Wrap(i) == IF i = bufSize THEN 0 ELSE i

\* A full buffer raises overflowFlag, which nothing ever lowers.
PutMsg(p) ==
  /\ Goto(p, "access", "spin")
  /\ \/ /\ msg_number = bufSize
        /\ overflowFlag' = TRUE
        /\ UNCHANGED <<buffer, tail, msg_number>>
     \/ /\ msg_number # bufSize
        /\ buffer' = [buffer EXCEPT ![Wrap(tail)] = msg[p]]
        /\ tail' = Wrap(tail) + 1
        /\ msg_number' = msg_number + 1
        /\ UNCHANGED overflowFlag
  /\ UNCHANGED <<msg, mutex, bufSize, head, sem>>

LeaveSpin(p) ==
  /\ ~overflowFlag
  /\ Goto(p, "spin", "unlock")
  /\ UNCHANGED <<msg, mutex, queueVars, sem>>

\* A read past the end of the buffer finds no message.
Cell(i) == IF i < bufSize THEN buffer[i] ELSE NoMessage

\* Fault: head is not wrapped before the read.
GetMsgBeforeWrap(c) ==
  /\ msg_number # 0
  /\ Goto(c, "access", "unlock")
  /\ msg' = [msg EXCEPT ![c] = Cell(head)]
  /\ head' = Wrap(head) + 1
  /\ msg_number' = msg_number - 1
  /\ UNCHANGED <<mutex, bufSize, buffer, tail, overflowFlag, sem>>

GetMsg(c) ==
  /\ msg_number # 0
  /\ Wrap(head) < MaxHead
  /\ Goto(c, "access", "unlock")
  /\ msg' = [msg EXCEPT ![c] = Cell(Wrap(head))]
  /\ head' = Wrap(head) + 1
  /\ msg_number' = msg_number - 1
  /\ UNCHANGED <<mutex, bufSize, buffer, tail, overflowFlag, sem>>

Unlock(t) ==
  /\ Goto(t, "unlock", "post")
  /\ mutex' = Nobody
  /\ UNCHANGED <<msg, queueVars, sem>>

SemPost(t) ==
  /\ names[Provides(t)] # "truncated"
  /\ Goto(t, "post", "sleep")
  /\ sem' = [sem EXCEPT ![Provides(t)] = @ + 1]
  /\ UNCHANGED <<msg, mutex, queueVars>>

\* The next round overwrites msg before it reads it.
Repeat(t) ==
  /\ t \notin cancelled
  /\ Goto(t, "sleep", IF t \in Producers THEN "make" ELSE "wait")
  /\ msg' = [msg EXCEPT ![t] = NoMessage]
  /\ UNCHANGED <<mutex, queueVars, sem>>

\* sem_wait, printf and sleep are the cancellation points; a thread cancelled in
\* sem_wait has taken no token.
Cancel(t) ==
  /\ t \in cancelled
  /\ Goto(t, "wait", "dead") \/ Goto(t, "sleep", "dead")
  /\ UNCHANGED <<msg, mutex, queueVars, sem>>

\* getMsg ends the whole program when it is called on an empty queue; the thread
\* in it holds the mutex.
Underflow(c) == pc[c] = "access" /\ msg_number = 0 /\ AtexitHandler

\* glibc: using a semaphore whose file was truncated is a bus error.
BusError(t) ==
  /\ \/ pc[t] = "wait" /\ names[Needs(t)] = "truncated"
     \/ pc[t] = "post" /\ names[Provides(t)] = "truncated"
  /\ ProcessEnds(names)

Step(t) ==
  /\ \/ SemWait(t) \/ Lock(t) \/ Unlock(t) \/ SemPost(t) \/ Repeat(t) \/ Cancel(t)
     \/ t \in Producers /\ (CreateMessage(t) \/ PutMsg(t) \/ LeaveSpin(t))
     \/ t \in Consumers /\ GetMsg(t)
  /\ UNCHANGED <<mainPc, amount, cancelled, systemVars>>

Worker(t) == Step(t) \/ (t \in Consumers /\ Underflow(t)) \/ BusError(t)

Next ==
  \/ Start \/ Kill
  \/ MainThread
  \/ \E t \in Threads : Worker(t)

Spec == Init /\ [][Next]_vars

\* Every thread that can run does; sem_post and pthread_mutex_unlock wake a
\* waiter, and every worker sleeps for seconds in each round, so a thread that
\* waits for the mutex or for a token gets it.  Nothing forces a key press.
Fairness ==
  /\ SF_vars(JoinRemoved \/ IncBufSize \/ DecBufSize \/ DecFinish)
  /\ \A t \in Threads : SF_vars(Worker(t))

FairSpec == Spec /\ Fairness

-----------------------------------------------------------------------------
(* Properties *)

\* Every variable has the type its declaration gives it.
TypeOK ==
  /\ mainPc \in {"down", "menu", "joinP", "joinC", "incLock", "decLock", "decWait"}
  /\ amount \in [Kinds -> Nat]
  /\ \A k \in Kinds : amount[k] <= MaxAmount(k)
  /\ pc \in [Threads -> {"none", "make", "wait", "lock", "access", "spin", "unlock", "post",
                         "sleep", "dead"}]
  /\ msg \in [Threads -> Message \cup {NoMessage}]
  /\ cancelled \in SUBSET Threads
  /\ mutex \in Threads \cup {Nobody, Main}
  /\ bufSize \in 0 .. MaxBufSize
  /\ buffer \in [Cells -> Message \cup {NoMessage}]
  /\ head \in 0 .. MaxHead /\ tail \in 0 .. MaxBufSize
  /\ msg_number \in 0 .. MaxBufSize
  /\ overflowFlag \in BOOLEAN
  /\ sem \in [Semaphores -> Nat]
  /\ names \in [Semaphores -> {"absent", "linked", "truncated"}]
  /\ sessions \in 0 .. MaxSessions

Number(S, Q) == Cardinality({t \in S : pc[t] \in Q})
FirstSession == mainPc # "down" /\ sessions = 1
One(b) == IF b THEN 1 ELSE 0

\* Every message in the queue has exactly one token of items: in the semaphore,
\* with the producer that is about to post it or with the consumer that has taken
\* it.  It holds while threads are cancelled and while '+' and '-' resize the
\* queue, so getMsg never meets an empty queue in a session whose semaphores
\* start out fresh.
ItemsMatchMessages ==
  FirstSession =>
    sem.items + Number(Producers, {"spin", "unlock", "post"}) + Number(Consumers, {"lock", "access"})
      = msg_number + One(overflowFlag) + One(mainPc = "decWait")

\* The tokens of free_space, counting those that threads hold.
SlotTokens ==
  sem.free_space + Number(Producers, {"lock", "access"}) + Number(Consumers, {"unlock", "post"})

\* main has returned to its menu from '+' or '-' with the mutex, for ever.
KeptMutex == mutex = Main /\ mainPc # "decWait"

\* No free cell is without a token, whatever is resized or cancelled, unless main keeps
\* the mutex: the tokens of free_space never say that there is less room than there is.
NoSlotLost ==
  FirstSession /\ ~KeptMutex => SlotTokens + msg_number + One(overflowFlag) >= bufSize

\* A producer that has its token finds a free cell: overflowFlag stays down, in
\* later sessions too, which may inherit the semaphores of a killed one.
NeverOverflows == ~overflowFlag

-----------------------------------------------------------------------------
(* The queue implements a bounded FIFO channel while its size is not changed. *)

Contents ==
  [i \in 1 .. msg_number |->
     buffer[IF head + i - 1 < bufSize THEN head + i - 1 ELSE head + i - 1 - bufSize]]

HoldsMessage(t) ==
  pc[t] \in IF t \in Producers THEN {"wait", "lock", "access"} ELSE {"unlock", "post", "sleep"}

Held == [t \in Threads |-> IF HoldsMessage(t) THEN msg[t] ELSE NoMessage]

Fifo == INSTANCE BoundedFifo WITH channel <- Contents, held <- Held, Capacity <- InitBufSize

\* In every session messages come out at most once and in the order they were
\* put, whatever semaphores the session inherited; they alone order the producers
\* and consumers, which share no condition variable.  A session's end empties the
\* channel.
ImplementsFifo == Fifo!FifoInit /\ [][mainPc' # "down" => Fifo!FifoNext]_<<Contents, Held>>

\* Deleting a worker returns to the menu, unless the program ends: a cancelled thread reaches a
\* cancellation point, and it never ends with the mutex or a token in its hands.
RemovalReturns == mainPc \in {"joinP", "joinC"} ~> mainPc \in {"menu", "down"}

=================================================================================
