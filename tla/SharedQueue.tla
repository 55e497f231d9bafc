------------------------------ MODULE SharedQueue ------------------------------
(***************************************************************************)
(* lab4: main.c forks producer and consumer processes, which share a queue *)
(* in POSIX shared memory guarded by three named semaphores.  SIGUSR1 asks *)
(* a child to finish its round and exit; quitting kills every child.       *)
(* What a message holds is left out, except the length that createHash     *)
(* depends on.                                                             *)
(*                                                                         *)
(* A child's pc is the statement it executes next:                         *)
(*   start   forked, SIGUSR1 not handled yet   loop    while(flag)         *)
(*   make    createMsg                         hash    createHash's loop   *)
(*   wait    sem_wait(freeSpace / items)       lock    sem_wait(mutex)     *)
(*   access  putMsg / getMsg                   unlock  sem_post(mutex)     *)
(*   post    sem_post(items / freeSpace)       sleep   printf and sleep    *)
(*   zombie  exited, not yet waited for        none    no child            *)
(***************************************************************************)
EXTENDS Integers, FiniteSets

CONSTANTS
  PROD_MAX,  \* most producers at a time (CHILD_MAX - 1 in the code)
  CONS_MAX,  \* most consumers at a time (CHILD_MAX - 1 in the code)
  MSG_MAX,   \* cells of the queue's buffer
  Sizes,     \* the lengths createMsg draws, a subset of 1 .. 255
  MaxHead,   \* bound: no message is read at or after this index
  Commands   \* the keys pressed

Producers == {"P"} \X (0 .. PROD_MAX - 1)
Consumers == {"C"} \X (0 .. CONS_MAX - 1)
Children == Producers \cup Consumers

ASSUME SharedAssumption ==
  /\ PROD_MAX \in Nat /\ CONS_MAX \in Nat
  /\ MSG_MAX \in Nat \ {0, 1}
  /\ Sizes \subseteq 1 .. 255
  /\ MaxHead \in Nat

VARIABLES
  mainPc,     \* what main is doing
  amount,     \* amount["P"] is producersAmount, amount["C"] is consumersAmount
  reaped,     \* the index of atexitHandler's two loops, taken as one
  pc,         \* statement each child executes next
  size,       \* each producer's msg.size
  flag,       \* each child's flag
  mutex, freeSpace, items,  \* the values of the semaphores
  msg_count, head, tail     \* *queue

semVars == <<mutex, freeSpace, items>>
queueVars == <<msg_count, head, tail>>
vars == <<mainPc, amount, reaped, pc, size, flag, semVars, queueVars>>

Kinds == {"P", "C"}
MaxAmount(k) == IF k = "P" THEN PROD_MAX ELSE CONS_MAX

Init ==
  /\ mainPc = "menu"
  /\ amount = [k \in Kinds |-> 0]
  /\ reaped = 0
  /\ pc = [t \in Children |-> "none"]
  /\ size \in [Producers -> Sizes]       \* uninitialised
  /\ flag = [t \in Children |-> TRUE]
  /\ mutex = 1 /\ freeSpace = MSG_MAX /\ items = 0
  /\ msg_count = 0 /\ head = 0 /\ tail = 0

-----------------------------------------------------------------------------
(* main.c *)

\* fork and execl; the msg of the new process is uninitialised.
Create(k) ==
  LET t == <<k, amount[k]>> IN
  /\ mainPc = "menu"
  /\ k \in Commands
  /\ amount[k] # MaxAmount(k)
  /\ pc' = [pc EXCEPT ![t] = "start"]
  /\ flag' = [flag EXCEPT ![t] = TRUE]
  /\ amount' = [amount EXCEPT ![k] = @ + 1]
  /\ \/ k = "P" /\ \E n \in Sizes : size' = [size EXCEPT ![t] = n]
     \/ k = "C" /\ UNCHANGED size
  /\ UNCHANGED <<mainPc, reaped, semVars, queueVars>>

\* SIGUSR1 clears the child's flag, or kills a child that has not installed its
\* handler; a child blocked in sem_wait goes on waiting (SA_RESTART).
Delete(k, key) ==
  LET t == <<k, amount[k] - 1>> IN
  /\ mainPc = "menu"
  /\ key \in Commands
  /\ amount[k] # 0
  /\ amount' = [amount EXCEPT ![k] = @ - 1]
  /\ \/ pc[t] = "start" /\ pc' = [pc EXCEPT ![t] = "zombie"] /\ UNCHANGED flag
     \/ pc[t] # "start" /\ flag' = [flag EXCEPT ![t] = FALSE] /\ UNCHANGED pc
  /\ mainPc' = "wait"
  /\ UNCHANGED <<reaped, size, semVars, queueVars>>

\* wait(NULL) takes any child that has exited.
Reap(from, to) ==
  /\ mainPc = from
  /\ \E t \in Children : pc[t] = "zombie" /\ pc' = [pc EXCEPT ![t] = "none"]
  /\ mainPc' = to
  /\ UNCHANGED <<amount, size, flag, semVars, queueVars>>

DeleteReap == Reap("wait", "menu") /\ UNCHANGED reaped

Quit ==
  /\ mainPc = "menu" /\ "q" \in Commands
  /\ mainPc' = "exit"
  /\ UNCHANGED <<amount, reaped, pc, size, flag, semVars, queueVars>>

\* The children atexitHandler kills.
Victims == {t \in Children : t[2] < amount[t[1]]}

\* Producers first, each kind in the order of its array.
Position(t) == IF t \in Producers THEN t[2] ELSE amount["P"] + t[2]

\* Fault: the children are sent SIGUSR1 instead of SIGKILL.
AtexitAsk ==
  /\ mainPc = "exit"
  /\ \E t \in Victims : Position(t) = reaped /\ flag' = [flag EXCEPT ![t] = FALSE]
  /\ mainPc' = "exitWait"
  /\ UNCHANGED <<amount, reaped, pc, size, semVars, queueVars>>

AtexitKill ==
  /\ mainPc = "exit"
  /\ \E t \in Victims : Position(t) = reaped /\ pc' = [pc EXCEPT ![t] = "zombie"]
  /\ mainPc' = "exitWait"
  /\ UNCHANGED <<amount, reaped, size, flag, semVars, queueVars>>

AtexitReap == Reap("exitWait", "exit") /\ reaped' = reaped + 1

\* The shared memory and the semaphores are unlinked, and main ends.
AtexitUnlink ==
  /\ mainPc = "exit"
  /\ reaped = Cardinality(Victims)
  /\ mainPc' = "done"
  /\ UNCHANGED <<amount, reaped, pc, size, flag, semVars, queueVars>>

Main ==
  \/ Create("P") \/ Create("C") \/ Delete("P", "p") \/ Delete("C", "c") \/ DeleteReap
  \/ Quit \/ AtexitKill \/ AtexitReap \/ AtexitUnlink

-----------------------------------------------------------------------------
(* producer.c and consumer.c *)

Goto(t, from, to) == pc[t] = from /\ pc' = [pc EXCEPT ![t] = to]

\* signal(SIGUSR1, killHandler), and mapping the queue.
InitChild(t) ==
  /\ Goto(t, "start", "loop")
  /\ UNCHANGED <<size, semVars, queueVars>>

Loop(t) ==
  /\ Goto(t, "loop", IF ~flag[t] THEN "zombie" ELSE IF t \in Producers THEN "make" ELSE "wait")
  /\ UNCHANGED <<size, semVars, queueVars>>

\* One draw in 256 leaves msg.size as it was.
CreateMsg(p) ==
  /\ Goto(p, "make", "hash")
  /\ (\E n \in Sizes : size' = [size EXCEPT ![p] = n]) \/ UNCHANGED size
  /\ UNCHANGED <<semVars, queueVars>>

\* The counter of the loop is a uint8_t: it reaches size + 4 only up to 255.
CreateHash(p) ==
  /\ size[p] + 4 <= 255
  /\ Goto(p, "hash", "wait")
  /\ UNCHANGED <<size, semVars, queueVars>>

Wait(t) ==
  /\ Goto(t, "wait", "lock")
  /\ \/ t \in Producers /\ freeSpace > 0 /\ freeSpace' = freeSpace - 1 /\ UNCHANGED items
     \/ t \in Consumers /\ items > 0 /\ items' = items - 1 /\ UNCHANGED freeSpace
  /\ UNCHANGED <<mutex, size, queueVars>>

\* Fault: the mutex is not waited for.
LockFree(t) ==
  /\ Goto(t, "lock", "access")
  /\ mutex' = IF mutex > 0 THEN mutex - 1 ELSE 0
  /\ UNCHANGED <<freeSpace, items, size, queueVars>>

Lock(t) ==
  /\ mutex > 0
  /\ Goto(t, "lock", "access")
  /\ mutex' = mutex - 1
  /\ UNCHANGED <<freeSpace, items, size, queueVars>>

Wrap(i) == IF i = MSG_MAX THEN 0 ELSE i

\* Fault: the buffer may fill up completely.
PutMsgFull(p) ==
  /\ Goto(p, "access", "unlock")
  /\ tail' = Wrap(tail) + 1
  /\ msg_count' = msg_count + 1
  /\ UNCHANGED <<head, size, semVars>>

\* The last cell is never filled: putMsg then drops the message and returns.
PutMsg(p) ==
  /\ Goto(p, "access", "unlock")
  /\ \/ msg_count = MSG_MAX - 1 /\ UNCHANGED <<tail, msg_count>>
     \/ msg_count # MSG_MAX - 1 /\ tail' = Wrap(tail) + 1 /\ msg_count' = msg_count + 1
  /\ UNCHANGED <<head, size, semVars>>

\* On an empty queue getMsg returns and msg keeps its old value.  The statement
\* "queue->head;" does not reset head.
GetMsg(c) ==
  /\ Goto(c, "access", "unlock")
  /\ \/ msg_count = 0 /\ UNCHANGED <<head, msg_count>>
     \/ msg_count # 0 /\ head < MaxHead /\ head' = head + 1 /\ msg_count' = msg_count - 1
  /\ UNCHANGED <<tail, size, semVars>>

Unlock(t) ==
  /\ Goto(t, "unlock", "post")
  /\ mutex' = mutex + 1
  /\ UNCHANGED <<freeSpace, items, size, queueVars>>

\* Fault: a consumer that found nothing keeps its token of freeSpace.
PostIfGot(t) ==
  /\ Goto(t, "post", "sleep")
  /\ \/ t \in Producers /\ items' = items + 1 /\ UNCHANGED freeSpace
     \/ /\ t \in Consumers /\ UNCHANGED items
        /\ freeSpace' = IF msg_count # 0 THEN freeSpace + 1 ELSE freeSpace
  /\ UNCHANGED <<mutex, size, queueVars>>

\* Fault: the token goes back to the semaphore it came from.
PostBack(t) ==
  /\ Goto(t, "post", "sleep")
  /\ \/ t \in Producers /\ freeSpace' = freeSpace + 1 /\ UNCHANGED items
     \/ t \in Consumers /\ items' = items + 1 /\ UNCHANGED freeSpace
  /\ UNCHANGED <<mutex, size, queueVars>>

Post(t) ==
  /\ Goto(t, "post", "sleep")
  /\ \/ t \in Producers /\ items' = items + 1 /\ UNCHANGED freeSpace
     \/ t \in Consumers /\ freeSpace' = freeSpace + 1 /\ UNCHANGED items
  /\ UNCHANGED <<mutex, size, queueVars>>

Sleep(t) ==
  /\ Goto(t, "sleep", "loop")
  /\ UNCHANGED <<size, semVars, queueVars>>

Child(t) ==
  /\ \/ InitChild(t) \/ Loop(t) \/ Wait(t) \/ Lock(t) \/ Unlock(t) \/ Post(t) \/ Sleep(t)
     \/ t \in Producers /\ (CreateMsg(t) \/ CreateHash(t) \/ PutMsg(t))
     \/ t \in Consumers /\ GetMsg(t)
  /\ UNCHANGED <<mainPc, amount, reaped, flag>>

Next == Main \/ \E t \in Children : Child(t)

Spec == Init /\ [][Next]_vars

\* The kernel runs every process that can run; nothing forces a key press.
Fairness ==
  /\ WF_vars(DeleteReap \/ AtexitKill \/ AtexitReap \/ AtexitUnlink)
  /\ \A t \in Children : WF_vars(Child(t))

FairSpec == Spec /\ Fairness

-----------------------------------------------------------------------------
(* Properties *)

\* Every variable has the type its declaration gives it; head, which getMsg never
\* resets, is no index of the buffer from MSG_MAX on.
TypeOK ==
  /\ mainPc \in {"menu", "wait", "exit", "exitWait", "done"}
  /\ amount \in [Kinds -> Nat]
  /\ \A k \in Kinds : amount[k] <= MaxAmount(k)
  /\ reaped \in 0 .. PROD_MAX + CONS_MAX
  /\ pc \in [Children -> {"none", "start", "loop", "make", "hash", "wait", "lock", "access",
                          "unlock", "post", "sleep", "zombie"}]
  /\ size \in [Producers -> Sizes]
  /\ flag \in [Children -> BOOLEAN]
  /\ mutex \in 0 .. 1 /\ freeSpace \in 0 .. MSG_MAX /\ items \in 0 .. MSG_MAX
  /\ msg_count \in 0 .. MSG_MAX - 1 /\ head \in 0 .. MaxHead /\ tail \in 0 .. MSG_MAX

Number(S, Q) == Cardinality({t \in S : pc[t] \in Q})
Session == mainPc \in {"menu", "wait"}

\* The mutex semaphore lets one process at a time touch the queue, however many
\* children are told to stop.
MutexDiscipline == Session => mutex + Number(Children, {"access", "unlock"}) = 1

\* A child that stops gives its tokens back: freeSpace, items and the children in
\* the middle of a round always add up to the size of the buffer.
TokensConserved ==
  Session => freeSpace + items + Number(Children, {"lock", "access", "unlock", "post"}) = MSG_MAX

\* Every message in the queue has a token of items, so that a consumer can come
\* for it, although putMsg may drop a message and getMsg may find none.
NoMessageStranded ==
  Session => msg_count <= items + Number(Producers, {"unlock", "post"})
                                + Number(Consumers, {"lock", "access"})

\* Quitting ends whatever the children are blocked on, and when main ends it has
\* killed and reaped every one of them.
QuitEnds == (mainPc = "exit") ~> (mainPc = "done" /\ \A t \in Children : pc[t] = "none")

================================================================================
