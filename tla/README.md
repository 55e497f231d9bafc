# Verification of the operating-systems lab programs

The repository holds the C programs of a course on operating systems and
system programming, one directory per lab. Most of them are small concurrent
systems: threads around a monitor, threads and processes around semaphores,
threads that share out the blocks of a file, processes that signal each other,
a socket server. This directory holds TLA+ specifications of them, TLC
configurations that check the specifications on small instances, and proofs, for
every size, of each safety property that a passing run checks.

## Inventory

| Part | State | Operations | What is hard | What makes it correct |
|---|---|---|---|---|
| **Monitor queue**, `lab7/part_1/main.c` | ring buffer (`buffer`, `head`, `tail`, three counters), one mutex, two condition variables, two arrays of threads | keys `P p C c q`; the loops of `producersHandler` and `consumersHandler`; `atexitHandler` | wakeups are signalled once and never broadcast; threads are cancelled anywhere in their round, also inside `pthread_cond_wait` | mutual exclusion, no lost wakeup, no get from an empty queue, FIFO delivery |
| **Semaphore queue**, `lab5/main.c` | ring buffer of changing size, mutex, named semaphores `free_space` and `items`, `overflowFlag` | keys `P p C c + - q`; `prodHandler`, `consHandler` | two semaphores and a mutex, resizing under the workers, semaphores that outlive the process | a token per free cell and per message, FIFO delivery, commands that return |
| **Shared-memory queue**, `lab4/main.c`, `producer.c`, `consumer.c` | queue in shared memory, semaphores `mutex`, `freeSpace`, `items`, child pids | keys `P p C c q`; the children's loops; SIGUSR1; SIGKILL on exit | children are told to stop at any point; blocked children; `wait` reaps any child | tokens add up, nobody is left behind, deleting returns |
| **Index sorter**, `lab6/sortIndex.c` (`lab6_1` differs in one constant) | `blocks[]` (`free`, `size`), global flag `all`, mutex, the mapped file | sorting threads, then merging threads, two rounds of joins | a global flag read outside the mutex, blocks taken and handed back outside it, byte offsets | no block left out, few dropped, disjoint pairs whose sizes add up, copies inside the blocks, both phases end |
| Index generators, `lab6/source.c`, `lab6_1/generateIndex.c` | a file | sequential | - | layout of the file |
| **Record editor**, `lab7/part_2/main.c` | a file of records, `fcntl` locks; each editor's option, buffer and file position | show all, get, change; several editors at a time, which may be killed | the lock is given back before the write; data is read before the lock; `F_SETLK` fails and is retried | changes reach their own record, overtaken only by a write that is ten seconds late; each command returns |
| Record file maker, `lab7/part_2/file_make.c` | a file | sequential | - | - |
| **Training server**, `lab8/server`, `lab8/client` | `threadCount`, `threads[]`, `isRunning`, one socket variable passed by address | accept loop, one handler per client (ECHO, INFO, LIST, CD, QUIT), SIGINT; the client's prompt | unsynchronised counter, socket overwritten by the next accept, joins from a signal handler, disconnects and SIGPIPE, requests without an answer | the count leads behind no slot that was not filled, and before the array (it does lead there) no further than threads have ended; shutdown ends unless a thread and its client wait for each other |
| **Child statistics**, `lab3/newchi.c`, `lab3_1/chi/main.c` | a pair of ints, four counters, a print flag | main loop, timer and SIGUSR handlers | handlers interrupt the loop between two assignments and the clearing between two stores | no period is missed; a report adds up to the period but for one round's ticks |
| **Signal parents**, `lab3/newpar.c`, `lab3_1/par` | children's pids and flags | add, kill, allow and forbid output, stop, continue; SIGUSR1 from a child that starts | the handler stops and continues all children in the middle of main's commands | no child is left stopped, every signal arrives, no child is left behind |
| Process launcher, `lab2` | environment, child counter | fork, exec, wait | strings | - |
| Directory walker, `lab1/dirwalk.c` | a list of names | sequential | comparison function | names sorted |
| Zombie demonstration, `zombie_process` | - | one fork | - | - |

The programs do not talk to each other; inside a program the parts interact by
shared memory (threads of lab5, lab6, lab7 and lab8, processes of lab4), by
semaphores, condition variables and signals, by a file and its locks (the editors
of lab7), by sockets (lab8), and by the joins and waits of the main thread.
`PROJECT.json` lists the hazards, each at its line, with the properties that
cover it.

## Modules

| Module | Models |
|---|---|
| `BoundedFifo` | the abstract specification of both thread queues: a bounded channel that delivers each message at most once and in order; only a message in the hands of a deleted thread may be lost |
| `MonitorQueue` | `lab7/part_1/main.c` |
| `SemaphoreQueue` | `lab5/main.c` and its restarts |
| `SharedQueue` | `lab4` |
| `BlockSort` | `lab6/sortIndex.c` |
| `RecordFile` | `lab7/part_2/main.c`, several editors of one file |
| `TrainingServer` | `lab8/server` composed with the clients of `lab8/client` |
| `ChildStatistics` | the children of lab3 and lab3_1 |
| `AskParent` | the parent of lab3 composed with the signals of its children |
| `MonitorQueue_proof`, `SemaphoreQueue_proof`, `SharedQueue_proof`, `BlockSort_proof`, `RecordFile_proof`, `TrainingServer_proof`, `ChildStatistics_proof`, `AskParent_proof` | theorems about these modules for every value of their constants |

The variables keep the source's names. A worker's `pc` names the statement it
executes next (the table at the head of each module); a step runs from one
point where another thread can interfere to the next. Data reduced to what
matters: a message is a model value, except for its length where `createHash`
depends on it; a record of the index is a handful of memory units.

Each operator whose comment begins with `Fault:` is a plausible bug. It is not
part of the specification; substituted for the definition that follows it, it
must break the property that `PROJECT.json` names beside it.

**MonitorQueue.** `Create`, `CancelLast` and `Join` are the menu's operations
and, with other continuations, `atexitHandler`. `Lock`, `Wait`, `Proceed`,
`PutMessage`/`GetMessage`, `Signal`, `Unlock`, `Repeat` are the statements of the
handlers. Cancellation is deferred, as it is by default, and acts at printf,
sleep and `pthread_cond_wait` (`CancelledAsleep`, `Wait`, `Die`): a thread
cancelled inside `pthread_cond_wait` takes the mutex back, ends and leaves it
locked (`mutex = Ended`). `SpuriousWakeup` lets `pthread_cond_wait` return
without a signal. A failing `pthread_create` calls `exit` and takes the path of
`Quit`. `add_count` and `extract_count` wrap at `CountMod`, which stands for 2^32
(the ints are compiled to wrap).

**SemaphoreQueue.** `Start` creates the semaphores or finds those of an earlier
session: with O_TRUNC some libraries keep the old value, glibc truncates the
file and the first use ends in a bus error (`BusError`, `MainBusError`); `Truncates`
says which of the two a run allows. The two semaphores are opened as one step.
`Kill` ends the process anywhere, `Quit` and the exit in `getMsg` run
`atexitHandler`. Its two calls of `sem_unlink` are two steps for whoever comes next:
a signal between them leaves `items` behind without `free_space`, which is an outcome
of `AtexitHandler`. What workers do between the two calls is left out: they have the
semaphores open, so nothing they do depends on the names. `DecBufSize` and
`DecFinish` are the two halves of `decBufSize` around its `sem_wait`. A `realloc` that
fails is an outcome of `IncBufSize` and of `DecBufSize`: both functions then return
with the mutex locked, after which nobody looks at a buffer again. Cells past the end
of the buffer hold `NoMessage`, and so does a worker's `msg` between two rounds, where
the code keeps the old message and overwrites it before it reads it. The
`add_number` and `extract_number` totals are only printed and are left out.

**SharedQueue.** SIGUSR1 kills a child that has not installed its handler and
otherwise clears its flag; `sem_wait` is restarted after the handler. `Reap` is
`wait(NULL)`, which takes any zombie. What a message holds is left out. Reads
past the end of the buffer go on up to `MaxHead`; far enough past it the program
would fault. `fscanf(stderr, ...)` on the full queue returns at once. A failing
`execl` is left out. (`killHandler` in the consumer and `createHash` in the
producer are used before any declaration; the model takes the meaning the
authors' compiler gave them.)

**BlockSort.** `free` means "not yet taken" while sorting and "held or absorbed"
while merging. `SortLock` raises `all` before the search as line 92 does, and
`SortCheck` reads it after the mutex was released. The search of `sortThread` is
one step, since flags only fall in that phase; the search of `mergeBlocks` is
one step per block, since blocks are handed back without the mutex. Two `qsort`
calls on one block leave it `sorted` or `torn`. Of a `memcpy` the model has the range
it reads (`CopySource`) and the range it overwrites (`CopyTarget`), not the records:
what the copies do to them is no property the code has (see the disagreements).
`memsize`, `blockSize` and `Start` are the source's arithmetic in units of half a
record's size or less: `RecordUnits` is chosen so that the header's 8 bytes divide over
the blocks as they do in bytes.

**RecordFile.** One action per system call of the scan and of `rewrite_record`;
`offset` is the position of the editor's descriptor, so that a write lands where
`Seek` and the reads left it. `Input` stands for the three prompts for new data. `Write`
includes the `close` that follows. Locks are sets of editors because a read
lock, which the code does not use, could have several. The lock is gone when the
write comes, and nothing keeps the next owner, its ten seconds of sleep included, from
going first: `Sleep` has no guard. Two history variables say who did: `ahead`, the
editors that got the lock of an editor's record before it and have yet to write, and
`late`, those that have yet to write although a later owner's ten seconds are over.
`LockError` is an error of `fcntl` other than EAGAIN, after which the change is given
up. `End` is option 0 or, for the editors in `MayKill`, a signal at any moment. Opening a
file that does not exist is left out.

**TrainingServer.** A thread is named after the client whose connection made main
create it; the connection it serves is the one behind `clientSocket` when it gets
to read its argument, which may be a later client's. `threadCount++` and
`threadCount--` are a load and a store each. `files` maps descriptors to
connections, and a closed descriptor is given out again; a read that blocks keeps
its connection (`conn`). `peer` is what the server sees of the client's end: after
`left` a read returns 0 and a write may bring a reset, after `reset` (the client
left with unread answers) a read fails once, and in `broken` the next write
raises SIGPIPE, which ends the server (`ProcessEnds`). SIGINT is delivered to main
at any statement. The client alternates between its prompt and a read, which may
return several answers at once (`Receive`). Requests that have an answer are one
request, `ask`; those that have none are `mute`: a LIST that fails, and a CD between
whose two steps another thread's CD lowered the global `flag`. (When another CD raises
it instead, the failing CD is answered twice; that second answer is left out.)
`SendNothing` is an empty line, which is not sent at all, and after which the client
reads all the same. What ECHO, INFO, LIST and CD compute is left out. Requests from a
file (`@name`) are the same exchange, line by line. `accept` may fail for a connection
that was reset, and main goes on with the descriptor -1 (`Accept`); `pthread_create` may
fail, and main exits (`Create`). `threads` is the array and the memory before it, into
which `Create` writes when the count is negative; what else that memory is for is left
out.

**ChildStatistics.** One action per statement of the loop, per argument loaded for
`sprintf`, and per store of the clearing; `ClearOrder` gives the stores of the two
programs, whose order differs. `Tick` is the timer's handler between any two of
them. lab3_1 leaves `sa_flags` uninitialised: with SA_RESETHAND in it
(`resetHand`) the second tick kills the child. `MaxTicks` is a timing assumption:
at most one tick of 10 ms falls between two tests of `count` (not counting those
during the output), since with two the test for equality can be passed by.

**AskParent.** `SigForAll` is `sig_for_all` with what main does after it;
`CommandAll`, `CommandOne`, `PrintOne`, `KillLast` and `Fork` are the menu.
`InputWait` stands for `select` and the key, `HandlerStarts` to `HandlerContinue`
are `child_sigrecieve`, which runs wherever main stands. `asking` is the one
pending SIGUSR1 of the parent: a second one is lost, as standard signals are.
`err` after the interrupted `select` takes the path of `exit`. SIGSTOP and SIGCONT
act on `stopped`; other signals stay in `pending` until the child runs. The keys
work for absent children too. `-` without children reads a pid from before the array;
taken to be zero, as uninitialised globals are, it makes `kill(0, SIGKILL)` end
everybody (`KillLast`). A number may name a forgotten child, or a slot that was never
filled, whose pid 0 is the process group: `CommandGroupMute` makes the parent ask about
itself, `CommandGroupAllow`, `AllowChosen` and the answer "y" to that question end the
parent by SIGUSR2 (`ParentDies`), without `exit`. `pc = "gone"` is a parent that a signal
ended. Assumed of the user: a number is an index of `child_proc`, and no more children
are started than it has slots (`MaxChildren <= Length`), which the code does not check.
Assumed of the system: the program at `child_path` is there. A failing `execve` (73)
would make the child a second parent at the same terminal, with the same menu; a
failing `fork` changes nothing.

## Runs

Between brackets: workers of each kind, slots or blocks.

| Run | Shows |
|---|---|
| `monitor_safety` [2+1, 2; two messages] | `MutexDiscipline`, `RingConsistent`, `NoLostWakeup` with all commands, and that `MonitorQueue` implements `BoundedFifo` |
| `monitor_live` [2+2, 2] | nobody gets from an empty queue although consumers take each other's messages (`NeverUnderflows`); a full queue drains, an empty one fills (`QueueMoves`) |
| `monitor_quit` [0+2, 2] | disagreement: quitting hangs |
| `semaphore_resize` [2+1, 1 to 3 cells] | token accounting under `+`, `-`, failing `realloc` and cancellation; a second session under glibc, which the first bus error ends |
| `semaphore_sessions` [2+1, 2; two messages, 2 sessions] | while its size is fixed `SemaphoreQueue` implements `BoundedFifo` in each session, a second session that inherits semaphores never overflows, and deleting a worker returns |
| `shared_quit` [2+1, 2] | mutual exclusion, tokens, no stranded message; quitting ends and leaves no child |
| `sort_blocks` [2 threads, 8 blocks] | both phases from start to Success: they end, what the racing flag may cost at most, pairs of the merge are disjoint, sizes add up, copies stay inside the blocks |
| `record_file` [2 editors, one may be killed; 2 records] | `OnlyLateOvertaken`, `OnlyOwnRecord`, and each command returns (`CommandEnds`) |
| `training_server` [1 slot, 3 clients, one may vanish, two only quit] | how far the count leads (`SlotsReached`), and SIGINT ends the server or ends in a mutual wait (`ShutdownEnds`) |
| `child_statistics` [period 3] | both programs miss no period, reports add up, and reports go on for ever |
| `ask_parent` [2 children, array of 3] | `NobodyStaysStopped`, `ExitLeavesNobody`, `SignalsArrive` under all commands |
| `ask_parent_prompt` [2 children, array of 2] | disagreement: `g` after `p<num>` continues everybody |

**Bounds.** Two threads of a kind let a wakeup or a token go to the wrong one
and three contend for the mutex; two slots let `head` and `tail` wrap while the
queue is empty, half full and full. `CountMod` 3 makes the totals wrap. `MaxFree`
and `MaxHead` bound a counter that the code lets grow without limit: the runs
that pass still wrap, resize and overrun several times before they bite. The
second of two sessions inherits from one that was killed or quit anywhere. Eight
blocks are the fewest with which a merge can find a pair that is not adjacent
(five), as their number is a power of two; the blocks then hold a share of the header,
so that they end behind the mapped file. Two editors are enough for an owner, a waiter and a
late writer of one record, and a second record for a lock that is not contended.
Three clients of a server for one give a client served, one refused or served by a
stolen socket, and one that gets a descriptor used before; all torn updates of
`threadCount` happen among them, the ones that take it to -1 included. `Brief` holds the
clients whose user types nothing but QUIT: the two that may not vanish. The third may
send anything, an empty line too, so a mutual wait and its end by the vanishing client
both occur. With all three unrestricted the run takes too long. A
period of three lets a tick fall before, at and after each statement of a round that reports and of one that does not;
`MaxCount` bounds the ticks during the output. Two children ask at once, and one starts
while the other is stopped; an array one longer than there are children always has a
slot that was never filled. Runs without a deadlock check are those in which the program
may really stop: after 'q' or SIGINT, in a known hang, when every child is dead,
or at a bound.

**Fairness.** Weak fairness of every thread and process: the kernel runs what
can run. Nothing forces a key press, a connection, a signal from outside or a
spurious wakeup. More is assumed where it is said:

* `QueueMoves` assumes that spurious wakeups do not go on for ever.
* `SemaphoreQueue`: a thread that waits for the mutex or for a token gets it if it
  comes free again and again (strong fairness). Every worker sleeps five seconds
  per round, so nobody is overtaken at each of these occasions.
* `RecordFile`: an editor that retries each second finds the lock free in the end,
  if it is free again and again: the user of the next change takes longer than that.
* `TrainingServer`: users answer their prompts. Without it a handler sits in
  `read` and SIGINT's joins wait as long as the user does. A client that got no answer
  has no prompt; `ShutdownEnds` names the mutual wait that results as the other outcome.
* `AskParent`: the user answers the handler's question, and children that are
  stopped and continued again and again get to run in between.

`MonitorQueue`, `SharedQueue`, `BlockSort` and `ChildStatistics` need no such
assumption.

## Disagreements

Two runs end in a counterexample against what a program says of itself;
`PROJECT.json` quotes the lines.

* `monitor_quit`: the menu of lab7 says "q - exit". With two consumers asleep in
  `pthread_cond_wait` the first is cancelled, dies owning the mutex and is joined; the
  second needs the mutex to get out of `pthread_cond_wait`, and its join never returns.
  Deleting two waiting consumers hangs in the same way.
* `ask_parent_prompt`: the prompt of lab3 after `p<num>` says that `g` continues the
  chosen child and stops the others (`newpar.c:31`); the code continues all of them
  (263), the line that continues the chosen one being commented out (262).
  `NobodyStaysStopped` is about what the code does.

The models behave like the code in the following respects too. No property of a
run is about them; they are listed because the properties above were chosen to
be true in spite of them.

* lab5: `-` that gets to size 0, and `+` or `-` when `realloc` fails, leave the mutex
  locked (`NoSlotLost` says nothing from then on); `-` at other sizes can deadlock with
  a consumer that has the last token; `+` while the queue is wrapped hands a
  consumer a cell nobody wrote; `-` takes no token of `free_space`, so a later
  producer loses its message and spins for ever with the mutex; quitting while a
  worker is between lock and unlock leaves the semaphores in the system; a new
  session may start with the old session's tokens, and its first consumer then
  ends the program.
* lab4: `putMsg` drops the last message that fits, at `MSG_MAX - 1`, and its token is
  posted all the same, so that the tokens still add up; `head` is never reset and leaves
  the buffer;
  `createHash` loops for ever on 252 bytes and more; deleting a waiting consumer
  blocks main.
* lab6: with two threads a claimed block can be dropped unsorted, or sorted by two
  threads at once; the merge can pair blocks that are not neighbours, and the copy
  then overwrites the block between them; with 2, 4 or 8 blocks the merge shifts
  records off their grid, and the copies reach a header's size past the mapping.
* lab7/part_2: the record is written after its lock is given back, so that a late write
  undoes a newer change; and a user edits data that was read before the lock and may be
  out of date.
* lab8: a handler whose read fails leaves without decrementing `threadCount`, so
  the server answers "overflow" though it serves nobody; a thread that reads its
  argument late serves the next client, and its own gets no answer; torn updates
  can leave `threadCount` at -1, after which the next handle is stored before the
  array; SIGINT joins only the threads below the count; a client that reads two
  answers at once misses its "BYE"; a client that left ends the server by SIGPIPE; after
  an empty line, or a LIST that fails, the client and its thread both sit in `read`, and
  SIGINT then waits in `pthread_join` for as long as the client is not ended.
* lab3, lab3_1: the second of two children that ask while the handler runs is
  never asked about; the parent exits when the handler interrupts its `select`; `-`
  without children kills the whole process group, the parent too, and `g` or `p` with the
  number of a slot never filled kills the parent, whose children may live on;
  a report may be off by a tick; the child of lab3_1 may die of its second tick.

## Proofs

Every invariant, action property and refinement that a passing run checks is a
theorem as well; `PROJECT.json` lists them, thirty-two. Each holds for every value of
the constants that satisfies the module's assumption:

| Module | Theorem | States |
|---|---|---|
| `MonitorQueue_proof` | `TypeCorrect` | `[]TypeOK` |
| | `MutualExclusion` | `[]MutexDiscipline` |
| | `RingStaysConsistent` | `[]RingConsistent` |
| | `GetNeverAborts` | `[]NeverUnderflows` |
| | `WakeupsNotLost` | `[]NoLostWakeup` |
| | `QueueImplementsFifo` | `Spec => Fifo!FifoSpec` |
| `SemaphoreQueue_proof` | `TypeCorrect` | `[]TypeOK` |
| | `ItemsAlwaysMatch` | `[]ItemsMatchMessages` |
| | `SlotsNeverLost` | `[]NoSlotLost` |
| | `FixedNeverOverflows` | `[]NeverOverflows`, if `FixedSize` |
| | `QueueImplementsFifo` | `ImplementsFifo`, if `FixedSize` |
| `SharedQueue_proof` | `TypeCorrect` | `[]TypeOK` |
| | `MutualExclusion` | `[]MutexDiscipline` |
| | `TokensAddUp` | `[]TokensConserved` |
| | `MessagesReachable` | `[]NoMessageStranded` |
| `BlockSort_proof` | `TypeCorrect` | `[]TypeOK` |
| | `EveryBlockClaimed` | `[]AllClaimed` |
| | `FewBlocksDropped` | `[]FewDropped` |
| | `PairsStayDisjoint` | `[]PairsDisjoint` |
| | `SizesAlwaysAddUp` | `[]SizesAddUp` |
| | `CopiesStayInside` | `[]CopiesInsideBlocks` |
| `RecordFile_proof` | `TypeCorrect` | `[]TypeOK` |
| | `OvertakenOnlyIfLate` | `OnlyLateOvertaken` |
| | `ChangesOwnRecord` | `OnlyOwnRecord` |
| `TrainingServer_proof` | `ArrayMatchesCount` | `[]SlotsReached` |
| | `TypeCorrect` | `[]TypeOK` |
| `ChildStatistics_proof` | `TypeCorrect` | `[]TypeOK` |
| | `PeriodNeverMissed` | `[]NeverMissed` |
| | `ReportAddsUp` | `[]ReportedTotal` |
| `AskParent_proof` | `TypeCorrect` | `[]TypeOK` |
| | `MenuStopsNobody` | `[]NobodyStaysStopped` |
| | `NobodySurvives` | `[]ExitLeavesNobody` |

The assumptions are the `...Assumption` of each module, which every run of it
evaluates, and the bounds and timing assumptions that the modules contain as guards
(`MaxTicks`, `MaxCount`, `MaxFree`, `MaxHead`, `MaxSessions`, `MaxChildren`; the theorems
hold for every value of the bounds that the assumptions admit). Two theorems have a
hypothesis on the constants, the one their run is configured with, because the
property is false without it. It is `FixedSize`: `+` and `-` are not among the keys
pressed. `-` takes a cell away and no token of `free_space`, so a producer may then find
the buffer full; `+` while the queue is wrapped breaks the order.

Each argument is one inductive invariant, `IInv`, because the properties by
themselves are not inductive; TLC checked each of them before it was proved.

*MonitorQueue.* `MutexDiscipline` alone is inductive. That `getMessage` never meets
an empty queue needs `AccessReady` (a thread at `access` has found the queue not
full, or not empty), which survives the other threads' steps only because of the
mutual exclusion. The types need `SlotsFree`: a slot past the end of its array
holds no thread, so creating a thread there overwrites none that runs.
`NoLostWakeup` is a statement about cardinalities of sets of threads: the steps
that move a thread in or out of such a set go through lemmas about `At`, and the
step that matters is `Signal`, where a waiter becomes awake exactly when a
signaller disappears. For the refinement `MessageMade` says that a producer
past `createMessage` holds a message; `PutMessage` and `GetMessage` then map to
`Put` and `Get`, whose effect on `Contents` is the arithmetic of the wrap, and a
thread that drops its message maps to `Discard`.

*SemaphoreQueue.* `ItemsHeld` and `SlotsHeld` count the tokens in the hands of
threads; `HeldMove` says what one thread's step does to them. `ItemsMatch` and
`SlotsMatch`, the token accounting, rest on `MutexOwned` (who is inside the mutex,
main included while `-` waits for a token, or for good after a failed `realloc`:
`KeptMutex`), on `OverflowSpins` (a raised
`overflowFlag` keeps its producer spinning inside the mutex, so nobody else counts
meanwhile) and on `BufferShape` (by how much `-` may leave `tail` and `msg_number`
outside the buffer). `DownIsFresh` and `FirstCreates` say which session inherits
nothing. With `FixedSize` a second invariant, `FInv`, holds in all sessions: instead of
equal numbers of tokens and cells, which an inherited semaphore need not have,
`TokensBound` says that the messages and the tokens of `free_space`, held or not, are
together never more than the cells. Tokens of `items` are outside it, since `items` may be inherited
without `free_space`; a token too many ends the consumer in `getMsg`. The bound keeps
every producer from a full buffer, keeps `head`, `tail` and `msg_number` consistent
(`RingConsistent`), and so makes `putMsg` and `getMsg` the `Put` and `Get` of
`BoundedFifo`; only the step that ends the process maps to nothing.

*SharedQueue.* The three semaphore properties are inductive together with
`SlotsFree`: while main serves its menu only the child it waits for has been told to
stop, so a child created in a slot replaces none that holds a token. Once children are
being killed the equations become inequalities (`MutexBound`, `TokensBound`): a
killed child takes its tokens with it, so the mutex may stay locked for ever but is
never held twice. `ReapedBound` keeps `wait` within the children there are.

*BlockSort.* In the first phase the heart is `AllRaised`: while the flag `all` is up
its raiser is still searching, or found nothing and keeps pointing at the block it
sorted. From it follows `SomeoneStays`: not everybody leaves while a block is free, and
not everybody drops the block it claimed. `InputClaimed` leads from each dropped
block to a thread of its own, and the count of `FewDropped` is that map's. In the
merge `Pairs` orders what a thread holds by its `cursor`, and `Partition` says that
there is a map from the original blocks to those in use under which each block in use is
as large as its share; `MergePublish` changes the map for the absorbed block's share.
For `CopiesInsideBlocks` the shares of a pair are disjoint and lie at or behind the first
block's number (a block is only ever absorbed by one before it), so that a copy ends
before the last block does. `SizesAddUp` is
a fold over a set. Its value is computed by hand: `SumUnfolded` opens the library's
definition, `SumUnique` shows by a least counterexample that its equation has one
solution, and the shares of `Partition` are one (`SumOfShares`).

*RecordFile.* `ChangesRecord` says that an editor between lock and write named a
record of the file and, from `Seek` on, stands on it; `LockOwners` that the owner
of a lock is the one editor between lock and unlock. `AheadIsLate` follows from the
lock: whoever had it before has given it back, so of its change only the write is left,
and once the new owner has slept it is among the late.

*TrainingServer.* `CountsFilled` speaks of every number that is or may yet become
`threadCount`: the count, the value main loaded plus one, and the value each
handler loaded. The slots below each of them were filled, and main tests the
count before it fills the next. A slot once filled stays filled, so a stale value
written back leads to no empty slot. `ClientAccepted` names the client whose
thread `pthread_create` stores. The types and the lower bound of `SlotsReached` add a
second invariant, `BInv`. A torn update may take `threadCount` below zero;
`LeaversCounted` says no further than the number of threads that have ended, for the
count and for every old value of it, and `ServedOnce` (a client is accepted once and
gets one thread) bounds that number.
That main finds a free descriptor (`FreeDescriptor`) is the pigeonhole principle, with
`OneDescriptor`: no connection is behind two of them.

*ChildStatistics.* `CountKept` says which values `count` may have at each
statement, by the ticks since the last test; it rests on `ClearsFromStart` (the
clearing's index is 1 outside it) and on `LateTicks`. `Drift` bounds the difference
between the four counters and `count` at every statement of the two clearings:
what the previous period left over. `ReportKept` adds what ticks can do while the
numbers are loaded one by one.

*AskParent.* `StoppedInReach` says that a stopped child is in a slot that a loop of
SIGCONTs, main's or the handler's, has still to reach; it survives the handler's
interruption of main's own loop because the handler continues everybody before it
returns. `LivingCounted` and `KilledSoFar` follow a living child from its fork into
`child_proc` and through the loops that kill: what they have reached is dead, or has
SIGTERM pending. `LoopShape` lists the callers of `sig_for_all`, `ArrayFilled` and
`HandlerShape` keep the two loops' indexes apart.

Model-checked only: liveness (`QueueMoves`, `RemovalReturns`, the two `QuitEnds`,
`SortIndexEnds`, `CommandEnds`, `ShutdownEnds`, `ReportsForever`, `SignalsArrive`).
It needs `ENABLED`, which the prover does not have.

## Not modelled

* The index generators, the record file maker, the launcher of lab2, the directory
  walker and the zombie demonstration: sequential, or one fork at a time, and what
  they do is files and strings. Nothing can come between two of their steps.
* The parent of lab3_1. Its timer's interval, the mask and the flags of its
  timer's handler are uninitialised, `child_amount` has two types, and `-` without
  children runs into undefined behaviour; a property of it would be a statement
  about chance. Its children are in `ChildStatistics`.
* The restart of lab4 after main was killed. `SemaphoreQueue` shows the same
  semaphores for lab5; in lab4 the orphaned children also race the new main, which
  truncates and clears the shared memory without the mutex.

## Plan

1. Proofs: an inductive invariant of `SemaphoreQueue` for the sessions that inherit
   semaphores while `+` and `-` are pressed, where no accounting is stated yet.
2. The restart of `SharedQueue`, with the children of the killed main.
3. For lab6 the conditions under which the merge keeps the records (one thread, and a
   division that drops the header), as an abstract sorter which that case implements.
