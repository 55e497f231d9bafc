----------------------------- MODULE TrainingServer -----------------------------
(***************************************************************************)
(* lab8: a server with one thread per client, and its clients.  main       *)
(* accepts connections into one variable clientSocket and hands its        *)
(* address to each thread it creates; main and the threads change          *)
(* threadCount without a lock.  SIGINT ends the server after it has joined *)
(* its threads.                                                            *)
(*                                                                         *)
(* A thread is named after the client whose connection made main create    *)
(* it; which connection it serves depends on when it reads its argument.   *)
(*   start    int clientSocket = *arg        test     while(isRunning)     *)
(*   read     enters read()                  reading  blocked in read()    *)
(*   respond  answers an ordinary request    bye      quit: write "BYE"    *)
(*   close    quit: close                    load, store  threadCount--    *)
(*   fail     read returned -1               exited   none                 *)
(***************************************************************************)
EXTENDS Integers, Sequences, FiniteSets, FiniteSetsExt

CONSTANTS
  MAX_CLIENTS,  \* size of threads (1)
  Clients,      \* number of clients; they are numbered as they connect, each once
  Impatient,    \* those whose user may end them at any moment
  Requests,     \* what users type beside empty lines: "ask" for all commands with an answer,
                \* "mute" for a LIST or CD without one, "QUIT"
  Brief,        \* those whose user types nothing but "QUIT"
  NoRequest     \* nothing to read

Client == 1 .. Clients
NoClient == 0  \* no client, no thread, no connection

ASSUME ServerAssumption ==
  /\ MAX_CLIENTS \in Nat \ {0}
  /\ Clients \in Nat /\ Impatient \subseteq Client /\ Brief \subseteq Client
  /\ Requests \subseteq {"ask", "mute", "QUIT"} /\ NoRequest \notin {"ask", "mute", "QUIT"}

VARIABLES
  \* the server
  mainPc, isRunning,
  threads,      \* the array and the memory before it
  threadCount, clientSocket,
  accepted,     \* the client accepted last, after which the next thread is named
  mainLoaded,   \* the value main loaded for threadCount++
  joining,      \* hasActiveThreads: the loop's i
  \* its threads
  pc, fd,
  conn,         \* the connection a blocked read waits on
  loaded,       \* the value a thread loaded for threadCount--
  \* the kernel
  files,        \* the connection behind each open descriptor
  backlog,      \* connections not yet accepted
  inbox,        \* what each client has sent and nobody has read
  outbox,       \* what each client has not yet read
  peer,         \* what the server sees of the client's end
  \* the clients
  cpc

mainVars == <<mainPc, isRunning, threads, clientSocket, accepted, mainLoaded, joining>>
threadVars == <<pc, fd, conn, loaded>>
kernelVars == <<files, backlog, inbox, outbox, peer>>
vars == <<mainVars, threadCount, threadVars, kernelVars, cpc>>

Fds == 1 .. Clients
Slots == 0 .. MAX_CLIENTS - 1
Memory == -Clients .. MAX_CLIENTS - 1  \* as far as a negative index leads

Init ==
  /\ mainPc = "accept" /\ isRunning = TRUE
  /\ threads = [s \in Memory |-> NoClient]
  /\ threadCount = 0 /\ mainLoaded = 0 /\ joining = -1
  /\ clientSocket = 0 /\ accepted = NoClient
  /\ pc = [t \in Client |-> "none"]
  /\ fd = [t \in Client |-> 0]
  /\ conn = [t \in Client |-> NoClient]
  /\ loaded = [t \in Client |-> 0]
  /\ files = [f \in Fds |-> NoClient]
  /\ backlog = {}
  /\ inbox = [c \in Client |-> NoRequest]
  /\ outbox = [c \in Client |-> <<>>]
  /\ peer = [c \in Client |-> "open"]
  /\ cpc = [c \in Client |-> "out"]

Behind(f) == IF f \in Fds THEN files[f] ELSE NoClient

-----------------------------------------------------------------------------
(* System calls *)

\* The process ends with its threads and descriptors; what its clients do then is
\* left out.
ProcessEnds ==
  /\ mainPc' = "down"
  /\ threads' = [s \in Memory |-> NoClient]
  /\ threadCount' = 0 /\ mainLoaded' = 0 /\ joining' = -1
  /\ clientSocket' = 0 /\ accepted' = NoClient
  /\ pc' = [t \in Client |-> "none"]
  /\ fd' = [t \in Client |-> 0]
  /\ conn' = [t \in Client |-> NoClient]
  /\ loaded' = [t \in Client |-> 0]
  /\ files' = [f \in Fds |-> NoClient]
  /\ backlog' = {}
  /\ inbox' = [c \in Client |-> NoRequest]
  /\ outbox' = [c \in Client |-> <<>>]
  /\ peer' = [c \in Client |-> "open"]
  /\ cpc' = [c \in Client |-> "gone"]
  /\ UNCHANGED isRunning

Close(f) == files' = [g \in Fds |-> IF g = f THEN NoClient ELSE files[g]]

\* write to a descriptor: EBADF and errors are ignored by the callers, and a
\* client that left answers with a reset sooner or later.
Write(f, text) ==
  LET c == Behind(f) IN
  \/ c = NoClient /\ UNCHANGED <<outbox, peer>>
  \/ c # NoClient /\ peer[c] = "open"
     /\ outbox' = [outbox EXCEPT ![c] = Append(@, text)] /\ UNCHANGED peer
  \/ c # NoClient /\ peer[c] \in {"left", "reset"}
     /\ peer' = [peer EXCEPT ![c] = "broken"] /\ UNCHANGED outbox
  \/ c # NoClient /\ peer[c] = "left" /\ UNCHANGED <<outbox, peer>>

\* After the reset a further write raises SIGPIPE, which nobody handles.
WriteKills(f) == Behind(f) # NoClient /\ peer[Behind(f)] = "broken"

-----------------------------------------------------------------------------
(* The main thread *)

\* The new connection gets the lowest free descriptor and overwrites clientSocket.
\* accept may fail for a client that has left meanwhile, which main does not notice:
\* clientSocket is no descriptor then (-1, and 0 here).
Accept ==
  /\ mainPc = "accept"
  /\ backlog # {}
  /\ LET c == Min(backlog)
         f == Min({g \in Fds : files[g] = NoClient})
     IN
     /\ backlog' = backlog \ {c} /\ accepted' = c
     /\ \/ files' = [files EXCEPT ![f] = c] /\ clientSocket' = f
        \/ peer[c] # "open" /\ clientSocket' = 0 /\ UNCHANGED files
  /\ mainPc' = "check"
  /\ UNCHANGED <<isRunning, threads, mainLoaded, joining, threadCount, threadVars, inbox, outbox,
                 peer, cpc>>

\* Fault: one client too many.
CheckOffByOne ==
  /\ mainPc = "check"
  /\ mainPc' = IF threadCount <= MAX_CLIENTS THEN "create" ELSE "refuse"
  /\ UNCHANGED <<isRunning, threads, clientSocket, accepted, mainLoaded, joining, threadCount, threadVars,
                 kernelVars, cpc>>

Check ==
  /\ mainPc = "check"
  /\ mainPc' = IF threadCount < MAX_CLIENTS THEN "create" ELSE "refuse"
  /\ UNCHANGED <<isRunning, threads, clientSocket, accepted, mainLoaded, joining, threadCount, threadVars,
                 kernelVars, cpc>>

\* pthread_create stores the handle where threadCount points now, before the array if
\* it is negative; what else that memory is for is left out.  If it fails main exits.
Create ==
  /\ mainPc = "create"
  /\ \/ /\ pc' = [pc EXCEPT ![accepted] = "start"]
        /\ threads' = [threads EXCEPT ![threadCount] = accepted]
        /\ accepted' = NoClient
        /\ mainPc' = "load"
        /\ UNCHANGED <<isRunning, clientSocket, mainLoaded, joining, threadCount, fd, conn,
                       loaded, kernelVars, cpc>>
     \/ ProcessEnds

LoadForIncrement ==
  /\ mainPc = "load"
  /\ mainLoaded' = threadCount
  /\ mainPc' = "store"
  /\ UNCHANGED <<isRunning, threads, clientSocket, accepted, joining, threadCount, threadVars, kernelVars,
                 cpc>>

StoreIncremented ==
  /\ mainPc = "store"
  /\ threadCount' = mainLoaded + 1
  /\ mainLoaded' = 0
  /\ mainPc' = "accept"
  /\ UNCHANGED <<isRunning, threads, clientSocket, accepted, joining, threadVars, kernelVars, cpc>>

\* The client is told that the server is full.
Refuse ==
  /\ mainPc = "refuse"
  /\ \/ /\ ~WriteKills(clientSocket)
        /\ Write(clientSocket, "overflow")
        /\ Close(clientSocket)
        /\ mainPc' = "accept" /\ accepted' = NoClient
        /\ UNCHANGED <<isRunning, threads, clientSocket, mainLoaded, joining, threadCount, threadVars,
                       backlog, inbox, cpc>>
     \/ WriteKills(clientSocket) /\ ProcessEnds

\* SIGINT is delivered to the main thread, at any statement.
HandleSignal ==
  /\ mainPc \in {"accept", "check", "create", "load", "store", "refuse"}
  /\ isRunning' = FALSE
  /\ mainPc' = "stop"
  /\ UNCHANGED <<threads, clientSocket, accepted, mainLoaded, joining, threadCount, threadVars, kernelVars, cpc>>

\* Fault: the loop starts behind the last slot.
HasActiveThreadsOffByOne ==
  /\ mainPc = "stop"
  /\ joining' = threadCount
  /\ mainPc' = "join"
  /\ UNCHANGED <<isRunning, threads, clientSocket, accepted, mainLoaded, threadCount, threadVars, kernelVars,
                 cpc>>

HasActiveThreads ==
  /\ mainPc = "stop"
  /\ joining' = threadCount - 1
  /\ mainPc' = "join"
  /\ UNCHANGED <<isRunning, threads, clientSocket, accepted, mainLoaded, threadCount, threadVars, kernelVars,
                 cpc>>

\* A thread that ended earlier, and was never joined, is joined at once.
Join ==
  /\ mainPc = "join" /\ joining >= 0
  /\ pc[threads[joining]] = "exited"
  /\ joining' = joining - 1
  /\ UNCHANGED <<mainPc, isRunning, threads, clientSocket, accepted, mainLoaded, threadCount, threadVars,
                 kernelVars, cpc>>

Exit == mainPc = "join" /\ joining < 0 /\ ProcessEnds

Main ==
  \/ Accept \/ Check \/ Create \/ LoadForIncrement \/ StoreIncremented \/ Refuse
  \/ HasActiveThreads \/ Join \/ Exit

-----------------------------------------------------------------------------
(* clientHandler *)

Goto(t, from, to) == pc[t] = from /\ pc' = [pc EXCEPT ![t] = to]

ReadArgument(t) ==
  /\ Goto(t, "start", "test")
  /\ fd' = [fd EXCEPT ![t] = clientSocket]
  /\ UNCHANGED <<mainVars, threadCount, conn, loaded, kernelVars, cpc>>

\* Fault: the loop never looks at isRunning.
TestForever(t) ==
  /\ Goto(t, "test", "read")
  /\ UNCHANGED <<mainVars, threadCount, fd, conn, loaded, kernelVars, cpc>>

Test(t) ==
  /\ Goto(t, "test", IF isRunning THEN "read" ELSE "bye")
  /\ UNCHANGED <<mainVars, threadCount, fd, conn, loaded, kernelVars, cpc>>

\* A read that has begun keeps its connection although the descriptor is closed.
EnterRead(t) ==
  /\ Goto(t, "read", IF Behind(fd[t]) = NoClient THEN "fail" ELSE "reading")
  /\ conn' = [conn EXCEPT ![t] = Behind(fd[t])]
  /\ UNCHANGED <<mainVars, threadCount, fd, loaded, kernelVars, cpc>>

\* What the loop does with a request.  A LIST that fails has no answer, nor has a CD
\* between whose steps another thread's CD has lowered the global flag.
Dispatch(r) == IF r = "QUIT" THEN "bye" ELSE IF r = "mute" THEN "test" ELSE "respond"

\* Data come first; then a client that left is an empty request, and one that
\* left with unread answers an error, once.
Read(t) ==
  LET c == conn[t] IN
  /\ pc[t] = "reading"
  /\ \/ /\ inbox[c] # NoRequest
        /\ Goto(t, "reading", Dispatch(inbox[c]))
        /\ inbox' = [inbox EXCEPT ![c] = NoRequest]
        /\ UNCHANGED peer
     \/ /\ inbox[c] = NoRequest /\ peer[c] \in {"left", "broken"}
        /\ Goto(t, "reading", "respond")
        /\ UNCHANGED <<inbox, peer>>
     \/ /\ inbox[c] = NoRequest /\ peer[c] = "reset"
        /\ Goto(t, "reading", "fail")
        /\ peer' = [peer EXCEPT ![c] = "broken"]
        /\ UNCHANGED inbox
  /\ conn' = [conn EXCEPT ![t] = NoClient]
  /\ UNCHANGED <<mainVars, threadCount, fd, loaded, files, backlog, outbox, cpc>>

\* The answer to the request, or "BYE".
Answer(t, from, to, text) ==
  \/ /\ Goto(t, from, to)
     /\ ~WriteKills(fd[t]) /\ Write(fd[t], text)
     /\ UNCHANGED <<mainVars, threadCount, fd, conn, loaded, files, backlog, inbox, cpc>>
  \/ pc[t] = from /\ WriteKills(fd[t]) /\ ProcessEnds

Respond(t) == Answer(t, "respond", "test", "reply")
SayBye(t) == Answer(t, "bye", "close", "BYE")

CloseSocket(t) ==
  /\ Goto(t, "close", "load")
  /\ Close(fd[t]) /\ fd' = [fd EXCEPT ![t] = 0]
  /\ UNCHANGED <<mainVars, threadCount, conn, loaded, backlog, inbox, outbox, peer, cpc>>

LoadForDecrement(t) ==
  /\ Goto(t, "load", "store")
  /\ loaded' = [loaded EXCEPT ![t] = threadCount]
  /\ UNCHANGED <<mainVars, threadCount, fd, conn, kernelVars, cpc>>

StoreDecremented(t) ==
  /\ Goto(t, "store", "exited")
  /\ threadCount' = loaded[t] - 1
  /\ loaded' = [loaded EXCEPT ![t] = 0]
  /\ UNCHANGED <<mainVars, fd, conn, kernelVars, cpc>>

\* The thread that cannot read leaves without changing threadCount.
ReadFails(t) ==
  /\ Goto(t, "fail", "exited")
  /\ Close(fd[t]) /\ fd' = [fd EXCEPT ![t] = 0]
  /\ UNCHANGED <<mainVars, threadCount, conn, loaded, backlog, inbox, outbox, peer, cpc>>

ClientHandler(t) ==
  \/ ReadArgument(t) \/ Test(t) \/ EnterRead(t) \/ Read(t) \/ Respond(t) \/ SayBye(t)
  \/ CloseSocket(t) \/ LoadForDecrement(t) \/ StoreDecremented(t) \/ ReadFails(t)

-----------------------------------------------------------------------------
(* The clients *)

\* Whether the server still holds the client's connection.
Served(c) ==
  c \in backlog \/ (\E f \in Fds : files[f] = c) \/ (\E t \in Client : conn[t] = c)

Leave(c, unread) ==
  /\ cpc' = [cpc EXCEPT ![c] = "gone"]
  /\ outbox' = [outbox EXCEPT ![c] = <<>>]
  /\ peer' = [peer EXCEPT ![c] = IF unread = <<>> THEN "left" ELSE "reset"]

Connect(c) ==
  /\ cpc[c] = "out" /\ \A d \in 1 .. c - 1 : cpc[d] # "out"
  /\ cpc' = [cpc EXCEPT ![c] = "prompt"]
  /\ backlog' = backlog \cup {c}
  /\ UNCHANGED <<mainVars, threadCount, threadVars, files, inbox, outbox, peer>>

Typed(c) == IF c \in Brief THEN {"QUIT"} ELSE Requests

\* The user types a request.  A second one nobody has read yet makes one string
\* with the first.  Writing to a connection the server has closed ends the client.
SendRequest(c) ==
  /\ cpc[c] = "prompt"
  /\ \/ /\ Served(c)
        /\ cpc' = [cpc EXCEPT ![c] = "waiting"]
        /\ \E r \in Typed(c) :
             inbox' = [inbox EXCEPT ![c] = IF @ = NoRequest THEN r ELSE "ask"]
        /\ UNCHANGED <<outbox, peer>>
     \/ ~Served(c) /\ Leave(c, outbox[c]) /\ UNCHANGED inbox
  /\ UNCHANGED <<mainVars, threadCount, threadVars, files, backlog>>

\* An empty line is sent as nothing at all, and the client waits for an answer to it.
SendNothing(c) ==
  /\ c \notin Brief
  /\ cpc[c] = "prompt"
  /\ cpc' = [cpc EXCEPT ![c] = "waiting"]
  /\ UNCHANGED <<mainVars, threadCount, threadVars, kernelVars>>

Send(c) == SendRequest(c) \/ SendNothing(c)

\* One read may return several answers at once; only "BYE" by itself ends the client.
Receive(c) ==
  /\ cpc[c] = "waiting"
  /\ UNCHANGED inbox
  /\ \/ \E n \in 1 .. Len(outbox[c]) :
          LET rest == SubSeq(outbox[c], n + 1, Len(outbox[c])) IN
          IF SubSeq(outbox[c], 1, n) = <<"BYE">>
          THEN Leave(c, rest)
          ELSE /\ outbox' = [outbox EXCEPT ![c] = rest]
               /\ cpc' = [cpc EXCEPT ![c] = "prompt"] /\ UNCHANGED peer
     \/ /\ outbox[c] = <<>> /\ ~Served(c)
        /\ UNCHANGED outbox
        /\ cpc' = [cpc EXCEPT ![c] = "prompt"] /\ UNCHANGED peer
  /\ UNCHANGED <<mainVars, threadCount, threadVars, files, backlog>>

\* The user ends the client at any moment.
Disconnect(c) ==
  /\ c \in Impatient
  /\ cpc[c] \in {"prompt", "waiting"}
  /\ Leave(c, outbox[c])
  /\ UNCHANGED inbox
  /\ UNCHANGED <<mainVars, threadCount, threadVars, files, backlog>>

ClientStep(c) == Connect(c) \/ Send(c) \/ Receive(c) \/ Disconnect(c)

Next ==
  \/ Main \/ HandleSignal
  \/ \E t \in Client : ClientHandler(t)
  \/ \E c \in Client : ClientStep(c)

Spec == Init /\ [][Next]_vars

\* The threads are scheduled; a user answers the prompt, and a client that waits
\* reads what has arrived.  Nobody has to connect, to leave or to press Ctrl-C.
Fairness ==
  /\ WF_vars(Main)
  /\ \A t \in Client : WF_vars(ClientHandler(t))
  /\ \A c \in Client : WF_vars(Send(c) \/ Receive(c))

FairSpec == Spec /\ Fairness

-----------------------------------------------------------------------------
(* Properties *)

\* Every variable has the type its declaration gives it.
TypeOK ==
  /\ mainPc \in {"accept", "check", "create", "load", "store", "refuse", "stop", "join", "down"}
  /\ isRunning \in BOOLEAN
  /\ threads \in [Memory -> Client \cup {NoClient}]
  /\ threadCount \in -Clients .. MAX_CLIENTS
  /\ mainLoaded \in -Clients .. MAX_CLIENTS
  /\ joining \in -Clients - 1 .. MAX_CLIENTS - 1
  /\ clientSocket \in Fds \cup {0} /\ accepted \in Client \cup {NoClient}
  /\ pc \in [Client -> {"none", "start", "test", "read", "reading", "respond", "bye", "close",
                        "load", "store", "fail", "exited"}]
  /\ fd \in [Client -> Fds \cup {0}]
  /\ conn \in [Client -> Client \cup {NoClient}]
  /\ loaded \in [Client -> -Clients .. MAX_CLIENTS]
  /\ files \in [Fds -> Client \cup {NoClient}]
  /\ backlog \in SUBSET Client
  /\ inbox \in [Client -> {"ask", "mute", "QUIT", NoRequest}]
  /\ outbox \in [Client -> Seq({"reply", "BYE", "overflow"})]
  /\ peer \in [Client -> {"open", "left", "reset", "broken"}]
  /\ cpc \in [Client -> {"out", "prompt", "waiting", "gone"}]

\* Where the unlocked threadCount leads.  The threads decrement it between main's test,
\* its use as an index and its increment, and may write back a value they loaded long
\* before.  main never creates a thread behind the array's end; before its beginning it
\* does, but no further than the number of threads that have ended.  Every slot below
\* the count was filled by pthread_create, and so is each that the SIGINT handler joins.
Ended == {t \in Client : pc[t] = "exited"}
SlotsReached ==
  /\ mainPc = "create" => threadCount \in -Cardinality(Ended) .. MAX_CLIENTS - 1
  /\ \A s \in Slots : s < threadCount => threads[s] # NoClient
  /\ mainPc = "join" /\ joining >= 0 => joining \in Slots /\ threads[joining] # NoClient

\* After SIGINT the server ends: each thread it joins leaves its loop, whatever
\* connection the thread got hold of, as long as the clients answer their prompts or
\* leave.  The exception is a thread that waits for its client's next request while
\* the client waits for the answer to its last, which had none.
WaitForEachOther(t, c) ==
  /\ pc[t] = "reading" /\ conn[t] = c /\ inbox[c] = NoRequest
  /\ cpc[c] = "waiting" /\ outbox[c] = <<>>
JoinedWaits ==
  /\ mainPc = "join" /\ joining >= 0
  /\ \E c \in Client : WaitForEachOther(threads[joining], c)
ShutdownEnds == ~isRunning ~> mainPc = "down" \/ JoinedWaits

=================================================================================
