------------------------- MODULE TrainingServer_proof -------------------------
(***************************************************************************)
(* Two theorems about TrainingServer (lab8), for every number of clients   *)
(* and every size of the server's array of threads.                        *)
(***************************************************************************)
EXTENDS TrainingServer, FiniteSetTheorems, SequenceTheorems, WellFoundedInduction, TLAPS

-----------------------------------------------------------------------------
(* The inductive invariant *)

Labels == {"none", "start", "test", "read", "reading", "respond", "bye", "close", "load", "store",
           "fail", "exited"}

\* The types the argument needs.
Types ==
  /\ threads \in [Memory -> Client \cup {NoClient}]
  /\ threadCount \in Int /\ mainLoaded \in Int /\ joining \in Int
  /\ pc \in [Client -> Labels]
  /\ loaded \in [Client -> Int]
  /\ backlog \in SUBSET Client

\* The first n slots have been filled.
Filled(n) == n <= MAX_CLIENTS /\ \A s \in Slots : s < n => threads[s] # NoClient

\* While main tests the count and creates a thread, it has a client for it.
ClientAccepted == mainPc \in {"check", "create", "refuse"} => accepted \in Client

\* A count that main, or a thread that leaves, may write stays within the slots
\* that are filled, even when it was loaded long ago.
CountsFilled ==
  /\ Filled(threadCount)
  /\ mainPc = "create" => threadCount < MAX_CLIENTS
  /\ mainPc = "load" => Filled(threadCount + 1)
  /\ mainPc = "store" => Filled(mainLoaded + 1)
  /\ mainPc = "join" => Filled(joining + 1)
  /\ \A t \in Client : pc[t] = "store" => Filled(loaded[t])

IInv == Types /\ ClientAccepted /\ CountsFilled

-----------------------------------------------------------------------------
(* Lemmas *)

\* A set of clients has a smallest one.
LEMMA MinClient ==
  ASSUME NEW S \in SUBSET Client, S # {}
  PROVE  Min(S) \in S
<1> DEFINE R == OpToRel(<, Nat)
<1>1. S \subseteq Nat
  BY ServerAssumption DEF Client
<1>2. \E x \in S : \A y \in S : <<y, x>> \notin R
  <2>1. IsWellFoundedOn(R, Nat)
    BY NatLessThanWellFounded, Zenon
  <2> HIDE DEF R
  <2> QED
    BY <1>1, <2>1, WFMin
<1>3. \A x, y \in Nat : <<y, x>> \in R <=> y < x
  BY DEF OpToRel
<1>4. \E x \in S : \A y \in S : x <= y
  <2>1. PICK x \in S : \A y \in S : <<y, x>> \notin R
    BY <1>2
  <2>2. \A y \in S : x <= y
    <3> SUFFICES ASSUME NEW y \in S PROVE x <= y
      OBVIOUS
    <3>1. x \in Nat /\ y \in Nat
      BY <1>1
    <3>2. ~ (y < x)
      BY <1>3, <2>1, <3>1
    <3> QED
      BY <3>1, <3>2
  <2> QED
    BY <2>2
<1> QED
  BY <1>4 DEF Min

-----------------------------------------------------------------------------
(* Every step preserves the invariant *)

LEMMA InvInit ==
  ASSUME Init
  PROVE  IInv
BY ServerAssumption DEF Init, IInv, Types, Labels, ClientAccepted, CountsFilled, Filled, Slots, Memory

LEMMA InvProcessEnds ==
  ASSUME IInv, ProcessEnds
  PROVE  IInv'
BY ServerAssumption DEF ProcessEnds, IInv, Types, Labels, ClientAccepted, CountsFilled, Filled, Slots, Memory

\* A step that leaves the counts and the array alone.
LEMMA InvAside ==
  ASSUME IInv, UNCHANGED <<mainPc, threads, threadCount, mainLoaded, joining, accepted, loaded>>,
         pc' \in [Client -> Labels], \A t \in Client : pc'[t] = "store" => pc[t] = "store",
         backlog' \in SUBSET Client
  PROVE  IInv'
BY DEF IInv, Types, ClientAccepted, CountsFilled, Filled

LEMMA InvMain ==
  ASSUME IInv, Main \/ HandleSignal
  PROVE  IInv'
<1> USE ServerAssumption
<1>1. CASE Accept
  <2>1. Min(backlog) \in Client
    BY <1>1, MinClient DEF Accept, IInv, Types
  <2>2. /\ mainPc' = "check" /\ accepted' \in Client /\ backlog' \in SUBSET Client
        /\ UNCHANGED <<threads, threadCount, mainLoaded, joining, pc, loaded>>
    BY <1>1, <2>1 DEF Accept, threadVars, IInv, Types
  <2> QED
    BY <2>2 DEF IInv, Types, ClientAccepted, CountsFilled, Filled
<1>2. CASE Check
  BY <1>2 DEF Check, threadVars, kernelVars, IInv, Types, ClientAccepted, CountsFilled, Filled
<1>3. CASE Create
  <2>1. CASE ProcessEnds
    BY <2>1, InvProcessEnds
  <2>2. CASE ~ProcessEnds
    <3>1. /\ accepted \in Client /\ threadCount < MAX_CLIENTS
          /\ mainPc = "create" /\ mainPc' = "load"
          /\ threads' = [threads EXCEPT ![threadCount] = accepted]
          /\ pc' = [pc EXCEPT ![accepted] = "start"]
          /\ UNCHANGED <<threadCount, mainLoaded, joining, loaded, backlog>>
      BY <1>3, <2>2 DEF Create, kernelVars, IInv, ClientAccepted, CountsFilled
    <3>2. Types'
      BY <3>1 DEF IInv, Types, Labels
    <3>3. \A s \in Slots : s \in Memory
      BY DEF Slots, Memory
    <3>4. \A s \in Slots : threads'[s] = IF s = threadCount THEN accepted ELSE threads[s]
      BY <3>1, <3>3 DEF IInv, Types
    <3>5. \A s \in Slots : threads[s] # NoClient => threads'[s] # NoClient
      BY <3>1, <3>4 DEF NoClient, Client
    <3>6. \A n \in Int : Filled(n) => Filled(n)'
      BY <3>5 DEF Filled
    <3>7. Filled(threadCount)'
      BY <3>1, <3>6 DEF IInv, Types, CountsFilled
    <3>8. \A t \in Client : pc'[t] = "store" => Filled(loaded[t])'
      <4> SUFFICES ASSUME NEW t \in Client, pc'[t] = "store" PROVE Filled(loaded[t])'
        OBVIOUS
      <4>1. pc[t] = "store" /\ loaded[t] \in Int /\ loaded' = loaded
        BY <3>1 DEF IInv, Types
      <4>2. Filled(loaded[t])
        BY <4>1 DEF IInv, CountsFilled
      <4> QED
        BY <3>6, <4>1, <4>2
    <3>9. Filled(threadCount + 1)'
      <4>1. \A s \in Slots : s < threadCount => threads'[s] # NoClient
        BY <3>5 DEF IInv, CountsFilled, Filled
      <4>2. threadCount \in Slots => threads'[threadCount] # NoClient
        BY <3>1, <3>4 DEF NoClient, Client
      <4> QED
        BY <3>1, <4>1, <4>2 DEF Filled, IInv, Types, Slots
    <3> QED
      BY <3>1, <3>2, <3>7, <3>8, <3>9 DEF IInv, ClientAccepted, CountsFilled
  <2> QED
    BY <2>1, <2>2
<1>4. CASE LoadForIncrement
  BY <1>4 DEF LoadForIncrement, threadVars, kernelVars, IInv, Types, ClientAccepted, CountsFilled, Filled
<1>5. CASE StoreIncremented
  BY <1>5 DEF StoreIncremented, threadVars, kernelVars, IInv, Types, ClientAccepted, CountsFilled, Filled
<1>6. CASE Refuse
  <2>1. CASE ProcessEnds
    BY <2>1, InvProcessEnds
  <2>2. CASE ~ProcessEnds
    <3>1. /\ mainPc' = "accept"
          /\ UNCHANGED <<threads, threadCount, mainLoaded, joining, pc, loaded, backlog>>
      BY <1>6, <2>2 DEF Refuse, threadVars
    <3> QED
      BY <3>1 DEF IInv, Types, ClientAccepted, CountsFilled, Filled
  <2> QED
    BY <2>1, <2>2
<1>7. CASE HandleSignal
  BY <1>7 DEF HandleSignal, threadVars, kernelVars, IInv, Types, ClientAccepted, CountsFilled, Filled
<1>8. CASE HasActiveThreads
  BY <1>8 DEF HasActiveThreads, threadVars, kernelVars, IInv, Types, ClientAccepted, CountsFilled, Filled
<1>9. CASE Join
  <2>1. /\ mainPc = "join" /\ joining >= 0 /\ joining' = joining - 1
        /\ UNCHANGED <<mainPc, threads, threadCount, mainLoaded, accepted, pc, loaded, backlog>>
    BY <1>9 DEF Join, threadVars, kernelVars
  <2>2. Types' /\ ClientAccepted'
    BY <2>1 DEF IInv, Types, ClientAccepted
  <2>3. Filled(joining + 1)'
    BY <2>1 DEF IInv, Types, CountsFilled, Filled, Slots
  <2>4. \A n : Filled(n)' <=> Filled(n)
    BY <2>1 DEF Filled
  <2> QED
    BY <2>1, <2>2, <2>3, <2>4 DEF IInv, CountsFilled
<1>10. CASE Exit
  BY <1>10, InvProcessEnds DEF Exit
<1> QED
  BY <1>1, <1>2, <1>3, <1>4, <1>5, <1>6, <1>7, <1>8, <1>9, <1>10 DEF Main

\* A thread that leaves may write a count it loaded long ago.
LEMMA InvHandler ==
  ASSUME IInv, NEW t \in Client, ClientHandler(t)
  PROVE  IInv'
<1> USE ServerAssumption
<1>1. CASE ReadArgument(t) \/ Test(t) \/ EnterRead(t) \/ CloseSocket(t) \/ ReadFails(t)
  <2>1. /\ UNCHANGED <<mainPc, threads, threadCount, mainLoaded, joining, accepted, loaded, backlog>>
        /\ \E l \in Labels \ {"store"} : pc' = [pc EXCEPT ![t] = l]
    BY <1>1 DEF ReadArgument, Test, EnterRead, CloseSocket, ReadFails, Goto, mainVars, kernelVars, Labels
  <2> QED
    BY <2>1, InvAside DEF IInv, Types
<1>2. CASE Read(t)
  <2>1. /\ UNCHANGED <<mainPc, threads, threadCount, mainLoaded, joining, accepted, loaded, backlog>>
        /\ \E l \in Labels \ {"store"} : pc' = [pc EXCEPT ![t] = l]
    BY <1>2 DEF Read, Dispatch, Goto, mainVars, Labels
  <2> QED
    BY <2>1, InvAside DEF IInv, Types
<1>3. CASE Respond(t) \/ SayBye(t)
  <2>1. CASE ProcessEnds
    BY <2>1, InvProcessEnds
  <2>2. CASE ~ProcessEnds
    <3>1. /\ UNCHANGED <<mainPc, threads, threadCount, mainLoaded, joining, accepted, loaded, backlog>>
          /\ \E l \in Labels \ {"store"} : pc' = [pc EXCEPT ![t] = l]
      BY <1>3, <2>2 DEF Respond, SayBye, Answer, Goto, mainVars, Labels
    <3> QED
      BY <3>1, InvAside DEF IInv, Types
  <2> QED
    BY <2>1, <2>2
<1>4. CASE LoadForDecrement(t)
  <2>1. /\ UNCHANGED <<mainPc, threads, threadCount, mainLoaded, joining, accepted, backlog>>
        /\ pc' = [pc EXCEPT ![t] = "store"]
        /\ loaded' = [loaded EXCEPT ![t] = threadCount]
    BY <1>4 DEF LoadForDecrement, Goto, mainVars, kernelVars
  <2> QED
    BY <2>1 DEF IInv, Types, Labels, ClientAccepted, CountsFilled, Filled
<1>5. CASE StoreDecremented(t)
  <2>1. /\ UNCHANGED <<mainPc, threads, mainLoaded, joining, accepted, backlog>>
        /\ pc[t] = "store" /\ pc' = [pc EXCEPT ![t] = "exited"]
        /\ threadCount' = loaded[t] - 1
        /\ loaded' = [loaded EXCEPT ![t] = 0]
    BY <1>5 DEF StoreDecremented, Goto, mainVars, kernelVars
  <2>2. Filled(loaded[t]) /\ loaded[t] \in Int
    BY <2>1 DEF IInv, Types, CountsFilled
  <2>3. Types' /\ ClientAccepted'
    BY <2>1, <2>2 DEF IInv, Types, Labels, ClientAccepted
  <2>4. Filled(threadCount)' /\ threadCount' < MAX_CLIENTS /\ Filled(threadCount + 1)'
    BY <2>1, <2>2 DEF Filled, Slots
  <2>5. \A n : Filled(n)' <=> Filled(n)
    BY <2>1 DEF Filled
  <2>6. \A u \in Client : pc'[u] = "store" => Filled(loaded[u])'
    <3> SUFFICES ASSUME NEW u \in Client, pc'[u] = "store" PROVE Filled(loaded[u])'
      OBVIOUS
    <3>1. pc[u] = "store" /\ loaded'[u] = loaded[u]
      BY <2>1 DEF IInv, Types
    <3> QED
      BY <2>5, <3>1 DEF IInv, CountsFilled
  <2> QED
    BY <2>1, <2>3, <2>4, <2>5, <2>6 DEF IInv, CountsFilled
<1> QED
  BY <1>1, <1>2, <1>3, <1>4, <1>5 DEF ClientHandler

LEMMA InvClient ==
  ASSUME IInv, NEW c \in Client, ClientStep(c)
  PROVE  IInv'
<1>1. /\ UNCHANGED <<mainPc, threads, threadCount, mainLoaded, joining, accepted, pc, loaded>>
      /\ backlog' \in SUBSET Client
  BY DEF ClientStep, Connect, Send, SendRequest, SendNothing, Receive, Disconnect, mainVars, threadVars,
         kernelVars, IInv, Types
<1> QED
  BY <1>1, InvAside DEF IInv, Types

LEMMA Invariance == Spec => []IInv
<1>1. IInv /\ [Next]_vars => IInv'
  <2>1. ASSUME IInv, UNCHANGED vars PROVE IInv'
    BY <2>1, InvAside DEF vars, mainVars, threadVars, kernelVars, IInv, Types
  <2> QED
    BY <2>1, InvMain, InvHandler, InvClient DEF Next
<1> QED
  BY <1>1, InvInit, PTL DEF Spec

-----------------------------------------------------------------------------
(* The types and the bounds of the counts *)

\* A count that a thread writes back may be too small, but by no more than one for
\* each thread that has left; a client gets one thread only, so that there are no
\* more of these than clients.

\* The clients whose connection main has still to accept.
Waiting == {c \in Client : cpc[c] = "out" \/ c \in backlog}

\* The types of what the counts do not touch.
Kinds ==
  /\ mainPc \in {"accept", "check", "create", "load", "store", "refuse", "stop", "join", "down"}
  /\ isRunning \in BOOLEAN
  /\ clientSocket \in Fds \cup {0} /\ accepted \in Client \cup {NoClient}
  /\ fd \in [Client -> Fds \cup {0}]
  /\ conn \in [Client -> Client \cup {NoClient}]
  /\ files \in [Fds -> Client \cup {NoClient}]
  /\ inbox \in [Client -> {"ask", "mute", "QUIT", NoRequest}]
  /\ outbox \in [Client -> Seq({"reply", "BYE", "overflow"})]
  /\ peer \in [Client -> {"open", "left", "reset", "broken"}]
  /\ cpc \in [Client -> {"out", "prompt", "waiting", "gone"}]

\* A client is accepted once, and gets a thread once.
ServedOnce ==
  /\ \A c \in backlog : cpc[c] # "out"
  /\ \A c \in Waiting : pc[c] = "none" /\ accepted # c /\ \A f \in Fds : files[f] # c
  /\ accepted \in Client => pc[accepted] = "none"

\* No connection is behind two descriptors.
OneDescriptor == \A f, g \in Fds : files[f] = files[g] /\ files[f] # NoClient => f = g

Within(n) == -Cardinality(Ended) <= n /\ n <= MAX_CLIENTS

\* Each count, and each old value of it, misses no more than the threads that ended.
LeaversCounted ==
  /\ Within(threadCount) /\ Within(mainLoaded) /\ Within(joining + 1)
  /\ \A t \in Client : Within(loaded[t])

BInv == Kinds /\ ServedOnce /\ OneDescriptor /\ LeaversCounted

\* A set of clients is finite and has no more than Clients members.
LEMMA ClientSets ==
  ASSUME NEW S \in SUBSET Client
  PROVE  IsFiniteSet(S) /\ Cardinality(S) \in Nat /\ Cardinality(S) <= Clients
<1>1. Clients \in Nat /\ Clients \in Int /\ 1 \in Int
  BY ServerAssumption
<1>2. IsFiniteSet(Client) /\ Cardinality(Client) = Clients
  BY <1>1, FS_Interval DEF Client
<1>3. IsFiniteSet(S) /\ Cardinality(S) <= Clients
  BY <1>2, FS_Subset
<1> QED
  BY <1>3, FS_CardinalityType

\* A larger set of clients has more members, and one more for one more.
LEMMA MoreClients ==
  ASSUME NEW S \in SUBSET Client, NEW T \in SUBSET Client, S \subseteq T
  PROVE  /\ Cardinality(S) <= Cardinality(T)
         /\ \A t \in T \ S : Cardinality(S) + 1 <= Cardinality(T)
<1>1. IsFiniteSet(S) /\ IsFiniteSet(T) /\ Cardinality(S) \in Nat /\ Cardinality(T) \in Nat
  BY ClientSets
<1>2. Cardinality(S) <= Cardinality(T) /\ (Cardinality(S) = Cardinality(T) => S = T)
  BY <1>1, FS_Subset
<1> QED
  BY <1>1, <1>2

\* A client whose connection is behind no descriptor leaves one free, and main gets it.
LEMMA FreeDescriptor ==
  ASSUME Kinds, OneDescriptor, NEW c \in Client, \A f \in Fds : files[f] # c
  PROVE  LET f == Min({g \in Fds : files[g] = NoClient})
         IN  f \in Fds /\ files[f] = NoClient
<1> DEFINE Free == {g \in Fds : files[g] = NoClient}
<1>1. Fds = Client /\ IsFiniteSet(Client) /\ Cardinality(Client) \in Nat
  BY ClientSets DEF Fds, Client
<1>2. Free # {}
  <2> SUFFICES ASSUME Free = {} PROVE FALSE
    OBVIOUS
  <2> DEFINE T == Client \ {c}
  <2>1. files \in [Client -> T]
    BY <1>1 DEF Kinds
  <2>2. IsFiniteSet(T) /\ Cardinality(T) < Cardinality(Client)
    <3>1. IsFiniteSet(T) /\ Cardinality(T) \in Nat
      BY ClientSets
    <3>2. T \subseteq Client /\ c \in Client \ T
      OBVIOUS
    <3>3. Cardinality(T) + 1 <= Cardinality(Client)
      BY <3>2, MoreClients
    <3> QED
      BY <1>1, <3>1, <3>3
  <2>3. \E x, y \in Client : x # y /\ files[x] = files[y]
    <3> HIDE DEF T
    <3> QED
      BY <1>1, <2>1, <2>2, FS_PigeonHole
  <2> QED
    BY <1>1, <2>1, <2>3 DEF OneDescriptor, NoClient, Client
<1>3. Min(Free) \in Free
  BY <1>1, <1>2, MinClient
<1> QED
  BY <1>3

LEMMA BoundsInit ==
  ASSUME Init
  PROVE  BInv
<1> USE ServerAssumption
<1>1. Kinds
  BY DEF Init, Kinds, Fds, NoClient
<1>2. ServedOnce /\ OneDescriptor
  BY DEF Init, ServedOnce, Waiting, OneDescriptor, NoClient, Client
<1>3. Cardinality(Ended) \in Nat
  BY ClientSets DEF Ended
<1>4. LeaversCounted
  BY <1>3 DEF Init, LeaversCounted, Within
<1> QED
  BY <1>1, <1>2, <1>4 DEF BInv

LEMMA BoundsProcessEnds ==
  ASSUME BInv, ProcessEnds
  PROVE  BInv'
<1> USE ServerAssumption DEF ProcessEnds
<1>1. Kinds'
  BY DEF Kinds, BInv, NoClient
<1>2. ServedOnce' /\ OneDescriptor'
  BY DEF ServedOnce, Waiting, OneDescriptor, NoClient, Client
<1>3. Ended' \in SUBSET Client
  BY DEF Ended
<1>4. Cardinality(Ended') \in Nat
  <2>1. PICK S \in SUBSET Client : S = Ended'
    BY <1>3
  <2> QED
    BY <2>1, ClientSets
<1>5. LeaversCounted'
  BY <1>4 DEF LeaversCounted, Within
<1> QED
  BY <1>1, <1>2, <1>5 DEF BInv

\* A write appends an answer or breaks the connection.
LEMMA WriteKinds ==
  ASSUME Kinds, NEW f, NEW text \in {"reply", "BYE", "overflow"}, Write(f, text)
  PROVE  /\ outbox' \in [Client -> Seq({"reply", "BYE", "overflow"})]
         /\ peer' \in [Client -> {"open", "left", "reset", "broken"}]
<1>1. Behind(f) \in Client \cup {NoClient}
  BY DEF Behind, Kinds
<1>2. PICK c \in Client \cup {NoClient} : c = Behind(f)
  BY <1>1
<1>3. CASE UNCHANGED <<outbox, peer>>
  BY <1>3 DEF Kinds
<1>4. CASE c \in Client /\ outbox' = [outbox EXCEPT ![c] = Append(@, text)] /\ peer' = peer
  <2>1. outbox[c] \in Seq({"reply", "BYE", "overflow"})
    BY <1>4 DEF Kinds
  <2>2. Append(outbox[c], text) \in Seq({"reply", "BYE", "overflow"})
    BY <2>1
  <2> QED
    BY <1>4, <2>2 DEF Kinds
<1>5. CASE c \in Client /\ peer' = [peer EXCEPT ![c] = "broken"] /\ outbox' = outbox
  BY <1>5 DEF Kinds
<1> QED
  BY <1>2, <1>3, <1>4, <1>5 DEF Write, Kinds

\* A client that leaves has read its answers or resets the connection.
LEMMA LeaveKinds ==
  ASSUME Kinds, NEW c \in Client, NEW unread, Leave(c, unread)
  PROVE  /\ outbox' \in [Client -> Seq({"reply", "BYE", "overflow"})]
         /\ peer' \in [Client -> {"open", "left", "reset", "broken"}]
         /\ cpc' \in [Client -> {"out", "prompt", "waiting", "gone"}]
         /\ \A d \in Client : cpc'[d] = "out" => cpc[d] = "out"
BY DEF Leave, Kinds

\* Closing a descriptor only takes connections away.
LEMMA CloseKinds ==
  ASSUME Kinds, NEW f, Close(f)
  PROVE  /\ files' \in [Fds -> Client \cup {NoClient}]
         /\ \A g \in Fds : files'[g] \in {files[g], NoClient}
BY DEF Close, Kinds

-----------------------------------------------------------------------------
(* Steps that disturb one part only *)

\* Nobody becomes a client again, no thread starts over, and nothing is accepted.
LEMMA OwnersAside ==
  ASSUME ServedOnce, OneDescriptor, Kinds, backlog \in SUBSET Client,
         backlog' = backlog, accepted' \in {accepted, NoClient},
         \A c \in Client : cpc'[c] = "out" => cpc[c] = "out",
         \A c \in Client : pc[c] = "none" => pc'[c] = "none",
         \A f \in Fds : files'[f] \in {files[f], NoClient}
  PROVE  ServedOnce' /\ OneDescriptor'
<1> USE ServerAssumption
<1>0. NoClient \notin Client
  BY DEF NoClient, Client
<1>1. OneDescriptor'
  BY DEF OneDescriptor
<1>2. \A c \in backlog' : cpc'[c] # "out"
  BY DEF ServedOnce
<1>3. ASSUME NEW c \in Waiting' PROVE pc'[c] = "none" /\ accepted' # c /\ \A f \in Fds : files'[f] # c
  <2>1. c \in Waiting /\ c \in Client
    BY <1>3 DEF Waiting
  <2>2. pc[c] = "none" /\ accepted # c /\ \A f \in Fds : files[f] # c
    BY <2>1 DEF ServedOnce
  <2> QED
    BY <1>0, <2>1, <2>2
<1>4. accepted' \in Client => pc'[accepted'] = "none"
  BY <1>0 DEF ServedOnce
<1> QED
  BY <1>1, <1>2, <1>3, <1>4 DEF ServedOnce

\* No count changes and nobody comes back.
LEMMA CountsAside ==
  ASSUME LeaversCounted, Types, pc' \in [Client -> Labels],
         \A t \in Client : pc[t] = "exited" => pc'[t] = "exited",
         threadCount' = threadCount, mainLoaded' = mainLoaded, joining' = joining,
         loaded' = loaded
  PROVE  LeaversCounted'
<1>1. Ended \in SUBSET Client /\ Ended' \in SUBSET Client /\ Ended \subseteq Ended'
  BY DEF Ended
<1>2. PICK S \in SUBSET Client : S = Ended
  BY <1>1
<1>3. PICK T \in SUBSET Client : T = Ended'
  BY <1>1
<1>4. Cardinality(S) <= Cardinality(T) /\ Cardinality(S) \in Nat /\ Cardinality(T) \in Nat
  BY <1>1, <1>2, <1>3, ClientSets, MoreClients
<1>5. \A n \in Int : Within(n) => Within(n)'
  BY <1>2, <1>3, <1>4, ServerAssumption DEF Within
<1> QED
  BY <1>5 DEF LeaversCounted, Types

-----------------------------------------------------------------------------
(* Every step preserves the bounds *)

LEMMA BoundsMain ==
  ASSUME IInv, BInv, Main \/ HandleSignal
  PROVE  BInv'
<1> USE ServerAssumption
<1>0. NoClient \notin Client /\ pc \in [Client -> Labels] /\ backlog \in SUBSET Client
  BY DEF NoClient, Client, IInv, Types
<1>1. CASE Accept
  <2>1. PICK c \in Client : c = Min(backlog) /\ c \in backlog
    BY <1>0, <1>1, MinClient DEF Accept
  <2>2. c \in Waiting /\ cpc[c] # "out"
    BY <2>1 DEF Waiting, BInv, ServedOnce
  <2>3. pc[c] = "none" /\ \A f \in Fds : files[f] # c
    BY <2>2 DEF BInv, ServedOnce
  <2>4. PICK f \in Fds : f = Min({g \in Fds : files[g] = NoClient}) /\ files[f] = NoClient
    BY <2>3, FreeDescriptor DEF BInv
  <2>5. /\ backlog' = backlog \ {c} /\ accepted' = c /\ mainPc' = "check"
        /\ UNCHANGED <<isRunning, threads, mainLoaded, joining, threadCount, pc, fd, conn, loaded,
                       inbox, outbox, peer, cpc>>
    BY <1>1, <2>1, <2>4 DEF Accept, threadVars
  <2>6. \/ files' = [files EXCEPT ![f] = c] /\ clientSocket' = f
        \/ files' = files /\ clientSocket' = 0
    BY <1>1, <2>1, <2>4 DEF Accept
  <2>7. Kinds' /\ OneDescriptor'
    <3>1. CASE files' = [files EXCEPT ![f] = c] /\ clientSocket' = f
      <4>1. Kinds'
        BY <2>5, <3>1 DEF BInv, Kinds
      <4>2. OneDescriptor'
        BY <2>3, <3>1 DEF BInv, Kinds, OneDescriptor
      <4> QED
        BY <4>1, <4>2
    <3>2. CASE files' = files /\ clientSocket' = 0
      BY <2>5, <3>2 DEF BInv, Kinds, OneDescriptor
    <3> QED
      BY <2>6, <3>1, <3>2
  <2>8. ServedOnce'
    <3>1. Waiting' = Waiting \ {c} /\ \A d \in backlog' : cpc'[d] # "out"
      BY <2>2, <2>5 DEF Waiting, BInv, ServedOnce
    <3>2. ASSUME NEW d \in Waiting \ {c} PROVE pc'[d] = "none" /\ accepted' # d /\ \A g \in Fds : files'[g] # d
      <4>1. d # c /\ accepted' # d /\ pc'[d] = "none" /\ \A g \in Fds : files[g] # d
        BY <2>5, <3>2 DEF BInv, ServedOnce
      <4> QED
        BY <2>6, <4>1 DEF BInv, Kinds
    <3> QED
      BY <2>3, <2>5, <3>1, <3>2 DEF ServedOnce
  <2>9. LeaversCounted'
    BY <1>0, <2>5, CountsAside DEF BInv, IInv
  <2> QED
    BY <2>7, <2>8, <2>9 DEF BInv
<1>2. CASE Create
  <2>1. CASE ProcessEnds
    BY <2>1, BoundsProcessEnds
  <2>2. CASE ~ProcessEnds
    <3>1. /\ accepted \in Client /\ accepted' = NoClient /\ mainPc' = "load"
          /\ pc' = [pc EXCEPT ![accepted] = "start"]
          /\ UNCHANGED <<isRunning, clientSocket, mainLoaded, joining, threadCount, fd, conn, loaded,
                         files, backlog, inbox, outbox, peer, cpc>>
      BY <1>2, <2>2 DEF Create, kernelVars, IInv, ClientAccepted
    <3>2. pc[accepted] = "none" /\ accepted \notin Waiting
      BY <3>1 DEF BInv, ServedOnce
    <3>3. Kinds' /\ OneDescriptor'
      BY <3>1 DEF BInv, Kinds, OneDescriptor
    <3>4. ServedOnce'
      <4>1. Waiting' = Waiting
        BY <3>1 DEF Waiting
      <4>2. \A d \in Waiting : d \in Client
        BY DEF Waiting
      <4> QED
        BY <1>0, <3>1, <3>2, <4>1, <4>2 DEF BInv, ServedOnce
    <3>5. pc' \in [Client -> Labels] /\ \A t \in Client : pc[t] = "exited" => pc'[t] = "exited"
      BY <1>0, <3>1, <3>2 DEF Labels
    <3>6. LeaversCounted'
      BY <3>1, <3>5, CountsAside DEF BInv, IInv
    <3> QED
      BY <3>3, <3>4, <3>6 DEF BInv
  <2> QED
    BY <2>1, <2>2
<1>3. CASE Refuse
  <2>1. CASE ProcessEnds
    BY <2>1, BoundsProcessEnds
  <2>2. CASE ~ProcessEnds
    <3>1. /\ Write(clientSocket, "overflow") /\ Close(clientSocket)
          /\ mainPc' = "accept" /\ accepted' = NoClient
          /\ UNCHANGED <<isRunning, clientSocket, mainLoaded, joining, threadCount, pc, fd, conn,
                         loaded, backlog, inbox, cpc>>
      BY <1>3, <2>2 DEF Refuse, threadVars
    <3>2. Kinds'
      <4>1. /\ outbox' \in [Client -> Seq({"reply", "BYE", "overflow"})]
            /\ peer' \in [Client -> {"open", "left", "reset", "broken"}]
        BY <3>1, WriteKinds DEF BInv
      <4>2. files' \in [Fds -> Client \cup {NoClient}]
        BY <3>1, CloseKinds DEF BInv
      <4> QED
        BY <3>1, <4>1, <4>2 DEF BInv, Kinds
    <3>3. ServedOnce' /\ OneDescriptor'
      <4>1. \A g \in Fds : files'[g] \in {files[g], NoClient}
        BY <3>1, CloseKinds DEF BInv
      <4> QED
        BY <1>0, <3>1, <4>1, OwnersAside DEF BInv
    <3>4. LeaversCounted'
      BY <1>0, <3>1, CountsAside DEF BInv, IInv
    <3> QED
      BY <3>2, <3>3, <3>4 DEF BInv
  <2> QED
    BY <2>1, <2>2
<1>4. CASE Exit
  BY <1>4, BoundsProcessEnds DEF Exit
<1>5. CASE Check \/ LoadForIncrement \/ StoreIncremented \/ HandleSignal \/ HasActiveThreads \/ Join
  <2>1. /\ mainPc' \in {"accept", "create", "refuse", "load", "store", "stop", "join"}
        /\ isRunning' \in BOOLEAN
        /\ UNCHANGED <<clientSocket, accepted, pc, fd, conn, loaded, files, backlog, inbox, outbox,
                       peer, cpc>>
    <3>1. CASE Check \/ HandleSignal \/ LoadForIncrement
      BY <3>1 DEF Check, HandleSignal, LoadForIncrement, threadVars, kernelVars, BInv, Kinds
    <3>2. CASE StoreIncremented \/ HasActiveThreads \/ Join
      BY <3>2 DEF StoreIncremented, HasActiveThreads, Join, threadVars, kernelVars, BInv, Kinds
    <3> QED
      BY <1>5, <3>1, <3>2
  <2>2. Kinds'
    BY <2>1 DEF BInv, Kinds
  <2>3. ServedOnce' /\ OneDescriptor'
    BY <2>1, <1>0, OwnersAside DEF BInv
  <2>4. Ended' = Ended
    BY <2>1 DEF Ended
  <2>5. PICK k \in Nat : k = Cardinality(Ended)
    BY ClientSets DEF Ended
  <2>6. \A n : Within(n)' <=> -k <= n /\ n <= MAX_CLIENTS
    BY <2>4, <2>5 DEF Within
  <2>7. \A n : Within(n) <=> -k <= n /\ n <= MAX_CLIENTS
    BY <2>5 DEF Within
  <2>8. threadCount \in Int /\ mainLoaded \in Int /\ joining \in Int /\ loaded \in [Client -> Int]
    BY DEF IInv, Types
  <2>9. Within(threadCount)' /\ Within(mainLoaded)' /\ Within(joining + 1)'
    <3>1. CASE Check \/ HandleSignal
      BY <2>6, <2>7, <2>8, <3>1 DEF Check, HandleSignal, BInv, LeaversCounted
    <3>2. CASE LoadForIncrement
      BY <2>6, <2>7, <2>8, <3>2 DEF LoadForIncrement, BInv, LeaversCounted
    <3>3. CASE StoreIncremented
      <4>1. mainLoaded + 1 <= MAX_CLIENTS
        BY <3>3 DEF StoreIncremented, IInv, CountsFilled, Filled
      <4> QED
        BY <2>5, <2>6, <2>7, <2>8, <3>3, <4>1 DEF StoreIncremented, BInv, LeaversCounted
    <3>4. CASE HasActiveThreads
      BY <2>6, <2>7, <2>8, <3>4 DEF HasActiveThreads, BInv, LeaversCounted
    <3>5. CASE Join
      BY <2>5, <2>6, <2>7, <2>8, <3>5 DEF Join, BInv, LeaversCounted
    <3> QED
      BY <1>5, <3>1, <3>2, <3>3, <3>4, <3>5
  <2>10. \A t \in Client : Within(loaded[t])'
    BY <2>1, <2>6, <2>7 DEF BInv, LeaversCounted
  <2> QED
    BY <2>2, <2>3, <2>9, <2>10 DEF BInv, LeaversCounted
<1> QED
  BY <1>1, <1>2, <1>3, <1>4, <1>5 DEF Main

LEMMA BoundsHandler ==
  ASSUME IInv, BInv, NEW t \in Client, ClientHandler(t)
  PROVE  BInv'
<1> USE ServerAssumption
<1>0. pc \in [Client -> Labels] /\ backlog \in SUBSET Client /\ loaded \in [Client -> Int]
  BY DEF IInv, Types
<1>1. CASE ProcessEnds
  BY <1>1, BoundsProcessEnds
<1>2. CASE ~ProcessEnds
  <2>1. /\ pc[t] \notin {"none", "exited"}
        /\ \E l \in Labels \ {"none"} : pc' = [pc EXCEPT ![t] = l]
        /\ UNCHANGED <<mainVars, backlog, cpc>>
    <3>1. CASE ReadArgument(t) \/ Test(t) \/ EnterRead(t) \/ LoadForDecrement(t)
      BY <3>1 DEF ReadArgument, Test, EnterRead, LoadForDecrement, Goto, kernelVars, Labels
    <3>2. CASE Read(t)
      BY <3>2 DEF Read, Dispatch, Goto, Labels
    <3>3. CASE Respond(t) \/ SayBye(t)
      BY <1>2, <3>3 DEF Respond, SayBye, Answer, Goto, Labels
    <3>4. CASE CloseSocket(t) \/ StoreDecremented(t) \/ ReadFails(t)
      BY <3>4 DEF CloseSocket, StoreDecremented, ReadFails, Goto, kernelVars, Labels
    <3> QED
      BY <3>1, <3>2, <3>3, <3>4 DEF ClientHandler
  <2>2. /\ pc' \in [Client -> Labels]
        /\ \A u \in Client : pc[u] = "none" => pc'[u] = "none"
        /\ \A u \in Client : pc[u] = "exited" => pc'[u] = "exited"
    BY <1>0, <2>1
  <2>3. /\ fd' \in [Client -> Fds \cup {0}]
        /\ conn' \in [Client -> Client \cup {NoClient}]
        /\ inbox' \in [Client -> {"ask", "mute", "QUIT", NoRequest}]
    <3>1. CASE ReadArgument(t) \/ Test(t) \/ LoadForDecrement(t) \/ StoreDecremented(t)
      <4>1. /\ fd' = fd \/ fd' = [fd EXCEPT ![t] = clientSocket]
            /\ UNCHANGED <<conn, inbox>>
        BY <3>1 DEF ReadArgument, Test, LoadForDecrement, StoreDecremented, kernelVars
      <4>2. fd \in [Client -> Fds \cup {0}] /\ clientSocket \in Fds \cup {0}
        BY DEF BInv, Kinds
      <4>3. fd' \in [Client -> Fds \cup {0}]
        BY <4>1, <4>2
      <4> QED
        BY <4>1, <4>3 DEF BInv, Kinds
    <3>2. CASE EnterRead(t)
      <4>1. Behind(fd[t]) \in Client \cup {NoClient}
        BY DEF Behind, BInv, Kinds
      <4> QED
        BY <3>2, <4>1 DEF EnterRead, kernelVars, BInv, Kinds
    <3>3. CASE Read(t)
      <4>1. conn' = [conn EXCEPT ![t] = NoClient] /\ fd' = fd
        BY <3>3 DEF Read
      <4>2. inbox' = inbox \/ inbox' = [inbox EXCEPT ![conn[t]] = NoRequest]
        BY <3>3 DEF Read
      <4> QED
        BY <4>1, <4>2 DEF BInv, Kinds
    <3>4. CASE Respond(t) \/ SayBye(t)
      BY <1>2, <3>4 DEF Respond, SayBye, Answer, BInv, Kinds
    <3>5. CASE CloseSocket(t) \/ ReadFails(t)
      BY <3>5 DEF CloseSocket, ReadFails, BInv, Kinds
    <3> QED
      BY <3>1, <3>2, <3>3, <3>4, <3>5 DEF ClientHandler
  <2>4. /\ outbox' \in [Client -> Seq({"reply", "BYE", "overflow"})]
        /\ peer' \in [Client -> {"open", "left", "reset", "broken"}]
    <3>1. CASE Respond(t) \/ SayBye(t)
      <4>1. \E text \in {"reply", "BYE"} : Write(fd[t], text)
        BY <1>2, <3>1 DEF Respond, SayBye, Answer
      <4> QED
        BY <4>1, WriteKinds DEF BInv
    <3>2. CASE Read(t)
      <4>1. outbox' = outbox /\ (peer' = peer \/ peer' = [peer EXCEPT ![conn[t]] = "broken"])
        BY <3>2 DEF Read
      <4> QED
        BY <4>1 DEF BInv, Kinds
    <3>3. CASE ~ (Respond(t) \/ SayBye(t) \/ Read(t))
      <4>1. UNCHANGED <<outbox, peer>>
        BY <3>3 DEF ClientHandler, ReadArgument, Test, EnterRead, LoadForDecrement, StoreDecremented,
                    CloseSocket, ReadFails, kernelVars
      <4> QED
        BY <4>1 DEF BInv, Kinds
    <3> QED
      BY <3>1, <3>2, <3>3
  <2>5. /\ files' \in [Fds -> Client \cup {NoClient}]
        /\ \A g \in Fds : files'[g] \in {files[g], NoClient}
    <3>1. CASE CloseSocket(t) \/ ReadFails(t)
      <4>1. Close(fd[t])
        BY <3>1 DEF CloseSocket, ReadFails
      <4> QED
        BY <4>1, CloseKinds DEF BInv
    <3>2. CASE ~ (CloseSocket(t) \/ ReadFails(t))
      <4>1. files' = files
        BY <1>2, <3>2 DEF ClientHandler, ReadArgument, Test, EnterRead, LoadForDecrement, StoreDecremented,
                    Read, Respond, SayBye, Answer, kernelVars
      <4> QED
        BY <4>1 DEF BInv, Kinds
    <3> QED
      BY <3>1, <3>2
  <2>6. Kinds'
    BY <2>1, <2>3, <2>4, <2>5 DEF BInv, Kinds, mainVars
  <2>7. ServedOnce' /\ OneDescriptor'
    BY <1>0, <2>1, <2>2, <2>5, OwnersAside DEF BInv, mainVars
  <2>8. LeaversCounted'
    <3>1. CASE StoreDecremented(t)
      <4>1. /\ pc[t] = "store" /\ pc' = [pc EXCEPT ![t] = "exited"]
            /\ threadCount' = loaded[t] - 1 /\ loaded' = [loaded EXCEPT ![t] = 0]
            /\ mainLoaded' = mainLoaded /\ joining' = joining
        BY <3>1 DEF StoreDecremented, Goto, mainVars
      <4>2. PICK S \in SUBSET Client : S = Ended
        BY DEF Ended
      <4>3. Ended' = S \cup {t} /\ t \notin S
        BY <1>0, <4>1, <4>2 DEF Ended
      <4>4. PICK T \in SUBSET Client : T = S \cup {t}
        OBVIOUS
      <4>5. S \subseteq T /\ t \in T \ S
        BY <4>3, <4>4
      <4>6. /\ Cardinality(S) \in Nat /\ Cardinality(T) \in Nat
            /\ Cardinality(S) + 1 <= Cardinality(T)
        BY <4>5, ClientSets, MoreClients
      <4>7. PICK j \in Nat, k \in Nat : j = Cardinality(S) /\ k = Cardinality(T) /\ j + 1 <= k
        BY <4>6
      <4>8. /\ \A n : Within(n) <=> -j <= n /\ n <= MAX_CLIENTS
            /\ \A n : Within(n)' <=> -k <= n /\ n <= MAX_CLIENTS
        BY <4>2, <4>3, <4>4, <4>7 DEF Within
      <4>9. /\ threadCount \in Int /\ mainLoaded \in Int /\ joining \in Int
            /\ \A u \in Client : loaded[u] \in Int
        BY <1>0 DEF IInv, Types
      <4>10. /\ Within(threadCount) /\ Within(mainLoaded) /\ Within(joining + 1)
             /\ \A u \in Client : Within(loaded[u])
        BY DEF BInv, LeaversCounted
      <4>11. Within(threadCount)' /\ Within(mainLoaded)' /\ Within(joining + 1)'
        BY <4>1, <4>7, <4>8, <4>9, <4>10
      <4>12. ASSUME NEW u \in Client PROVE Within(loaded[u])'
        <5>1. loaded'[u] = IF u = t THEN 0 ELSE loaded[u]
          BY <1>0, <4>1
        <5> QED
          BY <4>7, <4>8, <4>9, <4>10, <5>1
      <4> QED
        BY <4>11, <4>12 DEF LeaversCounted
    <3>2. CASE LoadForDecrement(t)
      <4>1. /\ pc' = [pc EXCEPT ![t] = "store"] /\ loaded' = [loaded EXCEPT ![t] = threadCount]
            /\ threadCount' = threadCount /\ mainLoaded' = mainLoaded /\ joining' = joining
        BY <3>2 DEF LoadForDecrement, Goto, mainVars
      <4>2. Ended' = Ended
        BY <1>0, <2>1, <4>1 DEF Ended
      <4>3. \A n : Within(n)' <=> Within(n)
        BY <4>2 DEF Within
      <4> QED
        BY <1>0, <4>1, <4>3 DEF BInv, LeaversCounted
    <3>3. CASE ~ (StoreDecremented(t) \/ LoadForDecrement(t))
      <4>1. UNCHANGED <<threadCount, loaded, mainLoaded, joining>>
        BY <1>2, <2>1, <3>3 DEF ClientHandler, ReadArgument, Test, EnterRead, Read, Respond, SayBye, Answer,
                    CloseSocket, ReadFails, mainVars
      <4> QED
        BY <2>2, <4>1, CountsAside DEF BInv, IInv
    <3> QED
      BY <3>1, <3>2, <3>3
  <2> QED
    BY <2>6, <2>7, <2>8 DEF BInv
<1> QED
  BY <1>1, <1>2

LEMMA BoundsClient ==
  ASSUME IInv, BInv, NEW c \in Client, ClientStep(c)
  PROVE  BInv'
<1> USE ServerAssumption
<1>0. NoClient \notin Client /\ pc \in [Client -> Labels] /\ backlog \in SUBSET Client
  BY DEF NoClient, Client, IInv, Types
<1>1. UNCHANGED <<mainVars, threadCount, threadVars, files>>
  BY DEF ClientStep, Connect, Send, SendRequest, SendNothing, Receive, Disconnect, kernelVars
<1>2. LeaversCounted'
  BY <1>0, <1>1, CountsAside DEF BInv, IInv, mainVars, threadVars
<1>3. CASE Connect(c)
  <2>1. /\ cpc[c] = "out" /\ cpc' = [cpc EXCEPT ![c] = "prompt"]
        /\ backlog' = backlog \cup {c} /\ UNCHANGED <<inbox, outbox, peer>>
    BY <1>3 DEF Connect
  <2>2. Kinds' /\ OneDescriptor'
    BY <1>1, <2>1 DEF BInv, Kinds, OneDescriptor, mainVars, threadVars
  <2>3. Waiting' = Waiting
    BY <2>1 DEF Waiting, BInv, Kinds
  <2>4. ServedOnce'
    BY <1>0, <1>1, <2>1, <2>3 DEF BInv, Kinds, ServedOnce, mainVars, threadVars
  <2> QED
    BY <1>2, <2>2, <2>4 DEF BInv
<1>4. CASE Send(c) \/ Receive(c) \/ Disconnect(c)
  <2>1. /\ backlog' = backlog
        /\ inbox' \in [Client -> {"ask", "mute", "QUIT", NoRequest}]
    <3>1. CASE SendRequest(c)
      <4>1. backlog' = backlog
        BY <3>1 DEF SendRequest
      <4>2. PICK r \in {"ask", "mute", "QUIT", NoRequest} :
              inbox' = inbox \/ inbox' = [inbox EXCEPT ![c] = r]
        BY <3>1 DEF SendRequest, Typed
      <4>3. inbox \in [Client -> {"ask", "mute", "QUIT", NoRequest}]
        BY DEF BInv, Kinds
      <4> QED
        BY <4>1, <4>2, <4>3
    <3>2. CASE SendNothing(c) \/ Receive(c) \/ Disconnect(c)
      BY <3>2 DEF SendNothing, Receive, Disconnect, kernelVars, BInv, Kinds
    <3> QED
      BY <1>4, <3>1, <3>2 DEF Send
  <2>2. /\ outbox' \in [Client -> Seq({"reply", "BYE", "overflow"})]
        /\ peer' \in [Client -> {"open", "left", "reset", "broken"}]
        /\ cpc' \in [Client -> {"out", "prompt", "waiting", "gone"}]
        /\ \A d \in Client : cpc'[d] = "out" => cpc[d] = "out"
    <3>1. CASE \E unread : Leave(c, unread)
      BY <3>1, LeaveKinds DEF BInv
    <3>2. CASE ~ (\E unread : Leave(c, unread))
      <4>1. \E l \in {"prompt", "waiting"} : cpc' = [cpc EXCEPT ![c] = l]
        BY <1>4, <3>2 DEF Send, SendRequest, SendNothing, Receive, Disconnect, kernelVars
      <4>2. peer' = peer
        BY <1>4, <3>2 DEF Send, SendRequest, SendNothing, Receive, Disconnect, kernelVars
      <4>3. \/ outbox' = outbox
            \/ \E n \in 1 .. Len(outbox[c]) :
                 outbox' = [outbox EXCEPT ![c] = SubSeq(outbox[c], n + 1, Len(outbox[c]))]
        BY <1>4, <3>2 DEF Send, SendRequest, SendNothing, Receive, Disconnect, kernelVars
      <4>4. outbox' \in [Client -> Seq({"reply", "BYE", "overflow"})]
        <5>1. outbox[c] \in Seq({"reply", "BYE", "overflow"})
          BY DEF BInv, Kinds
        <5>2. ASSUME NEW n \in 1 .. Len(outbox[c])
              PROVE  SubSeq(outbox[c], n + 1, Len(outbox[c])) \in Seq({"reply", "BYE", "overflow"})
          <6>1. n + 1 \in Int /\ Len(outbox[c]) \in Int
            BY <5>1
          <6>2. \A i \in n + 1 .. Len(outbox[c]) : outbox[c][i] \in {"reply", "BYE", "overflow"}
            BY <5>1
          <6> QED
            BY <6>1, <6>2, SubSeqProperties
        <5>3. outbox \in [Client -> Seq({"reply", "BYE", "overflow"})]
          BY DEF BInv, Kinds
        <5>4. CASE outbox' = outbox
          BY <5>3, <5>4
        <5>5. CASE \E n \in 1 .. Len(outbox[c]) :
                     outbox' = [outbox EXCEPT ![c] = SubSeq(outbox[c], n + 1, Len(outbox[c]))]
          <6>1. PICK rest \in Seq({"reply", "BYE", "overflow"}) : outbox' = [outbox EXCEPT ![c] = rest]
            BY <5>2, <5>5
          <6> QED
            BY <5>3, <6>1
        <5> QED
          BY <4>3, <5>4, <5>5
      <4>5. peer' \in [Client -> {"open", "left", "reset", "broken"}]
        BY <4>2 DEF BInv, Kinds
      <4>6. /\ cpc' \in [Client -> {"out", "prompt", "waiting", "gone"}]
            /\ \A d \in Client : cpc'[d] = "out" => cpc[d] = "out"
        BY <4>1 DEF BInv, Kinds
      <4> QED
        BY <4>4, <4>5, <4>6
    <3> QED
      BY <3>1, <3>2
  <2>3. Kinds'
    BY <1>1, <2>1, <2>2 DEF BInv, Kinds, mainVars, threadVars
  <2>4. ServedOnce' /\ OneDescriptor'
    BY <1>0, <1>1, <2>1, <2>2, OwnersAside DEF BInv, mainVars, threadVars
  <2> QED
    BY <1>2, <2>3, <2>4 DEF BInv
<1> QED
  BY <1>3, <1>4 DEF ClientStep

LEMMA Bounds == Spec => []BInv
<1>1. BInv /\ UNCHANGED vars => BInv'
  <2> SUFFICES ASSUME BInv, UNCHANGED vars PROVE BInv'
    OBVIOUS
  <2>1. Kinds' /\ OneDescriptor'
    BY DEF vars, mainVars, threadVars, kernelVars, BInv, Kinds, OneDescriptor
  <2>2. ServedOnce'
    BY DEF vars, mainVars, threadVars, kernelVars, BInv, ServedOnce, Waiting
  <2>3. LeaversCounted'
    BY DEF vars, mainVars, threadVars, kernelVars, BInv, LeaversCounted, Within, Ended
  <2> QED
    BY <2>1, <2>2, <2>3 DEF BInv
<1>2. IInv /\ BInv /\ [Next]_vars => BInv'
  BY <1>1, BoundsMain, BoundsHandler, BoundsClient DEF Next
<1> QED
  BY <1>2, BoundsInit, Invariance, PTL DEF Spec

\* The types, of which the bounds of the counts say most: an unlocked threadCount may
\* go below zero, but no further than there are clients, and a connection that main
\* accepts always finds a descriptor.
THEOREM TypeCorrect == Spec => []TypeOK
<1>1. IInv /\ BInv => TypeOK
  <2> SUFFICES ASSUME IInv, BInv PROVE TypeOK
    OBVIOUS
  <2>1. PICK k \in Nat : k = Cardinality(Ended) /\ k <= Clients
    BY ClientSets DEF Ended
  <2>2. \A n \in Int : Within(n) => n \in -Clients .. MAX_CLIENTS
    BY <2>1, ServerAssumption DEF Within
  <2>3. threadCount \in -Clients .. MAX_CLIENTS /\ mainLoaded \in -Clients .. MAX_CLIENTS
    BY <2>2 DEF IInv, Types, BInv, LeaversCounted
  <2>4. joining \in -Clients - 1 .. MAX_CLIENTS - 1
    <3>1. joining \in Int /\ joining + 1 \in Int
      BY DEF IInv, Types
    <3>2. joining + 1 \in -Clients .. MAX_CLIENTS
      BY <2>2, <3>1 DEF BInv, LeaversCounted
    <3> QED
      BY <3>1, <3>2, ServerAssumption
  <2>5. loaded \in [Client -> -Clients .. MAX_CLIENTS]
    <3>1. loaded \in [Client -> Int]
      BY DEF IInv, Types
    <3>2. \A t \in Client : loaded[t] \in -Clients .. MAX_CLIENTS
      BY <2>2, <3>1 DEF BInv, LeaversCounted
    <3> QED
      BY <3>1, <3>2
  <2> QED
    BY <2>3, <2>4, <2>5 DEF IInv, Types, Labels, BInv, Kinds, TypeOK
<1> QED
  BY <1>1, Invariance, Bounds, PTL

\* Where the unlocked threadCount leads main: when it creates a thread, never behind the
\* end of threads, and before its beginning by no more than the number of threads that
\* have ended; when it joins one, to a slot that pthread_create has filled.
THEOREM ArrayMatchesCount == Spec => []SlotsReached
<1>1. IInv /\ BInv => SlotsReached
  <2> SUFFICES ASSUME IInv, BInv PROVE SlotsReached
    OBVIOUS
  <2>1. MAX_CLIENTS \in Nat /\ threadCount \in Int /\ joining \in Int
    BY ServerAssumption DEF IInv, Types
  <2>2. PICK k \in Nat : k = Cardinality(Ended)
    BY ClientSets DEF Ended
  <2>3. mainPc = "create" => threadCount \in -Cardinality(Ended) .. MAX_CLIENTS - 1
    <3>1. -k <= threadCount
      BY <2>2 DEF BInv, LeaversCounted, Within
    <3> QED
      BY <2>1, <2>2, <3>1 DEF IInv, CountsFilled
  <2>4. \A s \in Slots : s < threadCount => threads[s] # NoClient
    BY DEF IInv, CountsFilled, Filled
  <2>5. mainPc = "join" /\ joining >= 0 => joining \in Slots /\ threads[joining] # NoClient
    BY <2>1 DEF IInv, CountsFilled, Filled, Slots
  <2> QED
    BY <2>3, <2>4, <2>5 DEF SlotsReached
<1> QED
  BY <1>1, Invariance, Bounds, PTL
==============================================================================
