--------------------------- MODULE SharedQueue_proof ---------------------------
(***************************************************************************)
(* Theorems about SharedQueue (lab4), for every number of processes, every *)
(* buffer size and every set of keys pressed.                              *)
(***************************************************************************)
EXTENDS SharedQueue, FiniteSetTheorems, TLAPS

PcStates == {"none", "start", "loop", "make", "hash", "wait", "lock", "access",
             "unlock", "post", "sleep", "zombie"}

\* The two kinds of process are disjoint finite sets.
LEMMA ChildSets ==
  /\ IsFiniteSet(Producers) /\ IsFiniteSet(Consumers) /\ IsFiniteSet(Children)
  /\ Producers \cap Consumers = {}
  /\ Producers \subseteq Children /\ Consumers \subseteq Children
<1>1. IsFiniteSet(0 .. PROD_MAX - 1) /\ IsFiniteSet(0 .. CONS_MAX - 1)
  BY FS_Interval, SharedAssumption
<1>2. IsFiniteSet({"P"}) /\ IsFiniteSet({"C"})
  BY FS_Singleton
<1>3. IsFiniteSet(Producers) /\ IsFiniteSet(Consumers)
  BY <1>1, <1>2, FS_Product DEF Producers, Consumers
<1>4. Producers \cap Consumers = {}
  BY DEF Producers, Consumers
<1> QED
  BY <1>3, <1>4, FS_Union DEF Children

\* A child is the pair of its kind and its index in the array of that kind.
LEMMA ChildIsSlot ==
  ASSUME NEW t \in Children
  PROVE  /\ t = <<t[1], t[2]>> /\ t[1] \in Kinds /\ t[2] \in 0 .. MaxAmount(t[1]) - 1
         /\ t \in Producers <=> t[1] = "P"
         /\ t \in Consumers <=> t[1] = "C"
BY SharedAssumption DEF Children, Producers, Consumers, Kinds, MaxAmount

\* An index below the bound of its kind is a child.
LEMMA SlotIsChild ==
  ASSUME NEW k \in Kinds, NEW i \in Nat, i < MaxAmount(k)
  PROVE  /\ <<k, i>> \in Children
         /\ <<k, i>> \in Producers <=> k = "P"
BY SharedAssumption DEF Kinds, MaxAmount, Producers, Consumers, Children

-----------------------------------------------------------------------------
(* Counting children *)

At(f, S, Q) == {t \in S : f[t] \in Q}

\* f after child t has moved to statement s.
Moved(f, t, s) == [f EXCEPT ![t] = s]

\* What child t adds, at statement s, to the number of children in S at Q.
Has(t, S, s, Q) == IF t \in S /\ s \in Q THEN 1 ELSE 0

\* Moving one child changes the number of children at some statements by at most
\* one, in the direction of the move.
LEMMA CountMove ==
  ASSUME NEW S, S \subseteq Children, NEW Q,
         NEW f \in [Children -> PcStates], NEW t \in Children, NEW s \in PcStates
  PROVE  /\ Cardinality(At(f, S, Q)) \in Nat
         /\ Cardinality(At(Moved(f, t, s), S, Q)) \in Nat
         /\ Cardinality(At(Moved(f, t, s), S, Q)) =
              Cardinality(At(f, S, Q)) + Has(t, S, s, Q) - Has(t, S, f[t], Q)
<1> DEFINE g == Moved(f, t, s)
           A == At(f, S, Q)
           B == At(g, S, Q)
<1>1. IsFiniteSet(A) /\ IsFiniteSet(B) /\ Cardinality(A) \in Nat /\ Cardinality(B) \in Nat
  <2>1. A \subseteq Children /\ B \subseteq Children
    BY DEF At
  <2> QED
    BY <2>1, ChildSets, FS_Subset, FS_CardinalityType
<1>2. g \in [Children -> PcStates] /\ g[t] = s /\ \A u \in S : u # t => g[u] = f[u]
  BY DEF Moved
<1>3. t \notin S \/ (f[t] \in Q <=> s \in Q) => A = B
  BY <1>2 DEF At
<1>4. t \in S /\ f[t] \in Q /\ s \notin Q => t \in A /\ B = A \ {t}
  BY <1>2 DEF At
<1>5. t \in S /\ f[t] \notin Q /\ s \in Q => t \notin A /\ B = A \cup {t}
  BY <1>2 DEF At
<1>6. t \in A => Cardinality(A \ {t}) = Cardinality(A) - 1
  BY <1>1, FS_RemoveElement
<1>7. t \notin A => Cardinality(A \cup {t}) = Cardinality(A) + 1
  BY <1>1, FS_AddElement
<1>8. Cardinality(B) = Cardinality(A) + Has(t, S, s, Q) - Has(t, S, f[t], Q)
  <2> HIDE DEF A, B
  <2>1. CASE t \in S /\ f[t] \in Q /\ s \notin Q
    <3>1. Has(t, S, s, Q) = 0 /\ Has(t, S, f[t], Q) = 1
      BY <2>1 DEF Has
    <3>2. Cardinality(B) = Cardinality(A) - 1
      BY <1>4, <1>6, <2>1
    <3> QED
      BY <1>1, <3>1, <3>2
  <2>2. CASE t \in S /\ f[t] \notin Q /\ s \in Q
    BY <1>1, <1>5, <1>7, <2>2 DEF Has
  <2>3. CASE t \notin S \/ (f[t] \in Q <=> s \in Q)
    BY <1>1, <1>3, <2>3 DEF Has
  <2> QED
    BY <2>1, <2>2, <2>3
<1> QED
  BY <1>1, <1>8

\* The counts that the properties are stated with are counts of this kind.
LEMMA NumberMove ==
  ASSUME pc \in [Children -> PcStates], NEW t \in Children, NEW s \in PcStates,
         pc' = Moved(pc, t, s), NEW S \in SUBSET Children, NEW Q
  PROVE  /\ Number(S, Q) \in Nat
         /\ Cardinality({u \in S : pc'[u] \in Q}) \in Nat
         /\ Cardinality({u \in S : pc'[u] \in Q}) =
              Number(S, Q) + Has(t, S, s, Q) - Has(t, S, pc[t], Q)
<1>1. /\ Number(S, Q) = Cardinality(At(pc, S, Q))
      /\ Cardinality({u \in S : pc'[u] \in Q}) = Cardinality(At(Moved(pc, t, s), S, Q))
  BY DEF Number, At
<1> QED
  BY <1>1, CountMove

-----------------------------------------------------------------------------
(* The inductive invariant *)

Critical == {"access", "unlock"}
InRound == {"lock", "access", "unlock", "post"}

\* Also once children are being killed the mutex is held at most once, and no
\* token has been made: a killed child takes those it held with it.
MutexBound == mutex + Number(Children, Critical) <= 1
TokensBound == freeSpace + items + Number(Children, InRound) <= MSG_MAX

\* While main serves its menu only the child it waits for has been told to stop,
\* and the slots past the end of each array are free: a new child never takes the
\* place of one that runs, and wait(NULL) reaps the child that was deleted.
SlotsFree ==
  Session =>
    /\ \A t \in Children : t[2] < amount[t[1]] => flag[t] = TRUE /\ pc[t] # "zombie"
    /\ \E k \in Kinds : \A t \in Children :
         t[2] >= amount[t[1]] /\ ~(mainPc = "wait" /\ t = <<k, amount[k]>>) => pc[t] = "none"

\* While main waits for a child it has killed, that child is one of its children.
ReapedBound ==
  /\ reaped <= amount["P"] + amount["C"]
  /\ mainPc = "exitWait" => reaped < amount["P"] + amount["C"]
  /\ Session => reaped = 0

IInv ==
  /\ TypeOK
  /\ MutexDiscipline /\ MutexBound
  /\ TokensConserved /\ TokensBound
  /\ NoMessageStranded
  /\ SlotsFree
  /\ ReapedBound

LEMMA InvInit == Init => IInv
<1> SUFFICES ASSUME Init PROVE IInv
  OBVIOUS
<1>1. TypeOK
  BY SharedAssumption DEF Init, TypeOK, Kinds, MaxAmount
<1>2. \A S, Q : S \subseteq Children /\ "none" \notin Q => Number(S, Q) = 0
  <2> SUFFICES ASSUME NEW S, NEW Q, S \subseteq Children, "none" \notin Q
               PROVE  Number(S, Q) = 0
    OBVIOUS
  <2>1. {t \in S : pc[t] \in Q} = {}
    BY DEF Init
  <2> QED
    BY <2>1, FS_EmptySet DEF Number
<1>3. /\ Number(Children, Critical) = 0 /\ Number(Children, InRound) = 0
      /\ Number(Producers, {"unlock", "post"}) = 0 /\ Number(Consumers, {"lock", "access"}) = 0
  BY <1>2, ChildSets DEF Critical, InRound
<1>4. MutexDiscipline /\ MutexBound /\ TokensConserved /\ TokensBound /\ NoMessageStranded
  BY <1>3, SharedAssumption
  DEF Init, MutexDiscipline, MutexBound, TokensConserved, TokensBound, NoMessageStranded, Critical,
      InRound
<1>5. SlotsFree
  BY ChildIsSlot DEF Init, SlotsFree, Kinds
<1>6. ReapedBound
  BY DEF Init, ReapedBound, Kinds, Session
<1> QED
  BY <1>1, <1>4, <1>5, <1>6 DEF IInv

\* What the counted properties ask of a step that moves child t to statement s:
\* what the child held before, it holds afterwards or has given back.
LEMMA TokenMove ==
  ASSUME IInv, NEW t \in Children, NEW s \in PcStates, pc' = Moved(pc, t, s),
         Session' => Session,
         mutex' \in Nat, freeSpace' \in Nat, items' \in Nat, msg_count' \in Nat,
         LET held == Has(t, Children, pc[t], Critical)
             holds == Has(t, Children, s, Critical)
         IN  /\ mutex' + holds <= mutex + held
             /\ Session' => mutex' + holds = mutex + held,
         LET held == Has(t, Children, pc[t], InRound)
             holds == Has(t, Children, s, InRound)
         IN  /\ freeSpace' + items' + holds <= freeSpace + items + held
             /\ Session' => freeSpace' + items' + holds = freeSpace + items + held,
         \/ msg_count' = 0
         \/ ~Session'
         \/ msg_count' + items + Has(t, Producers, pc[t], {"unlock", "post"})
                               + Has(t, Consumers, pc[t], {"lock", "access"})
              <= msg_count + items' + Has(t, Producers, s, {"unlock", "post"})
                                    + Has(t, Consumers, s, {"lock", "access"})
  PROVE  /\ MutexDiscipline' /\ MutexBound' /\ TokensConserved' /\ TokensBound'
         /\ NoMessageStranded'
<1>1. /\ pc \in [Children -> PcStates] /\ mutex \in Nat /\ freeSpace \in Nat /\ items \in Nat
      /\ msg_count \in Nat /\ MSG_MAX \in Nat
  BY SharedAssumption DEF IInv, TypeOK, PcStates
<1>2. \A S, Q : /\ Has(t, S, pc[t], Q) \in {0, 1}
                /\ Has(t, S, s, Q) \in {0, 1}
  BY DEF Has
<1>3. \A S \in SUBSET Children : \A Q :
        /\ Number(S, Q) \in Nat
        /\ Cardinality({u \in S : pc'[u] \in Q}) \in Nat
        /\ Cardinality({u \in S : pc'[u] \in Q}) =
             Number(S, Q) + Has(t, S, s, Q) - Has(t, S, pc[t], Q)
  BY <1>1, NumberMove
<1>4. MutexDiscipline' /\ MutexBound'
  <2>1. /\ Number(Children, Critical) \in Nat
        /\ Number(Children, Critical)' \in Nat
        /\ Number(Children, Critical)' = Number(Children, Critical)
             + Has(t, Children, s, Critical) - Has(t, Children, pc[t], Critical)
    BY <1>3 DEF Number
  <2> QED
    BY <1>1, <1>2, <2>1 DEF IInv, MutexDiscipline, MutexBound, Critical
<1>5. TokensConserved' /\ TokensBound'
  <2>1. /\ Number(Children, InRound) \in Nat
        /\ Number(Children, InRound)' \in Nat
        /\ Number(Children, InRound)' = Number(Children, InRound)
             + Has(t, Children, s, InRound) - Has(t, Children, pc[t], InRound)
    BY <1>3 DEF Number
  <2> QED
    BY <1>1, <1>2, <2>1 DEF IInv, TokensConserved, TokensBound, InRound
<1>6. NoMessageStranded'
  <2> DEFINE P == {"unlock", "post"}
             C == {"lock", "access"}
  <2>1. /\ Number(Producers, P) \in Nat /\ Number(Producers, P)' \in Nat
        /\ Number(Producers, P)' = Number(Producers, P)
             + Has(t, Producers, s, P) - Has(t, Producers, pc[t], P)
    BY <1>3, ChildSets DEF Number
  <2>2. /\ Number(Consumers, C) \in Nat /\ Number(Consumers, C)' \in Nat
        /\ Number(Consumers, C)' = Number(Consumers, C)
             + Has(t, Consumers, s, C) - Has(t, Consumers, pc[t], C)
    BY <1>3, ChildSets DEF Number
  <2>3. Session => msg_count <= items + Number(Producers, P) + Number(Consumers, C)
    BY DEF IInv, NoMessageStranded
  <2>4. Session' => msg_count' <= items' + Number(Producers, P)' + Number(Consumers, C)'
    BY <1>1, <1>2, <2>1, <2>2, <2>3
  <2> QED
    BY <2>4 DEF NoMessageStranded
<1> QED
  BY <1>4, <1>5, <1>6

\* A child that moves changes no slot, and becomes a zombie only when told to stop.
LEMMA SlotsKept ==
  ASSUME IInv, NEW t \in Children, NEW s \in PcStates, pc[t] # "none", pc' = Moved(pc, t, s),
         UNCHANGED <<mainPc, amount, reaped, flag>>, s = "zombie" => flag[t] = FALSE
  PROVE  SlotsFree' /\ ReapedBound'
<1>1. pc \in [Children -> PcStates]
  BY DEF IInv, TypeOK, PcStates
<1>2. \A u \in Children : u # t => pc'[u] = pc[u]
  BY <1>1 DEF Moved
<1>3. pc'[t] = s
  BY <1>1 DEF Moved
<1>4. SlotsFree'
  <2> SUFFICES ASSUME Session PROVE SlotsFree'
    BY DEF SlotsFree, Session
  <2>1. \A u \in Children : u[2] < amount[u[1]] => flag[u] = TRUE /\ pc'[u] # "zombie"
    BY <1>2, <1>3 DEF IInv, SlotsFree
  <2>2. PICK k \in Kinds : \A u \in Children :
          u[2] >= amount[u[1]] /\ ~(mainPc = "wait" /\ u = <<k, amount[k]>>) => pc[u] = "none"
    BY DEF IInv, SlotsFree
  <2>3. \A u \in Children :
          u[2] >= amount[u[1]] /\ ~(mainPc = "wait" /\ u = <<k, amount[k]>>) => pc'[u] = "none"
    BY <1>2, <2>2
  <2> QED
    BY <2>1, <2>3 DEF SlotsFree
<1>5. ReapedBound'
  BY DEF IInv, ReapedBound, Session
<1> QED
  BY <1>4, <1>5

-----------------------------------------------------------------------------
(* The steps of a child *)

\* The statements that touch neither a semaphore nor the queue.
LEMMA LocalStep ==
  ASSUME IInv, NEW t \in Children, UNCHANGED <<mainPc, amount, reaped, flag>>,
         \/ InitChild(t) \/ Loop(t) \/ Sleep(t)
         \/ t \in Producers /\ (CreateMsg(t) \/ CreateHash(t))
  PROVE  IInv'
<1>1. PICK s \in PcStates : /\ pc' = Moved(pc, t, s) /\ pc[t] # "none"
                            /\ pc[t] \notin InRound /\ s \notin InRound
                            /\ s = "zombie" => flag[t] = FALSE
  BY DEF InitChild, Loop, Sleep, CreateMsg, CreateHash, Goto, Moved, PcStates, InRound, IInv, TypeOK
<1>2. UNCHANGED <<semVars, queueVars>> /\ size' \in [Producers -> Sizes]
  BY DEF InitChild, Loop, Sleep, CreateMsg, CreateHash, IInv, TypeOK
<1>3. TypeOK'
  BY <1>1, <1>2 DEF IInv, TypeOK, PcStates, Moved, semVars, queueVars
<1>4. \A S, Q : Q \subseteq InRound => Has(t, S, pc[t], Q) = 0 /\ Has(t, S, s, Q) = 0
  BY <1>1 DEF Has
<1>5. /\ MutexDiscipline' /\ MutexBound' /\ TokensConserved' /\ TokensBound'
      /\ NoMessageStranded'
  <2>1. /\ Critical \subseteq InRound /\ {"unlock", "post"} \subseteq InRound
        /\ {"lock", "access"} \subseteq InRound
    BY DEF Critical, InRound
  <2>2. /\ mutex \in Nat /\ freeSpace \in Nat /\ items \in Nat /\ msg_count \in Nat
        /\ UNCHANGED <<mutex, freeSpace, items, msg_count>> /\ Session' = Session
    BY <1>2, SharedAssumption DEF IInv, TypeOK, semVars, queueVars, Session
  <2> QED
    BY <1>1, <1>4, <2>1, <2>2, TokenMove
<1>6. SlotsFree' /\ ReapedBound'
  BY <1>1, SlotsKept
<1> QED
  BY <1>3, <1>5, <1>6 DEF IInv

\* The calls of sem_wait and sem_post.
LEMMA SemaphoreStep ==
  ASSUME IInv, NEW t \in Children, UNCHANGED <<mainPc, amount, reaped, flag>>,
         Wait(t) \/ Lock(t) \/ Unlock(t) \/ Post(t)
  PROVE  IInv'
<1>1. PICK s \in PcStates \ {"zombie"} :
        /\ pc' = Moved(pc, t, s)
        /\ \/ pc[t] = "wait" /\ s = "lock" /\ Wait(t)
           \/ pc[t] = "lock" /\ s = "access" /\ Lock(t)
           \/ pc[t] = "unlock" /\ s = "post" /\ Unlock(t)
           \/ pc[t] = "post" /\ s = "sleep" /\ Post(t)
  BY DEF Wait, Lock, Unlock, Post, Goto, Moved, PcStates
<1>2. UNCHANGED <<size, queueVars>>
  BY DEF Wait, Lock, Unlock, Post
<1>3. /\ mutex \in Nat /\ freeSpace \in Nat /\ items \in Nat /\ msg_count \in Nat
      /\ MSG_MAX \in Nat /\ pc \in [Children -> PcStates]
  BY SharedAssumption DEF IInv, TypeOK, PcStates
<1>4. mutex' \in Nat /\ freeSpace' \in Nat /\ items' \in Nat /\ msg_count' \in Nat
  BY <1>2, <1>3 DEF Wait, Lock, Unlock, Post, queueVars
<1>5. /\ MutexDiscipline' /\ MutexBound' /\ TokensConserved' /\ TokensBound'
      /\ NoMessageStranded'
  <2>1. Session' = Session /\ msg_count' = msg_count
    BY <1>2 DEF Session, queueVars
  <2>2. mutex' + Has(t, Children, s, Critical) = mutex + Has(t, Children, pc[t], Critical)
    BY <1>1, <1>3 DEF Wait, Lock, Unlock, Post, Has, Critical
  <2>3. freeSpace' + items' + Has(t, Children, s, InRound)
          = freeSpace + items + Has(t, Children, pc[t], InRound)
    BY <1>1, <1>3 DEF Wait, Lock, Unlock, Post, Has, InRound
  <2>4. msg_count' + items + Has(t, Producers, pc[t], {"unlock", "post"})
                           + Has(t, Consumers, pc[t], {"lock", "access"})
          <= msg_count + items' + Has(t, Producers, s, {"unlock", "post"})
                                + Has(t, Consumers, s, {"lock", "access"})
    BY <1>1, <1>3, <2>1, ChildSets DEF Wait, Lock, Unlock, Post, Has
  <2>5. \A S, Q : Has(t, S, s, Q) \in Nat /\ Has(t, S, pc[t], Q) \in Nat
    BY DEF Has
  <2> QED
    BY <1>1, <1>3, <1>4, <2>1, <2>2, <2>3, <2>4, <2>5, TokenMove
<1>6. TypeOK'
  <2>1. mutex' \in 0 .. 1 /\ freeSpace' \in 0 .. MSG_MAX /\ items' \in 0 .. MSG_MAX
    <3>1. Number(Children, Critical)' \in Nat /\ Number(Children, InRound)' \in Nat
      BY <1>1, <1>3, NumberMove DEF Number
    <3> QED
      BY <1>3, <1>4, <1>5, <3>1 DEF MutexBound, TokensBound
  <2> QED
    BY <1>1, <1>2, <2>1 DEF IInv, TypeOK, PcStates, Moved, queueVars
<1>7. SlotsFree' /\ ReapedBound'
  BY <1>1, SlotsKept
<1> QED
  BY <1>5, <1>6, <1>7 DEF IInv

\* putMsg and getMsg.
LEMMA QueueStep ==
  ASSUME IInv, NEW t \in Children, UNCHANGED <<mainPc, amount, reaped, flag>>,
         \/ t \in Producers /\ PutMsg(t)
         \/ t \in Consumers /\ GetMsg(t)
  PROVE  IInv'
<1>1. pc' = Moved(pc, t, "unlock") /\ pc[t] = "access" /\ "unlock" \in PcStates
  BY DEF PutMsg, GetMsg, Goto, Moved, PcStates
<1>2. UNCHANGED <<size, semVars>>
  BY DEF PutMsg, GetMsg
<1>3. /\ mutex \in Nat /\ freeSpace \in Nat /\ items \in Nat /\ msg_count \in Nat
      /\ MSG_MAX \in Nat
  BY SharedAssumption DEF IInv, TypeOK
<1>4. TypeOK'
  <2>1. msg_count' \in 0 .. MSG_MAX - 1 /\ head' \in 0 .. MaxHead /\ tail' \in 0 .. MSG_MAX
    BY SharedAssumption DEF PutMsg, GetMsg, Wrap, IInv, TypeOK
  <2> QED
    BY <1>1, <1>2, <2>1 DEF IInv, TypeOK, PcStates, Moved, semVars
<1>5. /\ MutexDiscipline' /\ MutexBound' /\ TokensConserved' /\ TokensBound'
      /\ NoMessageStranded'
  <2>1. /\ Session' = Session
        /\ UNCHANGED <<mutex, freeSpace, items>> /\ msg_count' \in Nat
    BY <1>2, <1>4, SharedAssumption DEF Session, semVars, TypeOK
  <2>2. /\ \A S : Has(t, S, pc[t], Critical) = Has(t, S, "unlock", Critical)
        /\ \A S : Has(t, S, pc[t], InRound) = Has(t, S, "unlock", InRound)
        /\ Has(t, Children, pc[t], Critical) \in Nat /\ Has(t, Children, pc[t], InRound) \in Nat
    BY <1>1 DEF Has, Critical, InRound
  <2>3. \/ msg_count' = 0
        \/ msg_count' + items + Has(t, Producers, pc[t], {"unlock", "post"})
                              + Has(t, Consumers, pc[t], {"lock", "access"})
             <= msg_count + items' + Has(t, Producers, "unlock", {"unlock", "post"})
                                   + Has(t, Consumers, "unlock", {"lock", "access"})
    <3>1. CASE t \in Producers /\ PutMsg(t)
      <4>1. /\ Has(t, Producers, pc[t], {"unlock", "post"}) = 0
            /\ Has(t, Producers, "unlock", {"unlock", "post"}) = 1
            /\ Has(t, Consumers, pc[t], {"lock", "access"}) = 0
            /\ Has(t, Consumers, "unlock", {"lock", "access"}) = 0
        BY <1>1, <3>1, ChildSets DEF Has
      <4>2. msg_count' <= msg_count + 1
        BY <1>3, <3>1 DEF PutMsg
      <4> QED
        BY <1>3, <2>1, <4>1, <4>2
    <3>2. CASE t \in Consumers /\ GetMsg(t)
      <4>1. /\ Has(t, Producers, pc[t], {"unlock", "post"}) = 0
            /\ Has(t, Producers, "unlock", {"unlock", "post"}) = 0
            /\ Has(t, Consumers, pc[t], {"lock", "access"}) = 1
            /\ Has(t, Consumers, "unlock", {"lock", "access"}) = 0
        BY <1>1, <3>2, ChildSets DEF Has
      <4>2. msg_count' = 0 \/ msg_count' = msg_count - 1
        BY <1>3, <3>2 DEF GetMsg
      <4> QED
        BY <1>3, <2>1, <4>1, <4>2
    <3> QED
      BY <3>1, <3>2
  <2> QED
    BY <1>1, <1>3, <2>1, <2>2, <2>3, TokenMove
<1>6. SlotsFree' /\ ReapedBound'
  BY <1>1, SlotsKept
<1> QED
  BY <1>4, <1>5, <1>6 DEF IInv

-----------------------------------------------------------------------------
(* The steps of main *)

\* A process outside its round may appear, be killed or be reaped: no count changes.
LEMMA OutsideMove ==
  ASSUME IInv, NEW t \in Children, NEW s \in PcStates \ InRound, pc[t] \notin InRound,
         pc' = Moved(pc, t, s), Session' => Session, UNCHANGED <<semVars, queueVars>>
  PROVE  /\ MutexDiscipline' /\ MutexBound' /\ TokensConserved' /\ TokensBound'
         /\ NoMessageStranded'
<1>1. \A S, Q : Q \subseteq InRound => Has(t, S, pc[t], Q) = 0 /\ Has(t, S, s, Q) = 0
  BY DEF Has
<1>2. /\ Critical \subseteq InRound /\ {"unlock", "post"} \subseteq InRound
      /\ {"lock", "access"} \subseteq InRound
  BY DEF Critical, InRound
<1>3. /\ mutex \in Nat /\ freeSpace \in Nat /\ items \in Nat /\ msg_count \in Nat
      /\ UNCHANGED <<mutex, freeSpace, items, msg_count>>
  BY SharedAssumption DEF IInv, TypeOK, semVars, queueVars
<1> QED
  BY <1>1, <1>2, <1>3, TokenMove

LEMMA CreateStep ==
  ASSUME IInv, NEW k \in Kinds, Create(k)
  PROVE  IInv'
<1> DEFINE t == <<k, amount[k]>>
<1>1. /\ amount[k] \in Nat /\ amount[k] < MaxAmount(k) /\ mainPc = "menu" /\ Session
      /\ UNCHANGED <<mainPc, reaped, semVars, queueVars>>
  BY SharedAssumption DEF Create, IInv, TypeOK, Session, MaxAmount, Kinds
<1>2. t \in Children /\ (t \in Producers <=> k = "P") /\ t[1] = k /\ t[2] = amount[k]
  BY <1>1, SlotIsChild
<1>3. /\ pc' = Moved(pc, t, "start") /\ flag' = [flag EXCEPT ![t] = TRUE]
      /\ amount' = [amount EXCEPT ![k] = @ + 1]
  BY DEF Create, Moved
<1>4. pc[t] = "none"
  BY <1>1, <1>2 DEF IInv, SlotsFree
<1>5. TypeOK'
  <2>1. size' \in [Producers -> Sizes]
    BY <1>2 DEF Create, IInv, TypeOK
  <2>2. amount' \in [Kinds -> Nat] /\ \A j \in Kinds : amount'[j] <= MaxAmount(j)
    BY <1>1, <1>3, SharedAssumption DEF IInv, TypeOK, MaxAmount, Kinds
  <2>3. /\ pc' \in [Children -> PcStates] /\ flag' \in [Children -> BOOLEAN]
    BY <1>3 DEF IInv, TypeOK, Moved, PcStates
  <2> QED
    BY <1>1, <2>1, <2>2, <2>3 DEF IInv, TypeOK, PcStates, semVars, queueVars
<1>6. /\ MutexDiscipline' /\ MutexBound' /\ TokensConserved' /\ TokensBound'
      /\ NoMessageStranded'
  BY <1>1, <1>2, <1>3, <1>4, OutsideMove DEF Session, PcStates, InRound
<1>7. SlotsFree'
  <2>1. pc \in [Children -> PcStates] /\ flag \in [Children -> BOOLEAN] /\ amount \in [Kinds -> Nat]
    BY DEF IInv, TypeOK, PcStates
  <2>2. ASSUME NEW u \in Children, u # t
        PROVE  /\ u[2] < amount'[u[1]] <=> u[2] < amount[u[1]]
               /\ pc'[u] = pc[u] /\ flag'[u] = flag[u]
    <3>1. u = <<u[1], u[2]>> /\ u[1] \in Kinds /\ u[2] \in Nat
      BY ChildIsSlot
    <3>2. u[1] = k => u[2] # amount[k]
      BY <2>2, <3>1
    <3>3. u[1] = k => amount'[u[1]] = amount[k] + 1
      BY <1>3, <2>1
    <3>4. u[1] # k => amount'[u[1]] = amount[u[1]]
      BY <1>3, <2>1, <3>1
    <3>5. u[2] < amount'[u[1]] <=> u[2] < amount[u[1]]
      BY <1>1, <3>1, <3>2, <3>3, <3>4
    <3> QED
      BY <1>2, <1>3, <2>1, <2>2, <3>5 DEF Moved
  <2>3. t[2] < amount'[t[1]] /\ pc'[t] = "start" /\ flag'[t] = TRUE
    BY <1>1, <1>2, <1>3, <2>1 DEF Moved
  <2>4. \A u \in Children : u[2] >= amount[u[1]] => pc[u] = "none"
    BY <1>1 DEF IInv, SlotsFree
  <2>5. \A u \in Children : u[2] < amount'[u[1]] => flag'[u] = TRUE /\ pc'[u] # "zombie"
    BY <1>1, <2>2, <2>3 DEF IInv, SlotsFree
  <2>6. \A u \in Children : u[2] >= amount'[u[1]] => pc'[u] = "none"
    <3> TAKE u \in Children
    <3>1. u[2] \in Nat /\ u[1] \in Kinds
      BY ChildIsSlot
    <3>2. amount[u[1]] \in Nat /\ amount'[u[1]] \in Nat
      BY <1>3, <2>1, <3>1
    <3> QED
      BY <2>2, <2>3, <2>4, <3>1, <3>2
  <2> QED
    BY <2>5, <2>6 DEF SlotsFree
<1>8. ReapedBound'
  <2>1. amount'["P"] \in Nat /\ amount'["C"] \in Nat /\ reaped = 0
    BY <1>1, <1>5 DEF TypeOK, Kinds, IInv, ReapedBound
  <2> QED
    BY <1>1, <2>1 DEF ReapedBound, Session
<1> QED
  BY <1>5, <1>6, <1>7, <1>8 DEF IInv

LEMMA DeleteStep ==
  ASSUME IInv, NEW k \in Kinds, NEW key, Delete(k, key)
  PROVE  IInv'
<1> DEFINE t == <<k, amount[k] - 1>>
<1>1. /\ amount[k] \in Nat \ {0} /\ amount[k] <= MaxAmount(k) /\ mainPc = "menu" /\ Session
      /\ mainPc' = "wait" /\ UNCHANGED <<reaped, size, semVars, queueVars>>
  BY DEF Delete, IInv, TypeOK, Session
<1>2. t \in Children /\ t[1] = k /\ t[2] = amount[k] - 1
  <2>1. amount[k] - 1 \in Nat /\ amount[k] - 1 < MaxAmount(k)
    BY <1>1, SharedAssumption DEF MaxAmount
  <2> QED
    BY <2>1, SlotIsChild
<1>3. amount' = [amount EXCEPT ![k] = @ - 1]
  BY DEF Delete
<1>4. \/ pc[t] = "start" /\ pc' = Moved(pc, t, "zombie") /\ UNCHANGED flag
      \/ UNCHANGED pc /\ flag' = [flag EXCEPT ![t] = FALSE]
  BY DEF Delete, Moved
<1>5. pc \in [Children -> PcStates] /\ flag \in [Children -> BOOLEAN] /\ amount \in [Kinds -> Nat]
  BY DEF IInv, TypeOK, PcStates
<1>6. TypeOK'
  <2>1. amount' \in [Kinds -> Nat] /\ \A j \in Kinds : amount'[j] <= MaxAmount(j)
    <3>1. \A j \in Kinds : amount'[j] \in Nat /\ amount'[j] <= amount[j]
      BY <1>1, <1>3, <1>5
    <3>2. \A j \in Kinds : amount[j] <= MaxAmount(j) /\ MaxAmount(j) \in Nat
      BY SharedAssumption DEF IInv, TypeOK, MaxAmount
    <3>3. \A j \in Kinds : amount'[j] <= MaxAmount(j)
      BY <1>5, <3>1, <3>2
    <3> QED
      BY <1>1, <1>3, <1>5, <3>3
  <2>2. pc' \in [Children -> PcStates] /\ flag' \in [Children -> BOOLEAN]
    BY <1>4, <1>5 DEF Moved, PcStates
  <2> QED
    BY <1>1, <2>1, <2>2 DEF IInv, TypeOK, PcStates, semVars, queueVars
<1>7. /\ MutexDiscipline' /\ MutexBound' /\ TokensConserved' /\ TokensBound'
      /\ NoMessageStranded'
  <2>1. CASE UNCHANGED pc
    BY <1>1, <2>1
    DEF IInv, MutexDiscipline, MutexBound, TokensConserved, TokensBound, NoMessageStranded, Session,
        Number, semVars, queueVars
  <2>2. CASE pc[t] = "start" /\ pc' = Moved(pc, t, "zombie")
    BY <1>1, <1>2, <2>2, OutsideMove DEF PcStates, InRound
  <2> QED
    BY <1>4, <2>1, <2>2
<1>8. SlotsFree'
  <2>1. \A u \in Children : u[2] >= amount[u[1]] => pc[u] = "none"
    BY <1>1 DEF IInv, SlotsFree
  <2>2. ASSUME NEW u \in Children, u # t
        PROVE  /\ u[2] < amount'[u[1]] <=> u[2] < amount[u[1]]
               /\ pc'[u] = pc[u] /\ flag'[u] = flag[u]
    <3>1. u = <<u[1], u[2]>> /\ u[1] \in Kinds /\ u[2] \in Nat
      BY ChildIsSlot
    <3>2. u[1] = k => u[2] # amount[k] - 1
      BY <2>2, <3>1
    <3>3. u[1] = k => amount'[u[1]] = amount[k] - 1
      BY <1>3, <1>5
    <3>4. u[1] # k => amount'[u[1]] = amount[u[1]]
      BY <1>3, <1>5, <3>1
    <3>5. u[2] < amount'[u[1]] <=> u[2] < amount[u[1]]
      BY <1>1, <3>1, <3>2, <3>3, <3>4
    <3> QED
      BY <1>2, <1>4, <1>5, <2>2, <3>5 DEF Moved
  <2>3. amount'[k] = amount[k] - 1 /\ ~(t[2] < amount'[t[1]])
    BY <1>1, <1>2, <1>3, <1>5
  <2>4. \A u \in Children : u[2] < amount'[u[1]] => flag'[u] = TRUE /\ pc'[u] # "zombie"
    BY <1>1, <2>2, <2>3 DEF IInv, SlotsFree
  <2>5. \A u \in Children : u[2] >= amount'[u[1]] /\ u # <<k, amount'[k]>> => pc'[u] = "none"
    <3> SUFFICES ASSUME NEW u \in Children, u[2] >= amount'[u[1]], u # t PROVE pc'[u] = "none"
      BY <2>3
    <3>1. u[2] \in Nat /\ u[1] \in Kinds
      BY ChildIsSlot
    <3>2. amount[u[1]] \in Nat /\ amount'[u[1]] \in Nat
      BY <1>6, <1>5, <3>1 DEF TypeOK
    <3>3. ~(u[2] < amount'[u[1]])
      BY <3>1, <3>2
    <3> QED
      BY <2>1, <2>2, <3>1, <3>2, <3>3
  <2> QED
    BY <1>1, <2>4, <2>5 DEF SlotsFree
<1>9. ReapedBound'
  <2>1. amount'["P"] \in Nat /\ amount'["C"] \in Nat /\ reaped = 0
    BY <1>1, <1>6 DEF TypeOK, Kinds, IInv, ReapedBound
  <2> QED
    BY <1>1, <2>1 DEF ReapedBound, Session
<1> QED
  BY <1>6, <1>7, <1>8, <1>9 DEF IInv

\* wait(NULL) in the menu reaps the child that was deleted: nobody else is a zombie.
LEMMA DeleteReapStep ==
  ASSUME IInv, DeleteReap
  PROVE  IInv'
<1>1. PICK t \in Children : pc[t] = "zombie" /\ pc' = Moved(pc, t, "none")
  BY DEF DeleteReap, Reap, Moved
<1>2. /\ mainPc = "wait" /\ mainPc' = "menu"
      /\ UNCHANGED <<amount, reaped, size, flag, semVars, queueVars>>
  BY DEF DeleteReap, Reap
<1>3. pc \in [Children -> PcStates] /\ amount \in [Kinds -> Nat]
  BY DEF IInv, TypeOK, PcStates
<1>4. TypeOK'
  BY <1>1, <1>2 DEF IInv, TypeOK, Moved, semVars, queueVars
<1>5. /\ MutexDiscipline' /\ MutexBound' /\ TokensConserved' /\ TokensBound'
      /\ NoMessageStranded'
  BY <1>1, <1>2, OutsideMove DEF Session, PcStates, InRound
<1>6. SlotsFree'
  <2>1. PICK k \in Kinds : \A u \in Children :
          u[2] >= amount[u[1]] /\ u # <<k, amount[k]>> => pc[u] = "none"
    BY <1>2 DEF IInv, SlotsFree, Session
  <2>2. \A u \in Children : u[2] < amount[u[1]] => flag[u] = TRUE /\ pc[u] # "zombie"
    BY <1>2 DEF IInv, SlotsFree, Session
  <2>3. ~(t[2] < amount[t[1]]) /\ t[2] >= amount[t[1]]
    <3>1. t[2] \in Nat /\ amount[t[1]] \in Nat
      BY <1>3, ChildIsSlot
    <3> QED
      BY <1>1, <2>2, <3>1
  <2>4. t = <<k, amount[k]>>
    BY <1>1, <2>1, <2>3
  <2>5. \A u \in Children : u[2] >= amount[u[1]] => pc'[u] = "none"
    BY <1>1, <1>3, <2>1, <2>4 DEF Moved
  <2>6. \A u \in Children : u[2] < amount[u[1]] => flag[u] = TRUE /\ pc'[u] # "zombie"
    BY <1>1, <1>3, <2>2 DEF Moved
  <2> QED
    BY <1>2, <2>5, <2>6 DEF SlotsFree
<1>7. ReapedBound'
  BY <1>2 DEF IInv, ReapedBound, Session
<1> QED
  BY <1>4, <1>5, <1>6, <1>7 DEF IInv

LEMMA QuitStep ==
  ASSUME IInv, Quit \/ AtexitUnlink
  PROVE  IInv'
<1>1. /\ mainPc' \in {"exit", "done"} /\ ~Session'
      /\ UNCHANGED <<amount, reaped, pc, size, flag, semVars, queueVars>>
  BY DEF Quit, AtexitUnlink, Session
<1>2. TypeOK'
  BY <1>1 DEF IInv, TypeOK, semVars, queueVars
<1>3. /\ MutexDiscipline' /\ MutexBound' /\ TokensConserved' /\ TokensBound'
      /\ NoMessageStranded'
  BY <1>1 DEF IInv, MutexDiscipline, MutexBound, TokensConserved, TokensBound, NoMessageStranded,
              Number, semVars, queueVars
<1>4. SlotsFree' /\ ReapedBound'
  BY <1>1 DEF IInv, SlotsFree, ReapedBound
<1> QED
  BY <1>2, <1>3, <1>4 DEF IInv

\* A killed child takes the tokens it held with it, and never gives the mutex back.
LEMMA AtexitKillStep ==
  ASSUME IInv, AtexitKill
  PROVE  IInv'
<1>1. PICK t \in Victims : Position(t) = reaped /\ pc' = Moved(pc, t, "zombie")
  BY DEF AtexitKill, Moved
<1>2. /\ mainPc' = "exitWait" /\ ~Session'
      /\ UNCHANGED <<amount, reaped, size, flag, semVars, queueVars>>
  BY DEF AtexitKill, Session
<1>3. t \in Children /\ "zombie" \in PcStates
  BY DEF Victims, PcStates
<1>4. TypeOK'
  BY <1>1, <1>2 DEF IInv, TypeOK, Moved, semVars, queueVars
<1>5. /\ MutexDiscipline' /\ MutexBound' /\ TokensConserved' /\ TokensBound'
      /\ NoMessageStranded'
  <2>1. \A S, Q : Has(t, S, pc[t], Q) \in {0, 1}
    BY DEF Has
  <2>2. /\ Has(t, Children, "zombie", Critical) = 0 /\ Has(t, Children, "zombie", InRound) = 0
    BY DEF Has, Critical, InRound
  <2>3. /\ mutex \in Nat /\ freeSpace \in Nat /\ items \in Nat /\ msg_count \in Nat
        /\ UNCHANGED <<mutex, freeSpace, items, msg_count>>
    BY <1>2, SharedAssumption DEF IInv, TypeOK, semVars, queueVars
  <2> QED
    BY <1>1, <1>2, <1>3, <2>1, <2>2, <2>3, TokenMove
<1>6. SlotsFree'
  BY <1>2 DEF SlotsFree
<1>7. ReapedBound'
  <2>1. amount["P"] \in Nat /\ amount["C"] \in Nat
    BY DEF IInv, TypeOK, Kinds
  <2>2. t[2] \in Nat /\ t[2] < amount[t[1]] /\ (t[1] = "P" \/ t[1] = "C")
        /\ (t \in Producers <=> t[1] = "P")
    BY <1>3, ChildIsSlot DEF Victims, Kinds
  <2>3. reaped < amount["P"] + amount["C"]
    BY <1>1, <2>1, <2>2 DEF Position
  <2> QED
    BY <1>2, <2>1, <2>3 DEF IInv, ReapedBound
<1> QED
  BY <1>4, <1>5, <1>6, <1>7 DEF IInv

LEMMA AtexitReapStep ==
  ASSUME IInv, AtexitReap
  PROVE  IInv'
<1>1. PICK t \in Children : pc[t] = "zombie" /\ pc' = Moved(pc, t, "none")
  BY DEF AtexitReap, Reap, Moved
<1>2. /\ mainPc = "exitWait" /\ mainPc' = "exit" /\ reaped' = reaped + 1 /\ ~Session'
      /\ UNCHANGED <<amount, size, flag, semVars, queueVars>>
  BY DEF AtexitReap, Reap, Session
<1>3. amount["P"] \in 0 .. PROD_MAX /\ amount["C"] \in 0 .. CONS_MAX /\ reaped \in Nat
  BY SharedAssumption DEF IInv, TypeOK, Kinds, MaxAmount
<1>4. reaped < amount["P"] + amount["C"]
  BY <1>2 DEF IInv, ReapedBound
<1>5. TypeOK'
  <2>1. reaped' \in 0 .. PROD_MAX + CONS_MAX
    BY <1>2, <1>3, <1>4, SharedAssumption
  <2> QED
    BY <1>1, <1>2, <2>1 DEF IInv, TypeOK, Moved, semVars, queueVars
<1>6. /\ MutexDiscipline' /\ MutexBound' /\ TokensConserved' /\ TokensBound'
      /\ NoMessageStranded'
  BY <1>1, <1>2, OutsideMove DEF PcStates, InRound
<1>7. SlotsFree' /\ ReapedBound'
  BY <1>2, <1>3, <1>4 DEF SlotsFree, ReapedBound
<1> QED
  BY <1>5, <1>6, <1>7 DEF IInv

-----------------------------------------------------------------------------

LEMMA InvStep == IInv /\ [Next]_vars => IInv'
<1> SUFFICES ASSUME IInv, [Next]_vars PROVE IInv'
  OBVIOUS
<1>1. CASE UNCHANGED vars
  <2>1. /\ TypeOK' /\ SlotsFree' /\ ReapedBound'
    BY <1>1 DEF IInv, vars, semVars, queueVars, TypeOK, SlotsFree, ReapedBound, Session
  <2>2. /\ MutexDiscipline' /\ MutexBound' /\ TokensConserved' /\ TokensBound'
        /\ NoMessageStranded'
    BY <1>1 DEF IInv, vars, semVars, queueVars, MutexDiscipline, MutexBound, TokensConserved,
                TokensBound, NoMessageStranded, Number, Session
  <2> QED
    BY <2>1, <2>2 DEF IInv
<1>2. ASSUME NEW t \in Children, Child(t) PROVE IInv'
  BY <1>2, LocalStep, SemaphoreStep, QueueStep DEF Child
<1>3. CASE Main
  <2>1. "P" \in Kinds /\ "C" \in Kinds
    BY DEF Kinds
  <2> QED
    BY <1>3, <2>1, CreateStep, DeleteStep, DeleteReapStep, QuitStep, AtexitKillStep, AtexitReapStep
    DEF Main
<1> QED
  BY <1>1, <1>2, <1>3 DEF Next

LEMMA Invariance == Spec => []IInv
BY InvInit, InvStep, PTL DEF Spec

-----------------------------------------------------------------------------
(* The theorems *)

\* Every variable keeps its type: no semaphore rises above its first value, tail stays
\* in the buffer and msg_count below its size.  head is bounded by MaxHead alone, since
\* getMsg never wraps it and goes on behind the buffer's end (consumer.c:70-74).
THEOREM TypeCorrect == Spec => []TypeOK
<1>1. IInv => TypeOK
  BY DEF IInv
<1> QED
  BY <1>1, Invariance, PTL

\* The mutex semaphore lets one process at a time into the queue, however often
\* children are created and told to stop.
THEOREM MutualExclusion == Spec => []MutexDiscipline
<1>1. IInv => MutexDiscipline
  BY DEF IInv
<1> QED
  BY <1>1, Invariance, PTL

\* A child that is told to stop ends between two rounds, so the tokens of freeSpace
\* and items always add up to the size of the buffer.
THEOREM TokensAddUp == Spec => []TokensConserved
<1>1. IInv => TokensConserved
  BY DEF IInv
<1> QED
  BY <1>1, Invariance, PTL

\* Every message in the queue has a token of items, or a process about to post or
\* to use one: the message that putMsg drops and the one that getMsg does not find
\* leave tokens over, never too few.
THEOREM MessagesReachable == Spec => []NoMessageStranded
<1>1. IInv => NoMessageStranded
  BY DEF IInv
<1> QED
  BY <1>1, Invariance, PTL

================================================================================
